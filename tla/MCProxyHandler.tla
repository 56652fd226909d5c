--------------------------- MODULE MCProxyHandler ---------------------------
(* Small instances of ProxyHandler for TLC. *)
EXTENDS ProxyHandler

CONSTANTS a1, a2, c1, c2

OneBackend == <<[address |-> a1, weight |-> 1]>>
TwoBackends == <<[address |-> a1, weight |-> 2], [address |-> a2, weight |-> 1]>>

AnyBackend == {Address}
NoReload == {}
DropFirst == {<<a2>>}
NoAction == {}
DisableEnable == {"disable", "enable"}
CheckerOff == {}
ZeroLatency == {0}

UpToTwo == {0, 1, 2}
Once == {1}
AnyLimit == {"allow", "throttle", "block", "error"}
NoLimit == {"allow"}
AnyBody == {"ok", "too large", "unreadable"}
GoodBody == {"ok"}
AnyResponse == {"ok", "server error", "gateway error"}
OkOrGateway == {"ok", "gateway error"}
AnySize == {"fits", "too large"}
Fits == {"fits"}
AnyEnding == {"cancelled", "deadline"}
=============================================================================
