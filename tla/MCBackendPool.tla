---------------------------- MODULE MCBackendPool ----------------------------
(* Small instances of BackendPool for TLC. *)
EXTENDS BackendPool, TLC

CONSTANTS a1, a2, c1, c2

OneBackend == <<[address |-> a1, weight |-> 1]>>
TwoBackends == <<[address |-> a1, weight |-> 2], [address |-> a2, weight |-> 1]>>
\* a1 stands in "backends" twice and has its weight from a route
RepeatedBackends == Append(TwoBackends, [address |-> a1, weight |-> 2])

AnyBackend == {Address}
AnyOrSecond == {Address, {a2}}

NoReload == {}
DropOrKeep == {<<a1>>, <<a1, a2>>}
KeepOne == {<<a1>>}

NoAction == {}
DisableEnable == {"disable", "enable"}
DrainEnable == {"drain", "enable"}
CheckerOff == {}
AnyResult == BOOLEAN
ZeroLatency == {0}

Symmetry == Permutations(Call)
=============================================================================
