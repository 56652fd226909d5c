----------------------------- MODULE MCLifecycle -----------------------------
(* Small instances of Lifecycle for TLC. *)
EXTENDS Lifecycle, TLC

CONSTANTS c1, c2, b1, b2, junk

OneBackend == {b1}
Addresses == {b1, b2}

Unset == [s \in {} |-> 0]
NoFile == [exists |-> FALSE, settings |-> Unset, rate |-> Unset]
File(settings) == [exists |-> TRUE, settings |-> settings, rate |-> Unset]
FileRate(settings, rate) == [exists |-> TRUE, settings |-> settings, rate |-> rate]
Env(settings, rate) == [settings |-> settings, rate |-> rate]
NoEnv == Env(Unset, Unset)

Start(file, env) ==
    [file |-> file, env |-> env, inproc |-> FALSE, certs |-> TRUE, taken |-> FALSE]

\* a start whose port is in use goes no further than the listener
Try(file, env) == [Start(file, env) EXCEPT !.taken = TRUE]

-----------------------------------------------------------------------------
(* Starts that serve, or fail after loading *)

TCP == [mode |-> "tcp", tcpBackend |-> b1]
TLS == [tls |-> TRUE, cert |-> "c.pem", certKey |-> "k.pem"]

Serving ==
    {Start(NoFile, NoEnv), Start(NoFile, Env(TCP, Unset)), Start(File(TLS @@ TCP), NoEnv)}

Failing ==
    {[Start(File(TLS), NoEnv) EXCEPT !.certs = FALSE],
     Try(File([redis |-> "r"]), Env([endpoint |-> "o"], Unset)),
     Start(File([port |-> "bare"]), NoEnv)}

-----------------------------------------------------------------------------
(* Starts that try out settings, from the file and from the environment *)

FileSettings ==
    {Unset, [port |-> "bare", statsPort |-> "bare"], [port |-> ""],
     [tls |-> FALSE, cert |-> "c.pem", certKey |-> "k.pem"], [cert |-> "c.pem"],
     [tls |-> TRUE], [auth |-> TRUE, pass |-> ""], [backends |-> {}],
     [backends |-> {junk}], [mode |-> "", backends |-> {b2}],
     [health |-> "unsound"], [tracing |-> TRUE], [key |-> "", header |-> ""]}

EnvSettings ==
    {Unset, [port |-> "bare"], [port |-> "", statsPort |-> "bare"], [mode |-> "tcp"],
     [certKey |-> "k.pem"], [pass |-> "p"], [backends |-> {b2}],
     [mode |-> "http", backends |-> {junk}], [endpoint |-> "o", ratio |-> 50],
     [ratio |-> 101], [header |-> "X-Team"]}

SettingTries ==
    {[Try(File(f), Env(e, Unset)) EXCEPT !.inproc = i] :
        f \in FileSettings, e \in EnvSettings, i \in BOOLEAN}

-----------------------------------------------------------------------------
(* Starts that try out limits and policies *)

Own(rate) == [n \in Numbers |-> IF n \in DOMAIN rate THEN rate[n] ELSE 0]

Policy(name, prefix, keys, rate) ==
    [name |-> name, prefix |-> prefix, methods |-> {}, keys |-> keys, rate |-> Own(rate)]

\* a slow path; a key for which more is allowed; everything but reading
Slow == Policy("slow", <<"/", "a">>, {}, [requests |-> 1, window |-> 60])
Gold == Policy("gold", <<>>, {"gold"}, [base |-> 40, sliding |-> 1])
Change == [Policy("change", <<"/">>, {}, [burst |-> 1, window |-> 20]) EXCEPT !.methods = {"POST"}]
Named(policy, name) == [policy EXCEPT !.name = name]

PolicyLists ==
    {<<>>, <<Slow, Gold>>, <<Gold, Slow>>, <<Change>>, <<Named(Slow, "default")>>,
     <<Slow, Named(Gold, "slow")>>, <<Named(Change, "")>>}

FileRates ==
    {Unset, [requests |-> 0, window |-> 0, base |-> 0], [requests |-> 7, window |-> 3, base |-> 0],
     [requests |-> 3, window |-> 12, base |-> -1, burst |-> 0, sliding |-> 0],
     [base |-> 1, burst |-> 1], [requests |-> -1], [block |-> -5, topN |-> 0]}

EnvRates == {Unset, [base |-> 2], [base |-> 0, burst |-> 0, sliding |-> 3], [burst |-> 1]}

Route == [path |-> <<"/", "a">>, timeout |-> 0, retries |-> 1, healthPath |-> <<>>,
          backends |-> {[address |-> b1, weight |-> 1]}]

Routes == {<<Route>>, <<[Route EXCEPT !.backends = {}]>>, <<[Route EXCEPT !.path = <<"a">>]>>,
           <<[Route EXCEPT !.retries = -1]>>, <<[Route EXCEPT !.healthPath = <<"/", "up">>]>>,
           <<[Route EXCEPT !.healthPath = <<"up">>]>>}

RateTries ==
    {Try(FileRate([policies |-> p, key |-> k], r), Env(Unset, e)) :
        p \in PolicyLists, k \in {"ip", "", "X-Team"}, r \in FileRates, e \in EnvRates}
    \cup {Try(File([backends |-> {}, routes |-> r]), NoEnv) : r \in Routes}

AllInputs == Serving \cup Failing \cup SettingTries \cup RateTries

AskedRequests ==
    {[path |-> p, method |-> m, headers |-> h, host |-> "h1"] :
        p \in {<<"/">>, <<"/", "a", "b">>}, m \in {"GET", "POST"},
        h \in {Unset, ("X-API-Key" :> "gold"), ("X-Team" :> "gold")}}
=============================================================================
