---------------------------- MODULE Configuration ----------------------------
(***************************************************************************)
(* What a configuration is and what a request makes of it: loadConfig of   *)
(* config.go, that is defaults, file, environment, rate-limit defaults and *)
(* Validate, in this order; and the policy resolution of main.go.  Only    *)
(* operators, no state.                                                    *)
(*                                                                         *)
(* A configuration is one record of settings.  A file and an environment   *)
(* are the settings they set; a variable that does not parse is not set.   *)
(* Rates and bursts are kept in 1/Scale requests, rounded up; the division *)
(* of config.go:463 is exact for windows that divide Scale.  A port is     *)
(* kept as its form: "" or "colon" (":8080") or "bare" ("8080").  Paths    *)
(* are sequences, so that prefixes are prefixes.                           *)
(***************************************************************************)
EXTENDS Integers, Sequences

CONSTANTS
    Scale,             \* units per request, in rates and bursts
    DefaultBackends,   \* the backends of defaultConfig
    HostPorts          \* the addresses that have a host and a port

ASSUME ConfigurationAssumption ==
    /\ Scale \in Nat \ {0}
    /\ DefaultBackends \subseteq HostPorts

-----------------------------------------------------------------------------
(* Rate limits *)

\* the numbers of a RateLimitConfig, which a policy may override one by one
Numbers == {"requests", "window", "base", "burst", "sliding", "throttle", "block",
            "threshold", "retention", "topN"}

Rate == [Numbers -> Int]

DefaultRate ==
    [requests |-> 5, window |-> 10, base |-> 5 * Scale, burst |-> 10 * Scale,
     sliding |-> 10, throttle |-> 250, block |-> 30, threshold |-> 3,
     retention |-> 3600, topN |-> 10]

\* applyPolicyOverrides: what a policy does not set to a positive number it inherits
Override(rate, own) == [n \in Numbers |-> IF own[n] > 0 THEN own[n] ELSE rate[n]]

BaseRate(rate) ==
    IF rate["base"] > 0 THEN rate["base"]
    ELSE IF rate["requests"] > 0 /\ rate["window"] > 0
    THEN (rate["requests"] * Scale + rate["window"] - 1) \div rate["window"]
    ELSE Scale

Sliding(rate) ==
    IF rate["sliding"] > 0 THEN rate["sliding"]
    ELSE IF rate["window"] > 0 THEN rate["window"] ELSE 10

AtLeast(m, n) == IF n < m THEN m ELSE n

\* mutant: a burst that is set is not raised to one request
BurstUnraised(rate) == IF rate["burst"] > 0 THEN rate["burst"] ELSE BaseRate(rate) * 2
Burst(rate) ==
    AtLeast(Scale, IF rate["burst"] > 0 THEN rate["burst"] ELSE BaseRate(rate) * 2)

Fallback == [throttle |-> 250, block |-> 30, threshold |-> 3, retention |-> 3600, topN |-> 10]

\* applyRateLimitDefaultsToConfig
Filled(rate) ==
    [n \in Numbers |->
        CASE n = "base" -> BaseRate(rate)
          [] n = "burst" -> Burst(rate)
          [] n = "sliding" -> Sliding(rate)
          [] n \in {"requests", "window"} -> rate[n]
          [] OTHER -> IF rate[n] > 0 THEN rate[n] ELSE Fallback[n]]

\* evaluateLocal's window and limit
LocalWindow(rate) ==
    LET longer == AtLeast(rate["window"], rate["sliding"])
    IN  IF longer > 0 THEN longer ELSE 60

LocalLimit(rate) ==
    IF rate["requests"] > 0 THEN rate["requests"]
    ELSE AtLeast(1, (rate["base"] * LocalWindow(rate) + Scale - 1) \div Scale)

-----------------------------------------------------------------------------
(* Loading *)

Default ==
    [mode |-> "http", tcpBackend |-> "", port |-> "colon", statsPort |-> "colon",
     tls |-> FALSE, cert |-> "", certKey |-> "",
     auth |-> FALSE, user |-> "admin", pass |-> "changeme",
     backends |-> DefaultBackends, routes |-> <<>>,
     limits |-> TRUE, key |-> "ip", header |-> "X-API-Key", redis |-> "",
     rate |-> DefaultRate, policies |-> <<>>,
     health |-> "sound", sizes |-> "sound",
     tracing |-> FALSE, service |-> "edge-proxy", endpoint |-> "", ratio |-> 100]

\* the settings of g, with those that f has from f
Over(f, g) == [s \in DOMAIN g |-> IF s \in DOMAIN f THEN f[s] ELSE g[s]]

\* the decoder writes over the defaults what the file has
Decoded(file) == [Over(file.settings, Default) EXCEPT !.rate = Over(file.rate, @)]

\* applyRateLimitDefaults
\* mutant: a policy is filled up before it inherits
PolicyFilledFirst(c, policy) == Filled(Override(Filled(c.rate), Filled(policy.rate)))
PolicyFilled(c, policy) == Filled(Override(Filled(c.rate), policy.rate))

WithDefaults(c) ==
    [c EXCEPT
        !.header = IF @ = "" THEN "X-API-Key" ELSE @,
        !.rate = Filled(@),
        !.policies = [i \in DOMAIN @ |->
                         [c.policies[i] EXCEPT !.rate = PolicyFilled(c, c.policies[i])]]]

\* normalizePort, which only the environment's ports pass
NormalPort(port) == IF port = "bare" THEN "colon" ELSE port

\* applyEnvOverrides
Overridden(c, env) ==
    LET set == DOMAIN env.settings
        r   == Over(env.settings, c)
    IN  WithDefaults([r EXCEPT
            !.port = IF "port" \in set THEN NormalPort(@) ELSE @,
            !.statsPort = IF "statsPort" \in set THEN NormalPort(@) ELSE @,
            !.auth = @ \/ "pass" \in set,
            !.rate = Over(env.rate, @),
            !.tracing = @ \/ "endpoint" \in set \/ "ratio" \in set,
            !.tls = @ \/ (r.cert # "" /\ r.certKey # "")])

\* loadConfig up to Validate, which turns an empty mode into "http"; the rate-limit
\* defaults are applied again if there is a file
Prepared(c) == [c EXCEPT !.mode = IF @ = "" THEN "http" ELSE @]

Candidate(file, env) ==
    IF file.exists THEN Prepared(WithDefaults(Overridden(Decoded(file), env)))
                   ELSE Prepared(Overridden(Default, env))

ValidRoute(route) ==
    /\ route.path # <<>>
    /\ Head(route.path) = "/"
    /\ route.timeout >= 0
    /\ route.retries >= 0
    /\ route.healthPath # <<>> => Head(route.healthPath) = "/"
    /\ route.backends # {}
    /\ \A backend \in route.backends : backend.address \in HostPorts /\ backend.weight > 0

ValidRate(rate) ==
    /\ rate["requests"] >= 0
    /\ rate["window"] >= 0
    /\ \A n \in {"base", "burst", "sliding", "block"} : rate[n] > 0

\* Validate; inproc is INPROC_BACKENDS
Valid(c, inproc) ==
    /\ c.port # "" /\ c.statsPort # ""
    /\ c.mode \in {"http", "tcp"}
    /\ c.mode = "tcp" => c.tcpBackend # ""
    /\ c.backends \subseteq HostPorts
    /\ \A i \in DOMAIN c.routes : ValidRoute(c.routes[i])
    /\ c.mode = "http" => c.backends # {} \/ c.routes # <<>> \/ inproc
    /\ (c.cert = "") <=> (c.certKey = "")
    /\ c.tls => c.cert # ""
    /\ c.auth => c.user # "" /\ c.pass # ""
    /\ ValidRate(c.rate)
    /\ c.health # "unsound" /\ c.sizes # "unsound"
    /\ c.tracing => c.service # "" /\ c.endpoint # "" /\ c.ratio \in 0..100
    /\ \A i, j \in DOMAIN c.policies :
          c.policies[i].name # "" /\ (c.policies[i].name = c.policies[j].name => i = j)

-----------------------------------------------------------------------------
(* A request under a configuration *)

HasPrefix(path, prefix) ==
    Len(prefix) <= Len(path) /\ \A i \in DOMAIN prefix : path[i] = prefix[i]

\* the header that names the requester; an empty key falls back on identifier_header
KeyName(c) == IF c.key = "" THEN c.header ELSE c.key

\* identifyRequester; request.headers are the headers sent and their values
ByHeader(c, request) == KeyName(c) # "ip" /\ KeyName(c) \in DOMAIN request.headers

Identifier(c, request) ==
    IF ByHeader(c, request) THEN request.headers[KeyName(c)] ELSE request.host

RequesterOf(c, request) ==
    <<IF ByHeader(c, request) THEN "api_key" ELSE "ip", Identifier(c, request)>>

Applies(policy, c, request) ==
    /\ HasPrefix(request.path, policy.prefix)
    /\ policy.methods = {} \/ request.method \in policy.methods
    /\ policy.keys = {} \/ Identifier(c, request) \in policy.keys

\* the loop of resolveRateLimitConfig stops at the first policy that applies
FirstPolicy(i, c, request) ==
    /\ Applies(c.policies[i], c, request)
    /\ \A j \in 1..(i - 1) : ~ Applies(c.policies[j], c, request)

NoPolicy(c, request) == \A i \in DOMAIN c.policies : ~ Applies(c.policies[i], c, request)

\* the limits a request may be held to: a set of one, [name, rate]
Resolved(c, request) ==
    IF NoPolicy(c, request) THEN {[name |-> "default", rate |-> c.rate]}
    ELSE {[name |-> c.policies[i].name, rate |-> Filled(Override(c.rate, c.policies[i].rate))] :
             i \in {i \in DOMAIN c.policies : FirstPolicy(i, c, request)}}

\* the key of a limiter's bucket, in memory as in Redis; the code joins its parts
\* with colons, which the names of policies are taken not to contain
\* mutant: the policy's name is left out
BucketByUser(c, request) == {<<RequesterOf(c, request)>>}
BucketOf(c, request) ==
    {<<limits.name, RequesterOf(c, request)>> : limits \in Resolved(c, request)}

-----------------------------------------------------------------------------
(* What other parts of the program take for granted *)

SoundRate(rate) ==
    /\ \A n \in Numbers \ {"requests", "window"} : rate[n] > 0
    /\ rate["burst"] >= Scale
    /\ LocalLimit(rate) > 0
=============================================================================
