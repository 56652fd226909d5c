----------------------------- MODULE RuntimeReload -----------------------------
(***************************************************************************)
(* reloadRuntimeConfig of main.go and the requests that read what it       *)
(* replaces: the pool, under its own lock, then cfg and rl together, under *)
(* runtimeMu.  POST /-/reload is served by its own goroutine, so reloads   *)
(* overlap.  A load is one call of loadConfig and newRateLimiter; pool,    *)
(* cfg and rl are the loads they come from.  Which backends of the pool    *)
(* are available is BackendPool's matter and which requests a limiter      *)
(* blocks is the limiters'; here a request is refused only because         *)
(* something it needs is gone.                                             *)
(***************************************************************************)
EXTENDS Naturals, Sequences

CONSTANTS
    Reload,      \* calls of reloadHandler in progress
    Request,     \* calls of proxyHandler in progress
    Configs,     \* the valid configurations the file may hold; with INPROC_BACKENDS
                 \* or in mode "tcp" one may list no backend at all
    Broken,      \* a file that loadConfig rejects
    MaxLoads     \* bound: loads in a behaviour

ASSUME ReloadAssumption ==
    /\ Broken \notin Configs
    /\ MaxLoads \in Nat \ {0}
    /\ \A config \in Configs :
          /\ config.limits \in BOOLEAN   \* rate_limit.enabled
          /\ config.redis \in BOOLEAN    \* rate_limit.redis.addr is set
          /\ {} \notin config.routes

VARIABLES
    file,      \* the configuration file
    loads,     \* what each load produced: its configuration and its limiter's client
    pool,      \* the load whose addresses the pool holds
    cfg,       \* the load of the current configuration
    rl,        \* the load of the current rate limiter
    reloads,   \* the local variables of each reloadRuntimeConfig
    requests,  \* the local variables of each proxyHandler
    rejected,  \* history: loads whose limiter did not answer the ping
    overlapped \* history: a reload began while another was under way

reloadVars == <<file, loads, pool, cfg, rl, reloads, requests, rejected, overlapped>>

-----------------------------------------------------------------------------
(* Data *)

Clients == {"none", "open", "closed"}

ReloadStages == {"idle", "pinging", "reconfiguring", "installing", "closing"}

\* the stages of a reload, in the order of the code; from the last it ends
\* mutant: the pool is changed before the new limiter is tried
OrderPoolFirst == <<"idle", "reconfiguring", "pinging", "installing", "closing">>
Order == <<"idle", "pinging", "reconfiguring", "installing", "closing">>

Following(stage) ==
    Order[1 + (CHOOSE i \in DOMAIN Order : Order[i] = stage)]

NoReload == [stage |-> "idle", new |-> 0, old |-> 0]

RequestStages == {"idle", "limiting", "evaluating", "routing", "forwarded",
                  "limiter unavailable", "no backend"}

\* overtaken is history: a reload changed something this request reads more than once
NoRequest == [stage |-> "idle", cfg |-> 0, limiter |-> 0, overtaken |-> FALSE]

Client(config) == IF config.redis THEN "open" ELSE "none"

\* mutant: the addresses of routes are left out
AddressesListed(config) == config.backends
Addresses(config) == config.backends \cup UNION config.routes

Loaded == DOMAIN loads

TypeOK ==
    /\ file \in Configs \cup {Broken}
    /\ loads \in Seq([config : Configs, client : Clients])
    /\ {pool, cfg, rl} \subseteq Loaded
    /\ reloads \in [Reload -> [stage : ReloadStages, new : {0} \cup Loaded, old : {0} \cup Loaded]]
    /\ requests \in [Request -> [stage : RequestStages, cfg : {0} \cup Loaded,
                                 limiter : {0} \cup Loaded, overtaken : BOOLEAN]]
    /\ rejected \subseteq Loaded
    /\ overlapped \in BOOLEAN
    /\ \A i \in Loaded : loads[i].client = "none" <=> ~ loads[i].config.redis

-----------------------------------------------------------------------------
(* A reload *)

\* the operator edits the file
Edit ==
    /\ file' \in (Configs \cup {Broken}) \ {file}
    /\ UNCHANGED <<loads, pool, cfg, rl, reloads, requests, rejected, overlapped>>

Moves(r, reload) == reloads' = [reloads EXCEPT ![r] = reload]

Overtake == requests' = [q \in Request |->
    [requests[q] EXCEPT !.overtaken = @ \/ requests[q].stage # "idle"]]

\* loadConfig and newRateLimiter; a file that is not valid ends the reload here
Load(r) ==
    /\ reloads[r].stage = "idle"
    /\ file # Broken
    /\ Len(loads) < MaxLoads
    /\ loads' = Append(loads, [config |-> file, client |-> Client(file)])
    /\ Moves(r, [stage |-> Following("idle"), new |-> Len(loads) + 1, old |-> 0])
    /\ overlapped' = (overlapped \/ \E s \in Reload : reloads[s].stage # "idle")
    /\ UNCHANGED <<file, pool, cfg, rl, requests, rejected>>

NewConfig(r) == loads[reloads[r].new].config

\* the ping of Redis, if the limiter is enabled and has a client; without an
\* answer the reload ends with its client left open
Ping(r) ==
    /\ reloads[r].stage = "pinging"
    /\ \/ Moves(r, [reloads[r] EXCEPT !.stage = Following("pinging")]) /\ UNCHANGED rejected
       \/ /\ NewConfig(r).limits /\ NewConfig(r).redis
          /\ Moves(r, NoReload)
          /\ rejected' = rejected \cup {reloads[r].new}
    /\ UNCHANGED <<file, loads, pool, cfg, rl, requests, overlapped>>

\* pool.reconfigure
ReconfigurePool(r) ==
    /\ reloads[r].stage = "reconfiguring"
    /\ pool' = reloads[r].new
    /\ Moves(r, [reloads[r] EXCEPT !.stage = Following("reconfiguring")])
    /\ Overtake
    /\ UNCHANGED <<file, loads, cfg, rl, rejected, overlapped>>

\* cfg and rl change under one lock, and the limiter they replace is kept
Install(r) ==
    /\ reloads[r].stage = "installing"
    /\ cfg' = reloads[r].new
    /\ rl' = reloads[r].new
    /\ Moves(r, [reloads[r] EXCEPT !.stage = Following("installing"), !.old = rl])
    /\ Overtake
    /\ UNCHANGED <<file, loads, pool, rejected, overlapped>>

\* mutant: the limiter in force by now, not the one that was replaced
RetiredCurrent(r) == rl
Retired(r) == reloads[r].old

\* mutants: no nil check, and the check of the wrong limiter
HasClientUnchecked(i) == i # 0
HasClientNew(i) == loads[rl].client # "none" /\ loads[i].client # "none"
HasClient(i) == loads[i].client # "none"

\* the client of the limiter that was replaced is closed
CloseOld(r) ==
    /\ reloads[r].stage = "closing"
    /\ loads' = IF HasClient(Retired(r))
                THEN [loads EXCEPT ![Retired(r)].client = "closed"] ELSE loads
    /\ Moves(r, NoReload)
    /\ UNCHANGED <<file, pool, cfg, rl, requests, rejected, overlapped>>

-----------------------------------------------------------------------------
(* A request *)

Becomes(q, request) == requests' = [requests EXCEPT ![q] = request]

\* c := currentConfig()
Start(q) ==
    /\ requests[q].stage = "idle"
    /\ Becomes(q, [stage |-> IF loads[cfg].config.limits THEN "limiting" ELSE "routing",
                   cfg |-> cfg, limiter |-> 0, overtaken |-> pool # cfg])
    /\ UNCHANGED <<file, loads, pool, cfg, rl, reloads, rejected, overlapped>>

\* currentRateLimiter()
FetchLimiter(q) ==
    /\ requests[q].stage = "limiting"
    /\ Becomes(q, [requests[q] EXCEPT !.stage = "evaluating", !.limiter = rl])
    /\ UNCHANGED <<file, loads, pool, cfg, rl, reloads, rejected, overlapped>>

\* Evaluate: the commands of a closed client fail; the local limiter has none
Evaluate(q) ==
    /\ requests[q].stage = "evaluating"
    /\ Becomes(q, [requests[q] EXCEPT
                      !.stage = IF loads[requests[q].limiter].client = "closed"
                                THEN "limiter unavailable" ELSE "routing"])
    /\ UNCHANGED <<file, loads, pool, cfg, rl, reloads, rejected, overlapped>>

\* matchRoute and routeBackendSet; {} is "no route", which allows every backend
Eligible(route) ==
    LET addresses == Addresses(loads[pool].config)
    IN  IF route = {} THEN addresses ELSE route \cap addresses

\* nextFor, of the pool as it is now
Route(q, route) ==
    /\ requests[q].stage = "routing"
    /\ route \in {{}} \cup loads[requests[q].cfg].config.routes
    /\ Becomes(q, [requests[q] EXCEPT
                      !.stage = IF Eligible(route) = {} THEN "no backend" ELSE "forwarded"])
    /\ UNCHANGED <<file, loads, pool, cfg, rl, reloads, rejected, overlapped>>

Leave(q) ==
    /\ requests[q].stage \in {"limiter unavailable", "no backend", "forwarded"}
    /\ Becomes(q, NoRequest)
    /\ UNCHANGED <<file, loads, pool, cfg, rl, reloads, rejected, overlapped>>

-----------------------------------------------------------------------------
(* The specification *)

\* runProxy, whose ping must succeed
Init ==
    /\ file \in Configs
    /\ loads = <<[config |-> file, client |-> Client(file)]>>
    /\ pool = 1
    /\ cfg = 1
    /\ rl = 1
    /\ reloads = [r \in Reload |-> NoReload]
    /\ requests = [q \in Request |-> NoRequest]
    /\ rejected = {}
    /\ overlapped = FALSE

Next ==
    \/ Edit
    \/ \E r \in Reload :
          Load(r) \/ Ping(r) \/ ReconfigurePool(r) \/ Install(r) \/ CloseOld(r)
    \/ \E q \in Request :
          \/ Start(q)
          \/ FetchLimiter(q)
          \/ Evaluate(q)
          \/ \E route \in {{}} \cup UNION {config.routes : config \in Configs} : Route(q, route)
          \/ Leave(q)

Spec == Init /\ [][Next]_reloadVars

-----------------------------------------------------------------------------
(* Properties *)

\* However reloads overtake each other between the lock and the Close, none of
\* them closes the client of the limiter in force (main.go:1336-1343).
CurrentLimiterOpen == loads[rl].client # "closed"

\* No client is forgotten: an open one belongs to the limiter in force, to a
\* reload that will install or close it, or to a load whose ping failed, which
\* main.go:1331-1333 leaves open.
ClientsOwned ==
    \A i \in Loaded :
        loads[i].client = "open" =>
            \/ i = rl
            \/ i \in rejected
            \/ \E r \in Reload : reloads[r].stage # "idle" /\ i \in {reloads[r].new, reloads[r].old}

\* Unless reloads overlapped, pool, configuration and limiter come from one load
\* again when no reload is between its two critical sections; in particular, one
\* that answered 500 has left nothing behind (main.go:1326-1340).
LoadsAgree ==
    overlapped \/ (pool = cfg /\ cfg = rl) \/ \E r \in Reload : reloads[r].stage = "installing"

ListsNone(config) == config.backends = {} /\ config.routes = {}

\* A request is refused for its limiter only if a reload overtook it, or it began
\* while pool and configuration came from two loads; and for want of a backend
\* only then, or if the configuration it read lists none: its several reads of the
\* shared state are otherwise as good as one (main.go:381, 416, 443-444, 475).
RefusalsNeedReload ==
    \A q \in Request :
        /\ requests[q].stage = "limiter unavailable" => requests[q].overtaken
        /\ requests[q].stage = "no backend" =>
              requests[q].overtaken \/ ListsNone(loads[requests[q].cfg].config)
=============================================================================
