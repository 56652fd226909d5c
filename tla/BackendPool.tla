----------------------------- MODULE BackendPool -----------------------------
(***************************************************************************)
(* The backend pool of health.go: the entries with their circuit breakers, *)
(* the weighted least-connections choice, the bookkeeping of a proxied     *)
(* call, the operator's admin actions, the hot reload of the address list  *)
(* and the active health checker.                                          *)
(*                                                                         *)
(* Every action is one critical section of backendPool.mu, or one batch of *)
(* atomic operations outside it, so the interleavings are those of the     *)
(* goroutines that serve requests, check health and handle /-/backends and *)
(* /-/reload.  An instant breakerOpenedUntil is kept as the number of      *)
(* ticks left until it; the average latency of a backend, which no         *)
(* property depends on, is chosen at each selection.                       *)
(***************************************************************************)
EXTENDS Integers, Sequences, FiniteSets, Counting

CONSTANTS
    Address,                  \* backend addresses
    NoAddress,                \* the "" that nextFor returns
    Call,                     \* slots for roundTripToBackend calls in progress
    InitialBackends,          \* the pool at start: a sequence of [address, weight]
    ReloadLists,              \* address lists a reload may install (duplicate-free)
    AllowedSets,              \* what routeBackendSet yields; Address stands for nil
    AdminActions,             \* admin actions operators use
    ProbeResults,             \* what health probes return; {} is "checker disabled"
    Latencies,                \* average latencies, in ms
    BreakerFailureThreshold,  \* breakerFailureThreshold
    BreakerCooldown,          \* breakerCooldown, in ticks
    Scale,                    \* makes every score an integer: all weights divide it
    MaxErr,                   \* bound: no new failure is chosen at this error count
    MaxReloads                \* bound: reloads in a behaviour

ASSUME AddressAssumption == NoAddress \notin Address

ASSUME InitialAssumption ==
    InitialBackends \in Seq([address : Address, weight : Nat \ {0}])

ASSUME ScaleAssumption ==
    /\ Scale \in Nat \ {0}
    /\ \A i \in DOMAIN InitialBackends : Scale % InitialBackends[i].weight = 0

\* backendAddresses drops repeated addresses
ASSUME ReloadAssumption ==
    /\ ReloadLists \subseteq Seq(Address)
    /\ \A l \in ReloadLists : \A i, j \in DOMAIN l : l[i] = l[j] => i = j

ASSUME InputAssumption ==
    /\ AllowedSets \subseteq SUBSET Address
    /\ AdminActions \subseteq {"disable", "enable", "drain"}
    /\ ProbeResults \subseteq BOOLEAN
    /\ Latencies \subseteq Nat

ASSUME NumberAssumption ==
    /\ BreakerFailureThreshold \in Nat \ {0}
    /\ BreakerCooldown \in Nat \ {0}
    /\ MaxErr \in Nat
    /\ MaxReloads \in Nat

VARIABLES
    pool,        \* backendPool.backends, a sequence of entries
    current,     \* backendPool.current, the round-robin cursor
    generation,  \* reloads so far: with an index it names a backendStats object
    calls,       \* what the goroutine of each call holds between its steps
    sweep        \* addresses the health checker has still to probe

vars == <<pool, current, generation, calls, sweep>>

-----------------------------------------------------------------------------
(* Data *)

BreakerStates == {"closed", "open", "half-open"}

Entry == [address          : Address,
          weight           : Nat,
          healthy          : BOOLEAN,
          breakerState     : BreakerStates,
          cooldown         : Nat,      \* ticks until breakerOpenedUntil
          consecutiveErr   : Nat,
          halfOpenInFlight : BOOLEAN,
          disabled         : BOOLEAN,
          draining         : BOOLEAN,
          active           : Int]      \* stats.activeRequests

NewEntry(address, weight) ==
    [address |-> address, weight |-> weight, healthy |-> TRUE,
     breakerState |-> "closed", cooldown |-> 0, consecutiveErr |-> 0,
     halfOpenInFlight |-> FALSE, disabled |-> FALSE, draining |-> FALSE,
     active |-> 0]

\* A call is picked by NextFor, sent by StartRequest, settling between the
\* two halves of the finish closure, and idle when it holds nothing.
Phases == {"idle", "picked", "sent", "settling"}

\* stats is the object the finish closure captured; index 0 is "none", the
\* closure that does nothing.  failed is the closure's local variable.  probe
\* is a history variable: the call was let through a half-open breaker.
CallRecord == [phase   : Phases,
               address : Address \cup {NoAddress},
               stats   : Nat \X Nat,
               failed  : BOOLEAN,
               probe   : BOOLEAN]

NoStats == <<0, 0>>

Idle == [phase |-> "idle", address |-> NoAddress, stats |-> NoStats,
         failed |-> FALSE, probe |-> FALSE]

TypeOK ==
    /\ pool \in Seq(Entry)
    /\ current \in Nat
    /\ generation \in Nat
    /\ calls \in [Call -> CallRecord]
    /\ sweep \in Seq(Address)

-----------------------------------------------------------------------------
(* The selection of nextFor *)

AtLeastOne(weight) == IF weight > 1 THEN weight ELSE 1

\* the entries the loop reaches the breaker checks with
Considered(allowed) ==
    {i \in DOMAIN pool : /\ pool[i].address \in allowed
                         /\ pool[i].healthy
                         /\ ~ pool[i].disabled
                         /\ ~ pool[i].draining}

\* an open breaker whose cooldown is over becomes half-open with a free slot
Refreshed(e) ==
    IF e.breakerState = "open" /\ e.cooldown = 0
    THEN [e EXCEPT !.breakerState = "half-open", !.halfOpenInFlight = FALSE]
    ELSE e

\* mutant: a half-open breaker still refuses
AdmitsClosedOnly(e) == e.breakerState = "closed"

Admits(e) ==
    \/ e.breakerState = "closed"
    \/ e.breakerState = "half-open" /\ ~ e.halfOpenInFlight

Candidates(allowed) ==
    {i \in Considered(allowed) : Admits(Refreshed(pool[i]))}

\* Scale times the score: active requests per weight, latency and recent
\* errors, with a bonus for a half-open entry
BackendScore(e, latency) ==
      e.active * (Scale \div AtLeastOne(e.weight)) * 1000
    + Scale * latency
    + Scale * 200 * e.consecutiveErr
    - (IF e.breakerState = "half-open" THEN Scale * 250 ELSE 0)

\* candidates whose score is the least
Tied(cands, latency) ==
    {i \in cands : \A j \in cands :
        BackendScore(Refreshed(pool[i]), latency[i])
            <= BackendScore(Refreshed(pool[j]), latency[j])}

TotalWeight(tied) == SumOver([i \in tied |-> AtLeastOne(pool[i].weight)], tied)

\* mutant: off by one at the end of an entry's share
InTurnInclusive(i, tied, position) ==
    LET before == TotalWeight({j \in tied : j < i})
    IN  before <= position /\ position <= before + AtLeastOne(pool[i].weight)

\* the weights of the tied entries before i leave the cursor on i
InTurn(i, tied, position) ==
    LET before == TotalWeight({j \in tied : j < i})
    IN  before <= position /\ position < before + AtLeastOne(pool[i].weight)

-----------------------------------------------------------------------------
(* Searching and updating the pool *)

\* the entry at which a loop over p.backends that returns on a match stops
IsFirst(i, address) ==
    /\ pool[i].address = address
    /\ \A j \in 1..(i - 1) : pool[j].address # address

Present(address) == \E i \in DOMAIN pool : pool[i].address = address

UpdateFirst(address, new(_)) ==
    [i \in DOMAIN pool |-> IF IsFirst(i, address) THEN new(pool[i]) ELSE pool[i]]

UpdateAll(address, new(_)) ==
    [i \in DOMAIN pool |->
        IF pool[i].address = address THEN new(pool[i]) ELSE pool[i]]

\* the entry reconfigure's map keeps for an address: the last one stored
IsLast(i, address) ==
    /\ pool[i].address = address
    /\ \A j \in (i + 1)..Len(pool) : pool[j].address # address

-----------------------------------------------------------------------------
(* A proxied call *)

\* nextFor(allowed) under the write lock: a candidate of least score, by
\* weighted round robin among equals, with the half-open slot taken
NextFor(c, allowed, latency) ==
    /\ calls[c].phase = "idle"
    /\ LET cands == Candidates(allowed)
           tied  == Tied(cands, latency)
           total == TotalWeight(tied)
       IN  \E i \in tied :
             LET halfOpen == Refreshed(pool[i]).breakerState = "half-open"
             IN  /\ InTurn(i, tied, current % total)
                 /\ current' = (current + 1) % total
                 /\ pool' = [j \in DOMAIN pool |->
                       CASE j = i /\ halfOpen ->
                              [Refreshed(pool[j]) EXCEPT !.halfOpenInFlight = TRUE]
                         [] j \in cands /\ ~ (j = i /\ halfOpen) -> Refreshed(pool[j])
                         [] OTHER -> pool[j]]
                 /\ calls' = [calls EXCEPT ![c] =
                       [Idle EXCEPT !.phase = "picked",
                                    !.address = pool[i].address,
                                    !.probe = halfOpen]]
    /\ UNCHANGED <<generation, sweep>>

\* startRequest: the first entry of the address counts the call, and the
\* finish closure captures that entry's stats object; an address that is gone
\* gives the closure that does nothing
StartRequest(c) ==
    LET a == calls[c].address
    IN  /\ calls[c].phase = "picked"
        /\ \/ \E i \in DOMAIN pool :
                /\ IsFirst(i, a)
                /\ pool' = UpdateFirst(a, LAMBDA e : [e EXCEPT !.active = @ + 1])
                /\ calls' = [calls EXCEPT ![c].phase = "sent",
                                          ![c].stats = <<generation, i>>]
           \/ /\ ~ Present(a)
              /\ calls' = [calls EXCEPT ![c].phase = "sent"]
              /\ UNCHANGED pool
        /\ UNCHANGED <<current, generation, sweep>>

Captured(c) == calls[c].stats # NoStats

\* the gauge decrement of the finish closure: it hits the captured object, which
\* a reload has replaced if the generation moved on
\* mutants: a failed call stays counted; the entry is looked up by its address
UncountedOnSuccess(c, failed) ==
    [i \in DOMAIN pool |->
        IF calls[c].stats = <<generation, i>> /\ ~ failed
        THEN [pool[i] EXCEPT !.active = @ - 1] ELSE pool[i]]
UncountedByAddress(c, failed) ==
    UpdateFirst(calls[c].address, LAMBDA e : [e EXCEPT !.active = @ - 1])
Uncounted(c, failed) ==
    [i \in DOMAIN pool |->
        IF calls[c].stats = <<generation, i>>
        THEN [pool[i] EXCEPT !.active = @ - 1] ELSE pool[i]]

\* The finish closure's atomics, run when the round trip failed or the
\* response body ended or was closed.
FinishStats(c, failed) ==
    /\ calls[c].phase = "sent"
    /\ Captured(c)
    /\ pool' = Uncounted(c, failed)
    /\ calls' = [calls EXCEPT ![c].phase = "settling", ![c].failed = failed]
    /\ UNCHANGED <<current, generation, sweep>>

\* mutant: the half-open slot is not given back
SlotKept(e) == e.halfOpenInFlight
SlotAfter(e) == e.halfOpenInFlight /\ e.breakerState # "half-open"

\* mutants: a success does not reset the count, or only lowers it
ErrKept(e, failed) == IF failed THEN e.consecutiveErr + 1 ELSE e.consecutiveErr
ErrLowered(e, failed) == IF failed THEN e.consecutiveErr + 1 ELSE e.consecutiveErr - 1
ErrAfter(e, failed) == IF failed THEN e.consecutiveErr + 1 ELSE 0

\* what finishRequest does to the first entry of the address
Settled(e, failed) ==
    LET opens == failed /\ ErrAfter(e, failed) >= BreakerFailureThreshold
    IN  [e EXCEPT
          !.halfOpenInFlight = SlotAfter(e),
          !.consecutiveErr = ErrAfter(e, failed),
          !.breakerState = IF opens THEN "open" ELSE IF failed THEN @ ELSE "closed",
          !.cooldown = IF opens THEN BreakerCooldown ELSE IF failed THEN @ ELSE 0]

FinishRequest(c) ==
    LET call == calls[c]
    IN  /\ call.phase = "settling"
        /\ pool' = UpdateFirst(call.address, LAMBDA e : Settled(e, call.failed))
        /\ calls' = [calls EXCEPT ![c] = Idle]
        /\ UNCHANGED <<current, generation, sweep>>

\* the closure that does nothing
FinishNothing(c) ==
    /\ calls[c].phase = "sent"
    /\ ~ Captured(c)
    /\ calls' = [calls EXCEPT ![c] = Idle]
    /\ UNCHANGED <<pool, current, generation, sweep>>

-----------------------------------------------------------------------------
(* Operators, reloads, the health checker and time *)

AfterAdmin(e, action) ==
    [e EXCEPT !.disabled = (action = "disable"), !.draining = (action = "drain")]

\* POST /-/backends/<address>
SetBackendState(address, action) ==
    /\ Present(address)
    /\ pool' = UpdateFirst(address, LAMBDA e : AfterAdmin(e, action))
    /\ UNCHANGED <<current, generation, calls, sweep>>

\* cloneBackendEntry: the new stats object is a copy, so the value is the same
\* mutant: the clone forgets the operator's decision
CloneInService(e) == [e EXCEPT !.disabled = FALSE, !.draining = FALSE]
Clone(e) == e

\* what reconfigure puts at a listed address (a set of one): a clone of the last
\* entry that has it, or a new entry of weight 0
Carried(address) ==
    IF Present(address)
    THEN {Clone(pool[i]) : i \in {i \in DOMAIN pool : IsLast(i, address)}}
    ELSE {NewEntry(address, 0)}

\* the pool's part of POST /-/reload
Reconfigure(list) ==
    /\ generation < MaxReloads
    /\ \E next \in [DOMAIN list -> UNION {Carried(list[k]) : k \in DOMAIN list}] :
         /\ \A k \in DOMAIN list : next[k] \in Carried(list[k])
         /\ pool' = next
    /\ current' = IF Len(list) = 0 THEN 0 ELSE current % Len(list)
    /\ generation' = generation + 1
    /\ UNCHANGED <<calls, sweep>>

\* the health checker copies the addresses to probe
HealthSnapshot ==
    /\ ProbeResults # {}
    /\ sweep = <<>>
    /\ sweep' = [i \in DOMAIN pool |-> pool[i].address]
    /\ UNCHANGED <<pool, current, generation, calls>>

AfterProbe(e, ok) ==
    [e EXCEPT !.healthy = ok, !.halfOpenInFlight = ok /\ @]

\* ... and applies each result to every entry that has the address by then
HealthProbe(ok) ==
    /\ sweep # <<>>
    /\ pool' = UpdateAll(Head(sweep), LAMBDA e : AfterProbe(e, ok))
    /\ sweep' = Tail(sweep)
    /\ UNCHANGED <<current, generation, calls>>

\* time passes, which only a running cooldown can tell
Tick ==
    /\ \E i \in DOMAIN pool : pool[i].cooldown > 0
    /\ pool' = [i \in DOMAIN pool |->
                   IF pool[i].cooldown > 0
                   THEN [pool[i] EXCEPT !.cooldown = @ - 1]
                   ELSE pool[i]]
    /\ UNCHANGED <<current, generation, calls, sweep>>

-----------------------------------------------------------------------------
(* The specification *)

Init ==
    /\ pool = [i \in DOMAIN InitialBackends |->
                  NewEntry(InitialBackends[i].address, InitialBackends[i].weight)]
    /\ current = 0
    /\ generation = 0
    /\ calls = [c \in Call |-> Idle]
    /\ sweep = <<>>

\* bound: no more failures of an address once its count reached MaxErr
MayFail(address) ==
    \A i \in DOMAIN pool : pool[i].address = address => pool[i].consecutiveErr < MaxErr

Finish(c) ==
    \E failed \in BOOLEAN :
        /\ failed => MayFail(calls[c].address)
        /\ FinishStats(c, failed)

CallStep(c) ==
    \/ \E allowed \in AllowedSets, latency \in [DOMAIN pool -> Latencies] :
          NextFor(c, allowed, latency)
    \/ StartRequest(c)
    \/ Finish(c)
    \/ FinishRequest(c)
    \/ FinishNothing(c)

\* everything that is not a request
Background ==
    \/ \E address \in Address, action \in AdminActions : SetBackendState(address, action)
    \/ \E list \in ReloadLists : Reconfigure(list)
    \/ HealthSnapshot
    \/ \E ok \in ProbeResults : HealthProbe(ok)
    \/ Tick

Next ==
    \/ \E c \in Call : CallStep(c)
    \/ Background

Spec == Init /\ [][Next]_vars

\* A goroutine that has a backend goes on to send and to settle its call: the
\* request context ends the exchange at the latest (main.go:455).
CallFairness(c) ==
    /\ WF_vars(StartRequest(c))
    /\ WF_vars(Finish(c))
    /\ WF_vars(FinishRequest(c))
    /\ WF_vars(FinishNothing(c))

LiveSpec == Spec /\ \A c \in Call : CallFairness(c)

-----------------------------------------------------------------------------
(* What status() reports, for GET /-/backends and the dashboard *)

\* backendAvailableLocked
Available(e) ==
    /\ e.healthy
    /\ ~ e.disabled
    /\ ~ e.draining
    /\ ~ (e.breakerState = "open" /\ e.cooldown > 0)
    /\ ~ (e.breakerState = "half-open" /\ e.halfOpenInFlight)

\* currentBreakerStateLocked
\* mutant: the expired cooldown is not looked at
CurrentBreakerStateRaw(e) == e.breakerState
CurrentBreakerState(e) ==
    IF e.breakerState = "open" /\ e.cooldown = 0 THEN "half-open" ELSE e.breakerState

-----------------------------------------------------------------------------
(* Properties *)

InFlight(c) == calls[c].phase \in {"sent", "settling"} /\ Captured(c)

\* calls that will run finishRequest for the address
Releasers(address) ==
    {c \in Call : /\ calls[c].address = address
                  /\ calls[c].phase = "picked" \/ InFlight(c)}

\* calls counted by the stats object of entry i
CountedAt(i) ==
    {c \in Call : calls[c].phase = "sent" /\ calls[c].stats = <<generation, i>>}

First(i) == IsFirst(i, pool[i].address)

\* A breaker is closed exactly while fewer than the threshold of failures came
\* in a row, a cooldown runs only while it is open, the half-open slot is taken
\* only while it is half-open, and an entry that repeats an earlier address has
\* never left its initial breaker state (health.go:341-365, 146-158, 380-420).
BreakerConsistent ==
    \A i \in DOMAIN pool :
        LET e == pool[i]
        IN  /\ e.breakerState = "closed" <=> e.consecutiveErr < BreakerFailureThreshold
            /\ e.cooldown > 0 => e.breakerState = "open"
            /\ e.halfOpenInFlight => e.breakerState = "half-open"
            /\ \A j \in DOMAIN pool :
                 j < i /\ pool[j].address = e.address => e.consecutiveErr = 0

\* A taken half-open slot always has a call under way that will give it back,
\* whatever reloads, admin actions and health checks happen in between: no
\* interleaving of nextFor and startRequest leaves a backend shut out for good
\* (health.go:176-178, 317-339, 341-350).
ProbeOwned ==
    \A i \in DOMAIN pool :
        pool[i].halfOpenInFlight => Releasers(pool[i].address) # {}

\* The active gauge that nextFor scores with never misses a call that is still
\* running on the entry's stats object, even after reloads copied the object
\* (health.go:324-327, 436-441).
ActiveCovers ==
    \A i \in DOMAIN pool : pool[i].active >= Cardinality(CountedAt(i))

\* "Active in-flight requests per backend" (main.go:740): the gauge is the
\* number of calls sent to the backend and not yet finished.
GaugeExact ==
    \A i \in DOMAIN pool :
        First(i) => pool[i].active =
            Cardinality({c \in Call : /\ calls[c].phase = "sent"
                                      /\ Captured(c)
                                      /\ calls[c].address = pool[i].address})

\* status() and nextFor agree: a backend is reported available exactly when
\* nextFor would consider it, and an available one is reported closed or
\* half-open, although each function has its own copy of the rule
\* (health.go:137-159, 283-304).
StatusAgrees ==
    \A i \in DOMAIN pool :
        /\ Available(pool[i]) <=> i \in Candidates(Address)
        /\ Available(pool[i]) => CurrentBreakerState(pool[i]) # "open"

\* Over one turn of the cursor each of the equally loaded candidates is in turn
\* exactly as often as its weight says, and exactly one at each position
\* (health.go:172-190).
RoundRobinExact ==
    \A allowed \in AllowedSets, latency \in [DOMAIN pool -> Latencies] :
        LET tied  == Tied(Candidates(allowed), latency)
            turns == 0..(TotalWeight(tied) - 1)
        IN  /\ \A i \in tied :
                 Cardinality({p \in turns : InTurn(i, tied, p)}) = AtLeastOne(pool[i].weight)
            /\ \A p \in turns : \E i \in tied :
                 InTurn(i, tied, p) /\ \A j \in tied : InTurn(j, tied, p) => j = i

\* The documented breaker lets "one half-open probe" through
\* (docs/architecture.md:40): an address never has two probes under way.
SingleProbe ==
    \A address \in Address :
        Cardinality({c \in Call : calls[c].address = address /\ calls[c].probe}) <= 1

InService(address) ==
    \A i \in DOMAIN pool :
        pool[i].address = address => ~ pool[i].disabled /\ ~ pool[i].draining

\* The operator decides: no call is given to an address that an admin action
\* took out of service, and nothing but an admin action on it, such as a reload
\* that keeps it or a health check, changes whether it is in service
\* (main.go:798-832, health.go:445-469, 380-443).
OperatorDecides ==
    [][/\ \A c \in Call :
            calls[c].phase = "idle" /\ calls'[c].phase = "picked"
                => InService(calls'[c].address)
       /\ \A address \in Address :
            Present(address) /\ Present(address)'
                /\ InService(address) # InService(address)'
                => \E action \in AdminActions : SetBackendState(address, action)]_vars

\* No call keeps the half-open slot forever.
SlotReleased ==
    \A address \in Address :
        (\E i \in DOMAIN pool : pool[i].address = address /\ pool[i].halfOpenInFlight)
            ~> ~ (\E i \in DOMAIN pool :
                     pool[i].address = address /\ pool[i].halfOpenInFlight)

\* "per-backend circuit breaker with half-open recovery" (README.md:44): once
\* calls stop failing, every open breaker closes again, provided requests keep
\* coming.
BreakersRecover ==
    <>[][\A c \in Call : ~ FinishStats(c, TRUE)]_vars
        => <>[](\A i \in DOMAIN pool : pool[i].breakerState = "closed")

\* Requests for every route keep coming, and time passes.
BusySpec ==
    /\ LiveSpec
    /\ WF_vars(Tick)
    /\ \A allowed \in AllowedSets :
          SF_vars(\E c \in Call, latency \in [DOMAIN pool -> Latencies] :
                     NextFor(c, allowed, latency))
=============================================================================
