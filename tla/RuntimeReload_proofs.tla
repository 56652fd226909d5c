------------------------- MODULE RuntimeReload_proofs -------------------------
(* Proofs about RuntimeReload, for any number of reloads and requests at once. *)
EXTENDS RuntimeReload, TLAPS

Pending(r) == reloads[r].stage \in {"pinging", "reconfiguring", "installing"}

Closing(r) == reloads[r].stage = "closing"

\* The load of a reload that has not installed it belongs to that reload alone,
\* and its client has not been closed.
PendingFresh ==
    \A r \in Reload : Pending(r) =>
        /\ reloads[r].new \in Loaded \ {rl}
        /\ loads[reloads[r].new].client # "closed"
        /\ \A s \in Reload : /\ Pending(s) /\ s # r => reloads[s].new # reloads[r].new
                             /\ Closing(s) => reloads[s].old # reloads[r].new

\* What a reload is about to close is no longer in force.
ClosingRetired ==
    \A r \in Reload : Closing(r) => reloads[r].old \in Loaded \ {rl}

\* ClientsOwned, without the loads that closing reloads installed: those are in
\* force, or another reload has replaced them.
Owned ==
    \A i \in Loaded :
        loads[i].client = "open" =>
            \/ i = rl
            \/ i \in rejected
            \/ \E r \in Reload : Pending(r) /\ i = reloads[r].new
            \/ \E r \in Reload : Closing(r) /\ i = reloads[r].old

LInv == TypeOK /\ CurrentLimiterOpen /\ PendingFresh /\ ClosingRetired /\ Owned

LoadRecord == [config : Configs, client : Clients]

ReloadRecord == [stage : ReloadStages, new : {0} \cup Loaded, old : {0} \cup Loaded]

RequestRecord == [stage : RequestStages, cfg : {0} \cup Loaded,
                  limiter : {0} \cup Loaded, overtaken : BOOLEAN]

-----------------------------------------------------------------------------
(* Operators *)

LEMMA FollowingStages ==
    /\ Following("idle") = "pinging"
    /\ Following("pinging") = "reconfiguring"
    /\ Following("reconfiguring") = "installing"
    /\ Following("installing") = "closing"
<1>1. /\ DOMAIN Order = 1..5
      /\ Order[1] = "idle" /\ Order[2] = "pinging" /\ Order[3] = "reconfiguring"
      /\ Order[4] = "installing" /\ Order[5] = "closing"
    BY DEF Order
<1>2. ASSUME NEW n \in 1..5
      PROVE  (CHOOSE i \in DOMAIN Order : Order[i] = Order[n]) = n
  <2>1. \A i \in DOMAIN Order : Order[i] = Order[n] => i = n
      BY <1>1
  <2> QED
      BY <1>1, <2>1
<1> QED
    BY <1>1, <1>2 DEF Following

LEMMA LoadedFacts ==
    ASSUME TypeOK
    PROVE  /\ Len(loads) \in Nat
           /\ Loaded = 1..Len(loads)
           /\ 0 \notin Loaded
           /\ \A i \in Loaded : loads[i] \in LoadRecord
<1>1. loads \in Seq(LoadRecord)
    BY DEF TypeOK, LoadRecord
<1> QED
    BY <1>1 DEF Loaded

\* a load extends the sequence and changes no earlier one
LEMMA LoadFacts ==
    ASSUME TypeOK, NEW r \in Reload, Load(r)
    PROVE  /\ Loaded' = Loaded \cup {Len(loads) + 1}
           /\ Len(loads) + 1 \notin Loaded
           /\ \A i \in Loaded : loads'[i] = loads[i]
           /\ loads'[Len(loads) + 1] = [config |-> file, client |-> Client(file)]
           /\ loads' \in Seq(LoadRecord)
<1> DEFINE new == [config |-> file, client |-> Client(file)]
<1>1. loads \in Seq(LoadRecord) /\ loads' = Append(loads, new)
    BY DEF TypeOK, Load, LoadRecord
<1>2. new \in LoadRecord
    BY DEF TypeOK, Load, LoadRecord, Client, Clients
<1> HIDE DEF new
<1>3. /\ loads' \in Seq(LoadRecord)
      /\ Len(loads') = Len(loads) + 1
      /\ \A i \in 1..Len(loads) : loads'[i] = loads[i]
      /\ loads'[Len(loads) + 1] = new
    BY <1>1, <1>2
<1>4. Loaded = 1..Len(loads) /\ Loaded' = 1..Len(loads') /\ Len(loads) \in Nat
    BY <1>1, <1>3 DEF Loaded
<1> QED
    BY <1>3, <1>4 DEF new

-----------------------------------------------------------------------------
(* Types *)

LEMMA InitTypes ==
    ASSUME Init
    PROVE  TypeOK
<1> DEFINE first == [config |-> file, client |-> Client(file)]
<1>1. first \in LoadRecord
    BY DEF Init, LoadRecord, Client, Clients
<1>2. loads = <<first>>
    BY DEF Init
<1>3. /\ loads \in Seq(LoadRecord)
      /\ Loaded = {1}
      /\ loads[1].client = "none" <=> ~ loads[1].config.redis
  <2>1. loads[1].client = "none" <=> ~ loads[1].config.redis
      BY <1>2 DEF Client
  <2> HIDE DEF first
  <2> QED
      BY <1>1, <1>2, <2>1 DEF Loaded
<1>4. reloads \in [Reload -> ReloadRecord]
    BY DEF Init, NoReload, ReloadRecord, ReloadStages
<1>5. requests \in [Request -> RequestRecord]
    BY DEF Init, NoRequest, RequestRecord, RequestStages
<1> QED
    BY <1>3, <1>4, <1>5 DEF Init, TypeOK, LoadRecord, ReloadRecord, RequestRecord

\* what a step that loads nothing has to show
LEMMA SameLoads ==
    ASSUME TypeOK, loads' = loads,
           file' \in Configs \cup {Broken},
           {pool', cfg', rl'} \subseteq Loaded,
           reloads' \in [Reload -> ReloadRecord],
           requests' \in [Request -> RequestRecord],
           rejected' \subseteq Loaded,
           overlapped' \in BOOLEAN
    PROVE  TypeOK'
BY DEF TypeOK, Loaded, ReloadRecord, RequestRecord

LEMMA LoadTypes ==
    ASSUME TypeOK, NEW r \in Reload, Load(r)
    PROVE  TypeOK'
<1>1. Loaded \subseteq Loaded'
    BY LoadFacts
<1>2. reloads' \in [Reload -> ReloadRecord']
  <2>1. [stage |-> Following("idle"), new |-> Len(loads) + 1, old |-> 0] \in ReloadRecord'
      BY LoadFacts, FollowingStages DEF ReloadRecord, ReloadStages
  <2> QED
      BY <1>1, <2>1 DEF TypeOK, Load, Moves, ReloadRecord
<1>3. requests' \in [Request -> RequestRecord']
    BY <1>1 DEF TypeOK, Load, RequestRecord
<1>4. \A i \in Loaded' : loads'[i].client = "none" <=> ~ loads'[i].config.redis
    BY LoadFacts DEF TypeOK, Client
<1>5. /\ file' \in Configs \cup {Broken}
      /\ {pool', cfg', rl'} \subseteq Loaded'
      /\ rejected' \subseteq Loaded'
      /\ overlapped' \in BOOLEAN
    BY <1>1 DEF TypeOK, Load
<1> QED
    BY <1>2, <1>3, <1>4, <1>5, LoadFacts DEF TypeOK, LoadRecord, ReloadRecord, RequestRecord

\* only the client of the retired limiter changes: it is none, or closed
LEMMA CloseOldFacts ==
    ASSUME TypeOK, NEW r \in Reload, CloseOld(r), NEW old \in Loaded, old = reloads[r].old
    PROVE  /\ loads' \in Seq(LoadRecord)
           /\ Loaded' = Loaded
           /\ \A i \in Loaded : i # old => loads'[i] = loads[i]
           /\ loads'[old].config = loads[old].config
           /\ loads'[old].client # "open"
           /\ loads'[old].client = "none" <=> loads[old].client = "none"
<1>1. loads \in Seq(LoadRecord)
    BY DEF TypeOK, LoadRecord
<1>2. loads[old] \in LoadRecord
    BY LoadedFacts
<1>3. CASE HasClient(old)
  <2>1. loads' = [loads EXCEPT ![old].client = "closed"]
      BY <1>3 DEF CloseOld, Retired
  <2>2. [loads[old] EXCEPT !.client = "closed"] \in LoadRecord
      BY <1>2 DEF LoadRecord, Clients
  <2>3. loads' \in Seq(LoadRecord) /\ Loaded' = Loaded
      BY <1>1, <2>1, <2>2 DEF Loaded
  <2>4. \A i \in Loaded : i # old => loads'[i] = loads[i]
      BY <2>1 DEF Loaded
  <2>5. loads'[old] = [loads[old] EXCEPT !.client = "closed"]
      BY <2>1 DEF Loaded
  <2>6. loads'[old].config = loads[old].config /\ loads'[old].client = "closed"
      BY <1>2, <2>5 DEF LoadRecord
  <2> QED
      BY <1>3, <2>3, <2>4, <2>6 DEF HasClient
<1>4. CASE ~ HasClient(old)
  <2>1. loads' = loads /\ loads[old].client = "none"
      BY <1>4 DEF CloseOld, Retired, HasClient
  <2> QED
      BY <1>1, <2>1 DEF Loaded
<1> QED
    BY <1>3, <1>4

LEMMA CloseOldTypes ==
    ASSUME TypeOK, ClosingRetired, NEW r \in Reload, CloseOld(r)
    PROVE  TypeOK'
<1>1. reloads[r].old \in Loaded
    BY DEF ClosingRetired, Closing, CloseOld
<1>2. /\ loads' \in Seq(LoadRecord)
      /\ Loaded' = Loaded
      /\ \A i \in Loaded : loads'[i].config = loads[i].config
      /\ \A i \in Loaded : loads'[i].client = "none" <=> loads[i].client = "none"
    BY <1>1, CloseOldFacts
<1>3. NoReload \in ReloadRecord
    BY DEF NoReload, ReloadRecord, ReloadStages
<1>4. reloads' \in [Reload -> ReloadRecord]
    BY <1>3 DEF TypeOK, CloseOld, Moves, ReloadRecord
<1> QED
    BY <1>2, <1>4 DEF TypeOK, CloseOld, LoadRecord, ReloadRecord

-----------------------------------------------------------------------------
(* Limiters *)

LEMMA InitInv ==
    ASSUME Init
    PROVE  LInv
<1>1. TypeOK
    BY InitTypes
<1>2. CurrentLimiterOpen
    BY DEF Init, CurrentLimiterOpen, Client
<1>3. \A r \in Reload : ~ Pending(r) /\ ~ Closing(r)
    BY DEF Init, NoReload, Pending, Closing
<1>4. Owned
  <2>1. Loaded = {rl}
      BY DEF Init, Loaded
  <2> QED
      BY <2>1 DEF Owned
<1> QED
    BY <1>1, <1>2, <1>3, <1>4 DEF LInv, PendingFresh, ClosingRetired

\* A step that keeps the loads, the limiter in force and where each reload
\* stands on its way to installing and closing.
LEMMA SameLimiters ==
    ASSUME LInv, TypeOK', loads' = loads, rl' = rl, rejected' = rejected,
           \A r \in Reload : /\ Pending(r)' <=> Pending(r)
                             /\ Closing(r)' <=> Closing(r)
                             /\ reloads'[r].new = reloads[r].new
                             /\ reloads'[r].old = reloads[r].old
    PROVE  LInv'
<1>1. Loaded' = Loaded
    BY DEF Loaded
<1>2. CurrentLimiterOpen'
    BY DEF LInv, CurrentLimiterOpen
<1>3. PendingFresh'
    BY <1>1 DEF LInv, PendingFresh
<1>4. ClosingRetired'
    BY <1>1 DEF LInv, ClosingRetired
<1>5. Owned'
    BY <1>1 DEF LInv, Owned
<1> QED
    BY <1>2, <1>3, <1>4, <1>5 DEF LInv

LEMMA QuietInv ==
    ASSUME LInv, Edit \/ UNCHANGED reloadVars
    PROVE  LInv'
<1>1. UNCHANGED <<loads, pool, cfg, rl, reloads, requests, rejected, overlapped>>
    BY DEF Edit, reloadVars
<1>2. file' \in Configs \cup {Broken}
    BY DEF LInv, TypeOK, Edit, reloadVars
<1>3. TypeOK'
    BY <1>1, <1>2 DEF LInv, TypeOK, Loaded
<1> QED
    BY <1>1, <1>3, SameLimiters DEF Pending, Closing

\* the steps of a request
RequestStep(q) ==
    \/ Start(q)
    \/ FetchLimiter(q)
    \/ Evaluate(q)
    \/ \E route \in {{}} \cup UNION {config.routes : config \in Configs} : Route(q, route)
    \/ Leave(q)

LEMMA RequestInv ==
    ASSUME LInv, NEW q \in Request, RequestStep(q)
    PROVE  LInv'
<1>1. UNCHANGED <<file, loads, pool, cfg, rl, reloads, rejected, overlapped>>
    BY DEF RequestStep, Start, FetchLimiter, Evaluate, Route, Leave
<1>2. requests[q] \in RequestRecord /\ {cfg, rl} \subseteq Loaded
    BY DEF LInv, TypeOK, RequestRecord
<1>3. PICK request \in RequestRecord : requests' = [requests EXCEPT ![q] = request]
  <2>1. CASE Start(q)
      BY <1>2, <2>1 DEF Start, Becomes, RequestRecord, RequestStages
  <2>2. CASE FetchLimiter(q)
      BY <1>2, <2>2 DEF FetchLimiter, Becomes, RequestRecord, RequestStages
  <2>3. CASE Evaluate(q)
      BY <1>2, <2>3 DEF Evaluate, Becomes, RequestRecord, RequestStages
  <2>4. ASSUME NEW route, Route(q, route)
        PROVE  \E request \in RequestRecord : requests' = [requests EXCEPT ![q] = request]
      BY <1>2, <2>4 DEF Route, Becomes, RequestRecord, RequestStages
  <2>5. CASE Leave(q)
      BY <2>5 DEF Leave, Becomes, NoRequest, RequestRecord, RequestStages
  <2> QED
      BY <2>1, <2>2, <2>3, <2>4, <2>5 DEF RequestStep
<1>4. requests' \in [Request -> RequestRecord]
    BY <1>3 DEF LInv, TypeOK, RequestRecord
<1>5. TypeOK'
    BY <1>1, <1>4 DEF LInv, TypeOK, RequestRecord, Loaded
<1> QED
    BY <1>1, <1>5, SameLimiters DEF Pending, Closing

LEMMA LoadInv ==
    ASSUME LInv, NEW r \in Reload, Load(r)
    PROVE  LInv'
<1> DEFINE new == Len(loads) + 1
<1>1. TypeOK'
    BY LoadTypes DEF LInv
<1>2. /\ Loaded' = Loaded \cup {new}
      /\ new \notin Loaded
      /\ \A i \in Loaded : loads'[i] = loads[i]
      /\ loads'[new].client # "closed"
      /\ rl \in Loaded /\ rl' = rl /\ rejected' = rejected
  <2>1. TypeOK
      BY DEF LInv
  <2>2. loads'[new] = [config |-> file, client |-> Client(file)]
      BY <2>1, LoadFacts
  <2>3. loads'[new].client # "closed"
      BY <2>2 DEF Client
  <2> QED
      BY <2>1, <2>3, LoadFacts DEF TypeOK, Load
<1>3. /\ reloads'[r] = [stage |-> "pinging", new |-> new, old |-> 0]
      /\ \A s \in Reload : s # r => reloads'[s] = reloads[s]
    BY FollowingStages DEF LInv, TypeOK, Load, Moves
<1> HIDE DEF new
<1>4. ~ Pending(r) /\ ~ Closing(r) /\ Pending(r)' /\ ~ Closing(r)'
    BY <1>3 DEF Load, Pending, Closing
<1>5. \A s \in Reload : s # r => (Pending(s)' <=> Pending(s)) /\ (Closing(s)' <=> Closing(s))
    BY <1>3 DEF Pending, Closing
<1>6. CurrentLimiterOpen'
    BY <1>2 DEF LInv, CurrentLimiterOpen
<1>7. PendingFresh'
    BY <1>2, <1>3, <1>4, <1>5 DEF LInv, PendingFresh, ClosingRetired
<1>8. ClosingRetired'
    BY <1>2, <1>3, <1>4, <1>5 DEF LInv, ClosingRetired
<1>9. Owned'
    BY <1>2, <1>3, <1>4, <1>5 DEF LInv, Owned
<1> QED
    BY <1>1, <1>6, <1>7, <1>8, <1>9 DEF LInv

LEMMA PingInv ==
    ASSUME LInv, NEW r \in Reload, Ping(r)
    PROVE  LInv'
<1>1. UNCHANGED <<file, loads, pool, cfg, rl, requests, overlapped>> /\ Loaded' = Loaded
    BY DEF Ping, Loaded
<1>2. reloads[r] \in ReloadRecord /\ reloads[r].stage = "pinging" /\ reloads[r].new \in Loaded
    BY DEF LInv, TypeOK, ReloadRecord, Ping, PendingFresh, Pending
<1>3. CASE reloads' = [reloads EXCEPT ![r].stage = "reconfiguring"] /\ UNCHANGED rejected
  <2>1. [reloads[r] EXCEPT !.stage = "reconfiguring"] \in ReloadRecord
      BY <1>2 DEF ReloadRecord, ReloadStages
  <2>2. reloads' \in [Reload -> ReloadRecord]
      BY <1>3, <2>1 DEF LInv, TypeOK, ReloadRecord
  <2>3. TypeOK'
      BY <1>1, <1>3, <2>2 DEF LInv, TypeOK, ReloadRecord
  <2>4. \A s \in Reload : /\ Pending(s)' <=> Pending(s)
                          /\ Closing(s)' <=> Closing(s)
                          /\ reloads'[s].new = reloads[s].new
                          /\ reloads'[s].old = reloads[s].old
      BY <1>2, <1>3 DEF LInv, TypeOK, Pending, Closing
  <2> QED
      BY <1>1, <1>3, <2>3, <2>4, SameLimiters
<1>4. CASE /\ reloads' = [reloads EXCEPT ![r] = NoReload]
           /\ rejected' = rejected \cup {reloads[r].new}
  <2>1. reloads' \in [Reload -> ReloadRecord]
      BY <1>4 DEF LInv, TypeOK, NoReload, ReloadRecord, ReloadStages
  <2>2. TypeOK'
      BY <1>1, <1>2, <1>4, <2>1 DEF LInv, TypeOK, ReloadRecord
  <2>3. /\ ~ Pending(r)' /\ ~ Closing(r)' /\ ~ Closing(r)
        /\ \A s \in Reload : s # r => reloads'[s] = reloads[s]
      BY <1>2, <1>4 DEF LInv, TypeOK, NoReload, Pending, Closing
  <2>4. \A s \in Reload : s # r => (Pending(s)' <=> Pending(s)) /\ (Closing(s)' <=> Closing(s))
      BY <2>3 DEF Pending, Closing
  <2>5. CurrentLimiterOpen'
      BY <1>1 DEF LInv, CurrentLimiterOpen
  <2>6. PendingFresh'
      BY <1>1, <2>3, <2>4 DEF LInv, PendingFresh
  <2>7. ClosingRetired'
      BY <1>1, <2>3, <2>4 DEF LInv, ClosingRetired
  <2>8. Owned'
      BY <1>1, <1>4, <2>3, <2>4 DEF LInv, Owned
  <2> QED
      BY <2>2, <2>5, <2>6, <2>7, <2>8 DEF LInv
<1> QED
    BY <1>2, <1>3, <1>4, FollowingStages DEF Ping, Moves

LEMMA OvertakeTypes ==
    ASSUME TypeOK, Overtake
    PROVE  requests' \in [Request -> RequestRecord]
<1>1. \A q \in Request : requests[q] \in RequestRecord
    BY DEF TypeOK, RequestRecord
<1>2. \A q \in Request :
         [requests[q] EXCEPT !.overtaken = @ \/ requests[q].stage # "idle"] \in RequestRecord
    BY <1>1 DEF RequestRecord
<1> QED
    BY <1>2 DEF Overtake

LEMMA ReconfigurePoolInv ==
    ASSUME LInv, NEW r \in Reload, ReconfigurePool(r)
    PROVE  LInv'
<1>1. /\ UNCHANGED <<file, loads, cfg, rl, rejected, overlapped>>
      /\ Loaded' = Loaded
      /\ pool' = reloads[r].new
      /\ reloads' = [reloads EXCEPT ![r].stage = "installing"]
    BY FollowingStages DEF ReconfigurePool, Moves, Loaded
<1>2. /\ reloads[r] \in ReloadRecord
      /\ reloads[r].stage = "reconfiguring"
      /\ reloads[r].new \in Loaded
    BY DEF LInv, TypeOK, ReloadRecord, ReconfigurePool, PendingFresh, Pending
<1>3. [reloads[r] EXCEPT !.stage = "installing"] \in ReloadRecord
    BY <1>2 DEF ReloadRecord, ReloadStages
<1>4. reloads' \in [Reload -> ReloadRecord]
    BY <1>1, <1>3 DEF LInv, TypeOK, ReloadRecord
<1>5. requests' \in [Request -> RequestRecord]
    BY OvertakeTypes DEF LInv, ReconfigurePool
<1>6. TypeOK'
    BY <1>1, <1>2, <1>4, <1>5 DEF LInv, TypeOK, ReloadRecord, RequestRecord
<1>7. \A s \in Reload : /\ Pending(s)' <=> Pending(s)
                        /\ Closing(s)' <=> Closing(s)
                        /\ reloads'[s].new = reloads[s].new
                        /\ reloads'[s].old = reloads[s].old
    BY <1>1, <1>2 DEF LInv, TypeOK, Pending, Closing
<1> QED
    BY <1>1, <1>6, <1>7, SameLimiters

\* The limiter in force becomes the reload's own to close, and the one it loaded,
\* which no other reload knows, takes its place.
LEMMA InstallInv ==
    ASSUME LInv, NEW r \in Reload, Install(r)
    PROVE  LInv'
<1> DEFINE new == reloads[r].new
<1>1. /\ UNCHANGED <<file, loads, pool, rejected, overlapped>>
      /\ Loaded' = Loaded
      /\ cfg' = new /\ rl' = new
      /\ reloads' = [reloads EXCEPT ![r].stage = "closing", ![r].old = rl]
    BY FollowingStages DEF Install, Moves, Loaded
<1>2. /\ reloads[r] \in ReloadRecord
      /\ Pending(r) /\ ~ Closing(r)
      /\ rl \in Loaded
    BY DEF LInv, TypeOK, ReloadRecord, Install, Pending, Closing
<1>3. /\ new \in Loaded \ {rl}
      /\ loads[new].client # "closed"
      /\ \A s \in Reload : /\ Pending(s) /\ s # r => reloads[s].new # new
                           /\ Closing(s) => reloads[s].old # new
    BY <1>2 DEF LInv, PendingFresh
<1>4. /\ [reloads[r] EXCEPT !.stage = "closing", !.old = rl] \in ReloadRecord
      /\ reloads'[r] = [reloads[r] EXCEPT !.stage = "closing", !.old = rl]
      /\ \A s \in Reload : s # r => reloads'[s] = reloads[s]
    BY <1>1, <1>2 DEF LInv, TypeOK, ReloadRecord, ReloadStages
<1>5. ~ Pending(r)' /\ Closing(r)' /\ reloads'[r].old = rl
    BY <1>2, <1>4 DEF Pending, Closing, ReloadRecord
<1>6. \A s \in Reload : s # r => (Pending(s)' <=> Pending(s)) /\ (Closing(s)' <=> Closing(s))
    BY <1>4 DEF Pending, Closing
<1>7. TypeOK'
  <2>1. reloads' \in [Reload -> ReloadRecord]
      BY <1>1, <1>4 DEF LInv, TypeOK, ReloadRecord
  <2>2. requests' \in [Request -> RequestRecord]
      BY OvertakeTypes DEF LInv, Install
  <2> QED
      BY <1>1, <1>3, <2>1, <2>2 DEF LInv, TypeOK, ReloadRecord, RequestRecord
<1>8. CurrentLimiterOpen'
    BY <1>1, <1>3 DEF CurrentLimiterOpen
<1>9. /\ rl' = new /\ loads' = loads /\ rejected' = rejected /\ Loaded' = Loaded
      /\ reloads[r].new = new
      /\ \A s \in Reload : s # r => reloads'[s] = reloads[s]
    BY <1>1, <1>4
<1> HIDE DEF new
<1>10. PendingFresh'
    BY <1>2, <1>3, <1>5, <1>6, <1>9 DEF LInv, PendingFresh
<1>11. ClosingRetired'
    BY <1>2, <1>3, <1>5, <1>6, <1>9 DEF LInv, ClosingRetired
<1>12. Owned'
    BY <1>2, <1>3, <1>5, <1>6, <1>9 DEF LInv, Owned
<1> QED
    BY <1>7, <1>8, <1>10, <1>11, <1>12 DEF LInv

\* Only the client of the retired limiter changes, and it is closed.
LEMMA CloseOldInv ==
    ASSUME LInv, NEW r \in Reload, CloseOld(r)
    PROVE  LInv'
<1> DEFINE old == reloads[r].old
<1>1. TypeOK'
    BY CloseOldTypes DEF LInv
<1>2. Closing(r) /\ ~ Pending(r) /\ old \in Loaded \ {rl}
    BY DEF LInv, ClosingRetired, CloseOld, Closing, Pending
<1>3. /\ Loaded' = Loaded
      /\ \A i \in Loaded : i # old => loads'[i] = loads[i]
      /\ loads'[old].client # "open"
  <2>1. TypeOK
      BY DEF LInv
  <2> QED
      BY <1>2, <2>1, CloseOldFacts
<1>4. UNCHANGED <<pool, cfg, rl, rejected>>
    BY DEF CloseOld
<1>5. /\ ~ Pending(r)' /\ ~ Closing(r)'
      /\ \A s \in Reload : s # r => reloads'[s] = reloads[s]
    BY DEF LInv, TypeOK, CloseOld, Moves, NoReload, Pending, Closing
<1>6. \A s \in Reload : s # r => (Pending(s)' <=> Pending(s)) /\ (Closing(s)' <=> Closing(s))
    BY <1>5 DEF Pending, Closing
<1>7. CurrentLimiterOpen'
    BY <1>2, <1>3, <1>4 DEF LInv, TypeOK, CurrentLimiterOpen
<1>8. PendingFresh'
    BY <1>2, <1>3, <1>4, <1>5, <1>6 DEF LInv, PendingFresh
<1>9. ClosingRetired'
    BY <1>3, <1>4, <1>5, <1>6 DEF LInv, ClosingRetired
<1>10. Owned'
    BY <1>2, <1>3, <1>4, <1>5, <1>6 DEF LInv, Owned
<1> QED
    BY <1>1, <1>7, <1>8, <1>9, <1>10 DEF LInv

LEMMA LimiterStep ==
    ASSUME LInv, [Next]_reloadVars
    PROVE  LInv'
BY QuietInv, LoadInv, PingInv, ReconfigurePoolInv, InstallInv, CloseOldInv, RequestInv
   DEF Next, RequestStep

-----------------------------------------------------------------------------
(* Agreement of pool, configuration and limiter *)

Active(r) == reloads[r].stage # "idle"

Installing(r) == reloads[r].stage = "installing"

\* Unless reloads overlapped there is one at a time, and if it is between its two
\* critical sections the pool is its own.
Agreement ==
    /\ cfg = rl
    /\ ~ overlapped =>
          /\ \A r, s \in Reload : Active(r) /\ Active(s) => r = s
          /\ \A r \in Reload : Installing(r) => pool = reloads[r].new
          /\ pool = cfg \/ \E r \in Reload : Installing(r)

\* a step of reload r alone, to a stage that is not "installing"
LEMMA AgreementStep ==
    ASSUME Agreement, NEW r \in Reload, Active(r), overlapped' = overlapped,
           \A s \in Reload : s # r => reloads'[s] = reloads[s],
           ~ Installing(r)', cfg' = rl', ~ overlapped => pool' = cfg'
    PROVE  Agreement'
BY DEF Agreement, Active, Installing

LEMMA AgreementInv ==
    ASSUME LInv, Agreement, [Next]_reloadVars
    PROVE  Agreement'
<1>1. reloads \in [Reload -> ReloadRecord]
    BY DEF LInv, TypeOK, ReloadRecord
<1>2. CASE UNCHANGED <<pool, cfg, rl, reloads, overlapped>>
    BY <1>2 DEF Agreement, Active, Installing
<1>3. ASSUME NEW r \in Reload, Load(r)
      PROVE  Agreement'
  <2>1. /\ UNCHANGED <<pool, cfg, rl>>
        /\ overlapped' = (overlapped \/ \E s \in Reload : Active(s))
      BY <1>3 DEF Load, Active
  <2>2. reloads'[r].stage = "pinging" /\ \A s \in Reload : s # r => reloads'[s] = reloads[s]
      BY <1>1, <1>3, FollowingStages DEF Load, Moves
  <2> QED
      BY <2>1, <2>2 DEF Agreement, Active, Installing
<1>4. ASSUME NEW r \in Reload, Ping(r)
      PROVE  Agreement'
  <2>1. /\ UNCHANGED <<pool, cfg, rl, overlapped>>
        /\ reloads[r].stage = "pinging"
        /\ reloads'[r].stage # "installing"
        /\ \A s \in Reload : s # r => reloads'[s] = reloads[s]
      BY <1>1, <1>4, FollowingStages DEF Ping, Moves, NoReload, ReloadRecord
  <2> QED
      BY <2>1, AgreementStep DEF Agreement, Active, Installing
<1>5. ASSUME NEW r \in Reload, ReconfigurePool(r)
      PROVE  Agreement'
  <2>1. /\ UNCHANGED <<cfg, rl, overlapped>>
        /\ pool' = reloads[r].new
        /\ reloads[r].stage = "reconfiguring"
        /\ reloads'[r].stage = "installing" /\ reloads'[r].new = reloads[r].new
        /\ \A s \in Reload : s # r => reloads'[s] = reloads[s]
      BY <1>1, <1>5, FollowingStages DEF ReconfigurePool, Moves, ReloadRecord
  <2> QED
      BY <2>1 DEF Agreement, Active, Installing
<1>6. ASSUME NEW r \in Reload, Install(r)
      PROVE  Agreement'
  <2>1. /\ UNCHANGED <<pool, overlapped>>
        /\ cfg' = reloads[r].new /\ rl' = reloads[r].new
        /\ reloads[r].stage = "installing"
        /\ reloads'[r].stage = "closing"
        /\ \A s \in Reload : s # r => reloads'[s] = reloads[s]
      BY <1>1, <1>6, FollowingStages DEF Install, Moves, ReloadRecord
  <2> QED
      BY <2>1, AgreementStep DEF Agreement, Active, Installing
<1>7. ASSUME NEW r \in Reload, CloseOld(r)
      PROVE  Agreement'
  <2>1. /\ UNCHANGED <<pool, cfg, rl, overlapped>>
        /\ reloads[r].stage = "closing"
        /\ reloads'[r].stage = "idle"
        /\ \A s \in Reload : s # r => reloads'[s] = reloads[s]
      BY <1>1, <1>7 DEF CloseOld, Moves, NoReload
  <2> QED
      BY <2>1, AgreementStep DEF Agreement, Active, Installing
<1>8. CASE \E q \in Request : RequestStep(q)
    BY <1>2, <1>8 DEF RequestStep, Start, FetchLimiter, Evaluate, Route, Leave
<1> QED
    BY <1>2, <1>3, <1>4, <1>5, <1>6, <1>7, <1>8
       DEF Next, Edit, reloadVars, RequestStep

-----------------------------------------------------------------------------
(* Requests *)

\* What a request that no reload overtook has read is what is there.
Undisturbed ==
    \A q \in Request :
        requests[q].stage # "idle" /\ ~ requests[q].overtaken =>
            /\ requests[q].cfg = cfg
            /\ pool = cfg
            /\ requests[q].stage = "evaluating" => requests[q].limiter = rl
            /\ requests[q].stage # "limiter unavailable"
            /\ requests[q].stage = "no backend" => ListsNone(loads[cfg].config)

\* a configuration has a backend for each of its routes, and one for all unless it
\* lists none
LEMMA RoutesServed ==
    ASSUME NEW config \in Configs, ~ ListsNone(config), NEW route \in {{}} \cup config.routes
    PROVE  IF route = {} THEN Addresses(config) # {} ELSE route \cap Addresses(config) # {}
<1>1. \A r \in config.routes : r # {} /\ r \subseteq Addresses(config)
    BY ReloadAssumption DEF Addresses
<1>2. config.backends # {} \/ config.routes # {}
    BY DEF ListsNone
<1>3. Addresses(config) # {}
  <2>1. CASE config.backends # {}
      BY <2>1 DEF Addresses
  <2>2. CASE config.routes # {}
    <3>1. PICK r \in config.routes : TRUE
        BY <2>2
    <3> QED
        BY <1>1, <3>1
  <2> QED
      BY <1>2, <2>1, <2>2
<1> QED
    BY <1>1, <1>3

\* the configuration of a load never changes
LEMMA ConfigsStay ==
    ASSUME LInv, [Next]_reloadVars, NEW i \in Loaded
    PROVE  loads'[i].config = loads[i].config
<1>1. TypeOK
    BY DEF LInv
<1>2. ASSUME NEW r \in Reload, Load(r)
      PROVE  loads'[i].config = loads[i].config
    BY <1>1, <1>2, LoadFacts
<1>3. ASSUME NEW r \in Reload, CloseOld(r)
      PROVE  loads'[i].config = loads[i].config
  <2>1. reloads[r].old \in Loaded
      BY <1>3 DEF LInv, ClosingRetired, Closing, CloseOld
  <2> QED
      BY <1>1, <1>3, <2>1, CloseOldFacts
<1>4. CASE UNCHANGED loads
    BY <1>4
<1>5. ASSUME NEW q \in Request, RequestStep(q)
      PROVE  UNCHANGED loads
    BY <1>5 DEF RequestStep, Start, FetchLimiter, Evaluate, Route, Leave
<1> QED
    BY <1>2, <1>3, <1>4, <1>5
       DEF Next, Edit, Ping, ReconfigurePool, Install, reloadVars, RequestStep

LEMMA UndisturbedInv ==
    ASSUME LInv, Undisturbed, [Next]_reloadVars
    PROVE  Undisturbed'
<1>1. requests \in [Request -> RequestRecord]
    BY DEF LInv, TypeOK, RequestRecord
<1>2. CASE UNCHANGED <<pool, cfg, rl, requests>>
  <2>1. loads'[cfg].config = loads[cfg].config
      BY ConfigsStay DEF LInv, TypeOK
  <2> QED
      BY <1>2, <2>1 DEF Undisturbed
<1>3. CASE Overtake
  <2>1. \A q \in Request : /\ requests'[q].stage = requests[q].stage
                           /\ requests[q].stage # "idle" => requests'[q].overtaken
      BY <1>1, <1>3 DEF Overtake, RequestRecord
  <2> QED
      BY <2>1 DEF Undisturbed
<1>4. ASSUME NEW q \in Request, RequestStep(q)
      PROVE  Undisturbed'
  <2>1. UNCHANGED <<pool, cfg, rl, loads>>
      BY <1>4 DEF RequestStep, Start, FetchLimiter, Evaluate, Route, Leave
  <2>2. \A p \in Request : p # q => requests'[p] = requests[p]
      BY <1>1, <1>4 DEF RequestStep, Start, FetchLimiter, Evaluate, Route, Leave, Becomes
  <2>3. SUFFICES ASSUME requests'[q].stage # "idle", ~ requests'[q].overtaken
                 PROVE  /\ requests'[q].cfg = cfg
                        /\ pool = cfg
                        /\ requests'[q].stage = "evaluating" => requests'[q].limiter = rl
                        /\ requests'[q].stage # "limiter unavailable"
                        /\ requests'[q].stage = "no backend" =>
                              ListsNone(loads[cfg].config)
      BY <2>1, <2>2 DEF Undisturbed
  <2>4. CASE Start(q)
      BY <1>1, <2>3, <2>4 DEF Start, Becomes
  <2>5. CASE FetchLimiter(q)
      BY <1>1, <2>3, <2>5 DEF FetchLimiter, Becomes, Undisturbed, RequestRecord
  <2>6. CASE Evaluate(q)
      BY <1>1, <2>3, <2>6
         DEF Evaluate, Becomes, Undisturbed, RequestRecord, LInv, CurrentLimiterOpen
  <2>7. ASSUME NEW route, Route(q, route)
        PROVE  /\ requests'[q].cfg = cfg
               /\ pool = cfg
               /\ \/ requests'[q].stage = "forwarded"
                  \/ requests'[q].stage = "no backend" /\ ListsNone(loads[cfg].config)
    <3>1. requests[q].cfg = cfg /\ pool = cfg
        BY <1>1, <2>3, <2>7 DEF Route, Becomes, Undisturbed, RequestRecord
    <3>2. loads[cfg].config \in Configs
      <4>1. TypeOK /\ cfg \in Loaded
          BY DEF LInv, TypeOK
      <4> QED
          BY <4>1, LoadedFacts DEF LoadRecord
    <3>3. route \in {{}} \cup loads[cfg].config.routes
        BY <2>7, <3>1 DEF Route
    <3>4. ListsNone(loads[cfg].config) \/ Eligible(route) # {}
        BY <3>1, <3>2, <3>3, RoutesServed DEF Eligible
    <3> QED
        BY <1>1, <2>7, <3>1, <3>4 DEF Route, Becomes, RequestRecord
  <2>8. CASE Leave(q)
      BY <1>1, <2>3, <2>8 DEF Leave, Becomes, NoRequest
  <2> QED
      BY <1>4, <2>4, <2>5, <2>6, <2>7, <2>8 DEF RequestStep
<1> QED
    BY <1>2, <1>3, <1>4
       DEF Next, Edit, Load, Ping, ReconfigurePool, Install, CloseOld, reloadVars, RequestStep

-----------------------------------------------------------------------------
(* The theorems *)

IInv == LInv /\ Agreement /\ Undisturbed

\* Types, limiters, agreement and undisturbed requests hold together.
THEOREM Invariance == Spec => []IInv
<1>1. Init => IInv
  <2>1. Init => Agreement
      BY DEF Init, Agreement, Active, Installing, NoReload
  <2>2. Init => Undisturbed
    <3>1. Init => \A q \in Request : requests[q].stage = "idle"
        BY DEF Init, NoRequest
    <3> QED
        BY <3>1 DEF Undisturbed
  <2> QED
      BY <2>1, <2>2, InitInv DEF IInv
<1>2. IInv /\ [Next]_reloadVars => IInv'
    BY LimiterStep, AgreementInv, UndisturbedInv DEF IInv
<1> QED
    BY <1>1, <1>2, PTL DEF Spec

\* Types, among them that a limiter has a client exactly if its file names Redis.
THEOREM TypeCorrect == Spec => []TypeOK
<1>1. IInv => TypeOK
    BY DEF IInv, LInv
<1> QED
    BY <1>1, Invariance, PTL

\* No number of reloads, however they overtake each other, closes the client of
\* the limiter in force.
THEOREM CurrentLimiterAlwaysOpen == Spec => []CurrentLimiterOpen
<1>1. IInv => CurrentLimiterOpen
    BY DEF IInv, LInv
<1> QED
    BY <1>1, Invariance, PTL

\* Every open client is in force, in the hands of a reload, or of a load whose
\* ping failed.
THEOREM ClientsAlwaysOwned == Spec => []ClientsOwned
<1>1. IInv => ClientsOwned
    BY DEF IInv, LInv, Owned, ClientsOwned, Pending, Closing
<1> QED
    BY <1>1, Invariance, PTL

\* Reloads that do not overlap leave pool, configuration and limiter of one file,
\* also those that fail.
THEOREM LoadsAlwaysAgree == Spec => []LoadsAgree
<1>1. IInv => LoadsAgree
    BY DEF IInv, Agreement, LoadsAgree, Installing
<1> QED
    BY <1>1, Invariance, PTL

\* For any valid configurations and any traffic, a request that no reload overtook
\* is not refused for its limiter, and for want of a backend only if the
\* configuration lists none.
THEOREM RefusalsAlwaysNeedReload == Spec => []RefusalsNeedReload
<1>1. IInv => RefusalsNeedReload
    BY DEF IInv, Undisturbed, RefusalsNeedReload
<1> QED
    BY <1>1, Invariance, PTL
=============================================================================
