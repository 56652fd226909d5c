-------------------------- MODULE BackendPool_proofs --------------------------
(***************************************************************************)
(* Proofs about BackendPool, for every set of addresses and calls, every   *)
(* initial pool, threshold, cooldown and input set.                        *)
(***************************************************************************)
EXTENDS BackendPool, Counting_proofs, SequenceTheorems, WellFoundedInduction, TLAPS

-----------------------------------------------------------------------------
(* The inductive invariant, and pool updates *)

\* A function on 1..n is a sequence of length n.
LEMMA FunctionIsSeq ==
    ASSUME NEW S, NEW n \in Nat, NEW f \in [1..n -> S]
    PROVE  f \in Seq(S) /\ Len(f) = n /\ DOMAIN f = 1..n
OBVIOUS

\* An update of the entries keeps a pool a pool of the same length.
LEMMA PoolUpdate ==
    ASSUME TypeOK, NEW f \in [DOMAIN pool -> Entry]
    PROVE  f \in Seq(Entry) /\ Len(f) = Len(pool) /\ DOMAIN f = DOMAIN pool
<1>1. Len(pool) \in Nat /\ DOMAIN pool = 1..Len(pool)
    BY DEF TypeOK
<1> QED
    BY <1>1, FunctionIsSeq

\* what BreakerConsistent says of one entry on its own
EntryConsistent(e) ==
    /\ e.breakerState = "closed" <=> e.consecutiveErr < BreakerFailureThreshold
    /\ e.cooldown > 0 => e.breakerState = "open"
    /\ e.halfOpenInFlight => e.breakerState = "half-open"

IInv == TypeOK /\ BreakerConsistent /\ ProbeOwned

\* An update that keeps the addresses, that leaves each entry consistent and
\* that touches the error count of no repeated entry keeps the pool consistent.
LEMMA PoolStep ==
    ASSUME TypeOK, BreakerConsistent,
           NEW f \in [DOMAIN pool -> Entry], pool' = f,
           \A i \in DOMAIN pool :
              /\ f[i].address = pool[i].address
              /\ EntryConsistent(f[i])
              /\ \A j \in DOMAIN pool :
                   j < i /\ pool[j].address = pool[i].address
                      => f[i].consecutiveErr = pool[i].consecutiveErr
    PROVE  /\ pool' \in Seq(Entry)
           /\ DOMAIN pool' = DOMAIN pool
           /\ BreakerConsistent'
<1>1. f \in Seq(Entry) /\ DOMAIN f = DOMAIN pool
    BY PoolUpdate
<1> QED
    BY <1>1 DEF BreakerConsistent, EntryConsistent

\* What the invariant says of one entry.
LEMMA EntryFacts ==
    ASSUME TypeOK, BreakerConsistent, NEW i \in DOMAIN pool
    PROVE  pool[i] \in Entry /\ EntryConsistent(pool[i])
<1>1. pool[i] \in Entry
    BY DEF TypeOK
<1> QED
    BY <1>1 DEF BreakerConsistent, EntryConsistent

\* Repeated entries never hold the half-open slot.
LEMMA RepeatedHasNoSlot ==
    ASSUME TypeOK, BreakerConsistent, NEW i \in DOMAIN pool, NEW address,
           pool[i].address = address, ~ IsFirst(i, address)
    PROVE  ~ pool[i].halfOpenInFlight /\ pool[i].consecutiveErr = 0
<1>1. PICK j \in 1..(i - 1) : pool[j].address = address
    BY DEF IsFirst
<1>2. j \in DOMAIN pool /\ j < i
    BY <1>1 DEF TypeOK
<1>3. pool[i].consecutiveErr = 0
    BY <1>1, <1>2 DEF BreakerConsistent
<1>4. pool[i].breakerState = "closed"
    BY <1>3, NumberAssumption DEF BreakerConsistent
<1> QED
    BY <1>3, <1>4 DEF BreakerConsistent

-----------------------------------------------------------------------------
(* The functions on entries *)

LEMMA RefreshedEntry ==
    ASSUME NEW e \in Entry, EntryConsistent(e)
    PROVE  /\ Refreshed(e) \in Entry
           /\ EntryConsistent(Refreshed(e))
           /\ Refreshed(e).address = e.address
           /\ Refreshed(e).consecutiveErr = e.consecutiveErr
           /\ Refreshed(e).halfOpenInFlight => e.halfOpenInFlight
<1>1. CASE e.breakerState = "open" /\ e.cooldown = 0
  <2> DEFINE r == [e EXCEPT !.breakerState = "half-open", !.halfOpenInFlight = FALSE]
  <2>1. r \in Entry
      BY DEF Entry, BreakerStates
  <2>2. /\ r.address = e.address
        /\ r.consecutiveErr = e.consecutiveErr
        /\ r.breakerState = "half-open"
        /\ r.cooldown = 0
        /\ ~ r.halfOpenInFlight
      BY <1>1 DEF Entry
  <2>3. EntryConsistent(r)
      BY <1>1, <2>2 DEF EntryConsistent
  <2> QED
      BY <1>1, <2>1, <2>2, <2>3 DEF Refreshed
<1>2. CASE ~ (e.breakerState = "open" /\ e.cooldown = 0)
    BY <1>2 DEF Refreshed
<1> QED
    BY <1>1, <1>2

LEMMA SettledEntry ==
    ASSUME NEW e \in Entry, EntryConsistent(e), NEW failed \in BOOLEAN
    PROVE  /\ Settled(e, failed) \in Entry
           /\ EntryConsistent(Settled(e, failed))
           /\ Settled(e, failed).address = e.address
           /\ ~ Settled(e, failed).halfOpenInFlight
<1> DEFINE r == Settled(e, failed)
           opens == failed /\ ErrAfter(e, failed) >= BreakerFailureThreshold
<1>1. ErrAfter(e, failed) \in Nat /\ SlotAfter(e) \in BOOLEAN
    BY DEF ErrAfter, SlotAfter, Entry
<1>2. r \in Entry
    BY <1>1, NumberAssumption DEF Settled, Entry, BreakerStates
<1>3. /\ r.address = e.address
      /\ r.halfOpenInFlight = SlotAfter(e)
      /\ r.consecutiveErr = ErrAfter(e, failed)
      /\ r.breakerState = IF opens THEN "open"
                          ELSE IF failed THEN e.breakerState ELSE "closed"
      /\ r.cooldown = IF opens THEN BreakerCooldown
                      ELSE IF failed THEN e.cooldown ELSE 0
    BY DEF Settled, Entry
<1>4. ~ r.halfOpenInFlight
    BY <1>3 DEF SlotAfter, EntryConsistent
<1>5. EntryConsistent(r)
  <2>1. CASE ~ failed
      BY <1>3, <1>4, <2>1, NumberAssumption DEF EntryConsistent, ErrAfter
  <2>2. CASE failed
    <3>1. ErrAfter(e, failed) = e.consecutiveErr + 1 /\ e.consecutiveErr \in Nat
        BY <2>2 DEF ErrAfter, Entry
    <3>2. CASE opens
        BY <1>3, <1>4, <3>1, <3>2, NumberAssumption DEF EntryConsistent
    <3>3. CASE ~ opens
      <4>0. ~ ErrAfter(e, failed) >= BreakerFailureThreshold
          BY <2>2, <3>3, Zenon
      <4>1. e.consecutiveErr + 1 < BreakerFailureThreshold
          BY <3>1, <4>0, NumberAssumption
      <4>2. r.breakerState = e.breakerState /\ r.cooldown = e.cooldown
          BY <1>3, <2>2, <3>3
      <4> QED
          BY <1>3, <1>4, <3>1, <4>1, <4>2, NumberAssumption DEF EntryConsistent
    <3> QED
        BY <3>2, <3>3
  <2> QED
      BY <2>1, <2>2
<1> QED
    BY <1>2, <1>3, <1>4, <1>5

LEMMA WeightsType ==
    ASSUME TypeOK, NEW S \in SUBSET DOMAIN pool
    PROVE  /\ IsFiniteSet(S)
           /\ \A i \in S : AtLeastOne(pool[i].weight) \in Nat \ {0}
           /\ TotalWeight(S) \in Nat
<1> DEFINE f == [i \in S |-> AtLeastOne(pool[i].weight)]
<1>1. IsFiniteSet(S)
    BY FS_Interval, FS_Subset DEF TypeOK
<1>2. \A i \in S : AtLeastOne(pool[i].weight) \in Nat \ {0}
  <2> TAKE i \in S
  <2>1. pool[i] \in Entry
      BY DEF TypeOK
  <2> QED
      BY <2>1 DEF Entry, AtLeastOne
<1>3. \A i \in S : f[i] \in Nat
    BY <1>2
<1> HIDE DEF f
<1>4. SumOver(f, S) \in Nat
    BY <1>1, <1>3, SumType
<1> QED
    BY <1>1, <1>2, <1>4 DEF f, TotalWeight

\* The weight of one entry more.
LEMMA WeightOfOneMore ==
    ASSUME TypeOK, NEW S \in SUBSET DOMAIN pool, NEW i \in DOMAIN pool, i \notin S
    PROVE  TotalWeight(S \cup {i}) = TotalWeight(S) + AtLeastOne(pool[i].weight)
<1> DEFINE f == [j \in S |-> AtLeastOne(pool[j].weight)]
           T == S \cup {i}
           g == [j \in T |-> AtLeastOne(pool[j].weight)]
<1>1. /\ IsFiniteSet(S)
      /\ \A j \in T : AtLeastOne(pool[j].weight) \in Nat
    BY WeightsType
<1>2. /\ \A j \in S : f[j] = g[j]
      /\ \A j \in T : g[j] \in Nat
      /\ g[i] = AtLeastOne(pool[i].weight)
    BY <1>1
<1> HIDE DEF f, g
<1>3. SumOver(f, S) = SumOver(g, S)
    BY <1>2, SumSame
<1>4. SumOver(g, S \cup {i}) = SumOver(g, S) + g[i]
    BY <1>1, <1>2, SumAdd
<1> QED
    BY <1>2, <1>3, <1>4 DEF f, g, TotalWeight

\* Where there is an entry there is weight.
LEMMA TotalWeightType ==
    ASSUME TypeOK, NEW S \in SUBSET DOMAIN pool, S # {}
    PROVE  TotalWeight(S) \in Nat \ {0}
<1>1. PICK i \in S : TRUE
    OBVIOUS
<1>2. /\ S \ {i} \in SUBSET DOMAIN pool
      /\ i \in DOMAIN pool /\ i \notin S \ {i}
      /\ (S \ {i}) \cup {i} = S
    BY <1>1
<1>3. TotalWeight(S) = TotalWeight(S \ {i}) + AtLeastOne(pool[i].weight)
    BY <1>2, WeightOfOneMore
<1>4. TotalWeight(S \ {i}) \in Nat /\ AtLeastOne(pool[i].weight) \in Nat \ {0}
    BY <1>2, WeightsType
<1> QED
    BY <1>3, <1>4

\* A step that gives no slot away and drops no releaser of a slot still taken
\* leaves every taken slot owned.
LEMMA SlotsKeepOwners ==
    ASSUME ProbeOwned, DOMAIN pool' = DOMAIN pool,
           \A i \in DOMAIN pool :
              /\ pool'[i].address = pool[i].address
              /\ pool'[i].halfOpenInFlight =>
                    /\ pool[i].halfOpenInFlight
                    /\ \A a : a = pool[i].address => Releasers(a) \subseteq Releasers(a)'
    PROVE  ProbeOwned'
BY DEF ProbeOwned

-----------------------------------------------------------------------------
(* The steps *)

LEMMA InitInv ==
    ASSUME Init
    PROVE  IInv
<1>1. Len(InitialBackends) \in Nat /\ DOMAIN InitialBackends = 1..Len(InitialBackends)
    BY InitialAssumption
<1>2. \A i \in DOMAIN InitialBackends :
         InitialBackends[i].address \in Address /\ InitialBackends[i].weight \in Nat
  <2> TAKE i \in DOMAIN InitialBackends
  <2>1. InitialBackends[i] \in [address : Address, weight : Nat \ {0}]
      BY <1>1, InitialAssumption, ElementOfSeq
  <2> QED
      BY <2>1
<1>0. \A a \in Address, w \in Nat : NewEntry(a, w) \in Entry
    BY DEF NewEntry, Entry, BreakerStates
<1>3. pool \in [1..Len(InitialBackends) -> Entry]
    BY <1>1, <1>2, <1>0 DEF Init
<1>4. pool \in Seq(Entry) /\ DOMAIN pool = DOMAIN InitialBackends
    BY <1>1, <1>3, FunctionIsSeq
<1>5. Idle \in CallRecord
    BY DEF Idle, CallRecord, Phases, NoStats
<1>6. TypeOK
    BY <1>4, <1>5 DEF Init, TypeOK
<1>7. \A i \in DOMAIN pool : /\ pool[i].breakerState = "closed"
                             /\ pool[i].cooldown = 0
                             /\ pool[i].consecutiveErr = 0
                             /\ ~ pool[i].halfOpenInFlight
    BY <1>4 DEF Init, NewEntry
<1>8. BreakerConsistent
    BY <1>7, NumberAssumption DEF BreakerConsistent
<1>9. ProbeOwned
    BY <1>7 DEF ProbeOwned
<1> QED
    BY <1>6, <1>8, <1>9 DEF IInv

LEMMA NextForInv ==
    ASSUME IInv, NEW c \in Call, NEW allowed, NEW latency, NextFor(c, allowed, latency)
    PROVE  IInv'
<1> DEFINE cands == Candidates(allowed)
           tied == Tied(cands, latency)
           total == TotalWeight(tied)
<1> USE DEF IInv
<1>1. PICK i \in tied :
        LET halfOpen == Refreshed(pool[i]).breakerState = "half-open"
        IN  /\ current' = (current + 1) % total
            /\ pool' = [j \in DOMAIN pool |->
                  CASE j = i /\ halfOpen ->
                         [Refreshed(pool[j]) EXCEPT !.halfOpenInFlight = TRUE]
                    [] j \in cands /\ ~ (j = i /\ halfOpen) -> Refreshed(pool[j])
                    [] OTHER -> pool[j]]
            /\ calls' = [calls EXCEPT ![c] =
                  [Idle EXCEPT !.phase = "picked", !.address = pool[i].address,
                               !.probe = halfOpen]]
    BY DEF NextFor
<1> DEFINE halfOpen == Refreshed(pool[i]).breakerState = "half-open"
           taken == [Refreshed(pool[i]) EXCEPT !.halfOpenInFlight = TRUE]
           new(j) == IF j = i /\ halfOpen THEN taken
                     ELSE IF j \in cands THEN Refreshed(pool[j]) ELSE pool[j]
           f == [j \in DOMAIN pool |-> new(j)]
           call == [Idle EXCEPT !.phase = "picked", !.address = pool[i].address,
                                !.probe = halfOpen]
<1>2. tied \subseteq cands /\ cands \subseteq DOMAIN pool
    BY DEF Tied, Candidates, Considered
<1>3. pool' = f
    BY <1>1
<1>4. \A j \in DOMAIN pool : pool[j] \in Entry /\ EntryConsistent(pool[j])
    BY EntryFacts
<1>5. \A j \in DOMAIN pool : /\ Refreshed(pool[j]) \in Entry
                             /\ EntryConsistent(Refreshed(pool[j]))
                             /\ Refreshed(pool[j]).address = pool[j].address
                             /\ Refreshed(pool[j]).consecutiveErr = pool[j].consecutiveErr
                             /\ Refreshed(pool[j]).halfOpenInFlight
                                   => pool[j].halfOpenInFlight
    BY <1>4, RefreshedEntry
<1>6. halfOpen => /\ taken \in Entry
                  /\ EntryConsistent(taken)
                  /\ taken.address = pool[i].address
                  /\ taken.consecutiveErr = pool[i].consecutiveErr
  <2> SUFFICES ASSUME halfOpen PROVE /\ taken \in Entry
                                     /\ EntryConsistent(taken)
                                     /\ taken.address = pool[i].address
                                     /\ taken.consecutiveErr = pool[i].consecutiveErr
      OBVIOUS
  <2>1. Refreshed(pool[i]) \in Entry /\ EntryConsistent(Refreshed(pool[i]))
      BY <1>2, <1>5
  <2>2. /\ taken \in Entry
        /\ taken.breakerState = Refreshed(pool[i]).breakerState
        /\ taken.cooldown = Refreshed(pool[i]).cooldown
        /\ taken.consecutiveErr = Refreshed(pool[i]).consecutiveErr
        /\ taken.address = Refreshed(pool[i]).address
      BY <2>1 DEF Entry
  <2> QED
      BY <1>2, <1>5, <2>1, <2>2 DEF EntryConsistent
<1>7. \A j \in DOMAIN pool : /\ new(j) \in Entry
                             /\ EntryConsistent(new(j))
                             /\ new(j).address = pool[j].address
                             /\ new(j).consecutiveErr = pool[j].consecutiveErr
                             /\ j # i => (new(j).halfOpenInFlight => pool[j].halfOpenInFlight)
    BY <1>4, <1>5, <1>6
<1>8. f \in [DOMAIN pool -> Entry]
    BY <1>7
<1>9. /\ pool' \in Seq(Entry)
      /\ DOMAIN pool' = DOMAIN pool
      /\ BreakerConsistent'
  <2> HIDE DEF new
  <2> QED
      BY <1>3, <1>7, <1>8, PoolStep
<1>10. pool[i].address \in Address
    BY <1>2, <1>4 DEF Entry
<1>11. call \in CallRecord /\ call.phase = "picked" /\ call.address = pool[i].address
    BY <1>10 DEF Idle, CallRecord, Phases, NoStats
<1>12. calls' = [calls EXCEPT ![c] = call]
    BY <1>1
<1>13. TypeOK'
  <2>1. total \in Nat \ {0}
      BY <1>2, TotalWeightType
  <2>2. current' \in Nat
      BY <1>1, <2>1 DEF TypeOK
  <2>3. calls' \in [Call -> CallRecord]
      BY <1>11, <1>12 DEF TypeOK
  <2> QED
      BY <1>9, <2>2, <2>3 DEF TypeOK, NextFor
<1>14. ProbeOwned'
  <2> SUFFICES ASSUME NEW j \in DOMAIN pool, pool'[j].halfOpenInFlight
               PROVE  \E d \in Call :
                        /\ calls'[d].address = pool[j].address
                        /\ calls'[d].phase = "picked" \/ InFlight(d)'
    BY <1>3, <1>7, <1>9 DEF ProbeOwned, Releasers
  <2>1. CASE pool[j].address = pool[i].address
      BY <1>11, <1>12, <2>1 DEF TypeOK
  <2>2. CASE pool[j].address # pool[i].address
    <3>1. pool[j].halfOpenInFlight
        BY <1>3, <1>7, <2>2
    <3>2. PICK d \in Call : /\ calls[d].address = pool[j].address
                            /\ calls[d].phase = "picked" \/ InFlight(d)
        BY <3>1 DEF ProbeOwned, Releasers
    <3>3. d # c
        BY <3>2 DEF NextFor, InFlight
    <3>4. calls'[d] = calls[d]
        BY <1>12, <3>3 DEF TypeOK
    <3> QED
        BY <3>2, <3>4 DEF InFlight, Captured
  <2> QED
      BY <2>1, <2>2
<1> QED
    BY <1>9, <1>13, <1>14

LEMMA StartRequestInv ==
    ASSUME IInv, NEW c \in Call, StartRequest(c)
    PROVE  IInv'
<1> USE DEF IInv
<1> DEFINE a == calls[c].address
<1>1. \A i \in DOMAIN pool : pool[i] \in Entry /\ EntryConsistent(pool[i])
    BY EntryFacts
<1>2. calls[c] \in CallRecord /\ calls[c].phase = "picked"
    BY DEF TypeOK, StartRequest
<1>3. CASE ~ Present(a) /\ calls' = [calls EXCEPT ![c].phase = "sent"] /\ UNCHANGED pool
  <2>1. calls' \in [Call -> CallRecord]
      BY <1>2, <1>3 DEF TypeOK, CallRecord, Phases
  <2>2. TypeOK' /\ BreakerConsistent'
      BY <1>3, <2>1 DEF StartRequest, TypeOK, BreakerConsistent
  <2>3. \A d \in Call : d # c => calls'[d] = calls[d]
      BY <1>3 DEF TypeOK
  <2>4. \A x : x # a => Releasers(x) \subseteq Releasers(x)'
      BY <2>3 DEF Releasers, InFlight, Captured
  <2>5. ProbeOwned'
      BY <1>3, <2>4, SlotsKeepOwners DEF Present
  <2> QED
      BY <2>2, <2>5
<1>4. ASSUME NEW i \in DOMAIN pool, IsFirst(i, a),
             pool' = UpdateFirst(a, LAMBDA e : [e EXCEPT !.active = @ + 1]),
             calls' = [calls EXCEPT ![c].phase = "sent", ![c].stats = <<generation, i>>]
      PROVE  IInv'
  <2> DEFINE f == [k \in DOMAIN pool |->
                     IF IsFirst(k, a) THEN [pool[k] EXCEPT !.active = @ + 1] ELSE pool[k]]
  <2>1. pool' = f
      BY <1>4 DEF UpdateFirst
  <2>2. f \in [DOMAIN pool -> Entry]
      BY <1>1 DEF Entry
  <2>3. \A k \in DOMAIN pool : /\ f[k].address = pool[k].address
                               /\ EntryConsistent(f[k])
                               /\ f[k].consecutiveErr = pool[k].consecutiveErr
                               /\ f[k].halfOpenInFlight = pool[k].halfOpenInFlight
      BY <1>1 DEF Entry, EntryConsistent
  <2>4. pool' \in Seq(Entry) /\ DOMAIN pool' = DOMAIN pool /\ BreakerConsistent'
      BY <2>1, <2>2, <2>3, PoolStep
  <2>5. i \in Nat \ {0}
      BY DEF TypeOK
  <2>6. /\ calls' \in [Call -> CallRecord]
        /\ calls'[c].phase = "sent" /\ calls'[c].stats # NoStats /\ calls'[c].address = a
        /\ \A d \in Call : d # c => calls'[d] = calls[d]
      BY <1>2, <1>4, <2>5 DEF TypeOK, CallRecord, Phases, NoStats
  <2>7. TypeOK'
      BY <2>4, <2>6 DEF TypeOK, StartRequest
  <2>8. \A x : Releasers(x) \subseteq Releasers(x)'
      BY <2>6 DEF Releasers, InFlight, Captured
  <2>9. ProbeOwned'
      BY <2>1, <2>3, <2>4, <2>8, SlotsKeepOwners
  <2> QED
      BY <2>4, <2>7, <2>9
<1> QED
    BY <1>3, <1>4 DEF StartRequest

LEMMA FinishStatsInv ==
    ASSUME IInv, NEW c \in Call, NEW failed \in BOOLEAN, FinishStats(c, failed)
    PROVE  IInv'
<1> USE DEF IInv
<1> DEFINE f == [k \in DOMAIN pool |->
                   IF calls[c].stats = <<generation, k>>
                   THEN [pool[k] EXCEPT !.active = @ - 1] ELSE pool[k]]
<1>1. \A i \in DOMAIN pool : pool[i] \in Entry /\ EntryConsistent(pool[i])
    BY EntryFacts
<1>2. pool' = f
    BY DEF FinishStats, Uncounted
<1>3. f \in [DOMAIN pool -> Entry]
    BY <1>1 DEF Entry
<1>4. \A k \in DOMAIN pool : /\ f[k].address = pool[k].address
                             /\ EntryConsistent(f[k])
                             /\ f[k].consecutiveErr = pool[k].consecutiveErr
                             /\ f[k].halfOpenInFlight = pool[k].halfOpenInFlight
    BY <1>1 DEF Entry, EntryConsistent
<1>5. pool' \in Seq(Entry) /\ DOMAIN pool' = DOMAIN pool /\ BreakerConsistent'
    BY <1>2, <1>3, <1>4, PoolStep
<1>6. calls[c] \in CallRecord
    BY DEF TypeOK
<1>7. /\ calls' \in [Call -> CallRecord]
      /\ calls'[c].phase = "settling"
      /\ calls'[c].stats = calls[c].stats
      /\ calls'[c].address = calls[c].address
      /\ \A d \in Call : d # c => calls'[d] = calls[d]
    BY <1>6 DEF FinishStats, TypeOK, CallRecord, Phases
<1>8. TypeOK'
    BY <1>5, <1>7 DEF TypeOK, FinishStats
<1>9. \A x : Releasers(x) \subseteq Releasers(x)'
    BY <1>7 DEF Releasers, InFlight, Captured, FinishStats
<1>10. ProbeOwned'
    BY <1>2, <1>4, <1>5, <1>9, SlotsKeepOwners
<1> QED
    BY <1>5, <1>8, <1>10

LEMMA FinishRequestInv ==
    ASSUME IInv, NEW c \in Call, FinishRequest(c)
    PROVE  IInv'
<1> USE DEF IInv
<1> DEFINE a == calls[c].address
           f == [k \in DOMAIN pool |->
                   IF IsFirst(k, a) THEN Settled(pool[k], calls[c].failed) ELSE pool[k]]
<1>1. \A i \in DOMAIN pool : pool[i] \in Entry /\ EntryConsistent(pool[i])
    BY EntryFacts
<1>2. calls[c] \in CallRecord /\ calls[c].failed \in BOOLEAN
    BY DEF TypeOK, CallRecord
<1>3. pool' = f /\ calls' = [calls EXCEPT ![c] = Idle]
    BY DEF FinishRequest, UpdateFirst
<1>4. \A k \in DOMAIN pool :
         LET s == Settled(pool[k], calls[c].failed)
         IN  s \in Entry /\ EntryConsistent(s) /\ s.address = pool[k].address
               /\ ~ s.halfOpenInFlight
    BY <1>1, <1>2, SettledEntry
<1>5. f \in [DOMAIN pool -> Entry]
    BY <1>1, <1>4
<1>6. \A k \in DOMAIN pool : f[k].address = pool[k].address /\ EntryConsistent(f[k])
    BY <1>1, <1>4
<1>7. \A k \in DOMAIN pool : \A j \in DOMAIN pool :
         j < k /\ pool[j].address = pool[k].address
            => f[k].consecutiveErr = pool[k].consecutiveErr
  <2> SUFFICES ASSUME NEW k \in DOMAIN pool, NEW j \in DOMAIN pool,
                      j < k, pool[j].address = pool[k].address
               PROVE  ~ IsFirst(k, a)
      OBVIOUS
  <2>1. j \in 1..(k - 1)
      BY DEF TypeOK
  <2> QED
      BY <2>1 DEF IsFirst
<1>8. pool' \in Seq(Entry) /\ DOMAIN pool' = DOMAIN pool /\ BreakerConsistent'
    BY <1>3, <1>5, <1>6, <1>7, PoolStep
<1>9. Idle \in CallRecord
    BY DEF Idle, CallRecord, Phases, NoStats
<1>10. TypeOK'
    BY <1>3, <1>8, <1>9 DEF TypeOK, FinishRequest
<1>11. \A k \in DOMAIN pool :
          f[k].halfOpenInFlight => pool[k].address # a /\ pool[k].halfOpenInFlight
    BY <1>4, RepeatedHasNoSlot DEF IsFirst
<1>12. \A x : x # a => Releasers(x) \subseteq Releasers(x)'
  <2>1. \A d \in Call : d # c => calls'[d] = calls[d]
      BY <1>3 DEF TypeOK
  <2> QED
      BY <2>1 DEF Releasers, InFlight, Captured
<1>13. ProbeOwned'
    BY <1>3, <1>6, <1>8, <1>11, <1>12, SlotsKeepOwners
<1> QED
    BY <1>8, <1>10, <1>13

LEMMA FinishNothingInv ==
    ASSUME IInv, NEW c \in Call, FinishNothing(c)
    PROVE  IInv'
<1> USE DEF IInv
<1>1. Idle \in CallRecord
    BY DEF Idle, CallRecord, Phases, NoStats
<1>2. TypeOK' /\ BreakerConsistent'
    BY <1>1 DEF FinishNothing, TypeOK, BreakerConsistent
<1>3. \A d \in Call : d # c => calls'[d] = calls[d]
    BY DEF FinishNothing, TypeOK
<1>4. \A x : Releasers(x) \subseteq Releasers(x)'
    BY <1>3 DEF Releasers, InFlight, Captured, FinishNothing
<1>5. ProbeOwned'
    BY <1>4, SlotsKeepOwners DEF FinishNothing
<1> QED
    BY <1>2, <1>5

\* The actions of operators, of the health checker and of time update entries
\* and leave the calls alone.
LEMMA EntriesOnlyInv ==
    ASSUME IInv, NEW f \in [DOMAIN pool -> Entry], pool' = f,
           \A i \in DOMAIN pool :
              /\ f[i].address = pool[i].address
              /\ EntryConsistent(f[i])
              /\ f[i].consecutiveErr = pool[i].consecutiveErr
              /\ f[i].halfOpenInFlight => pool[i].halfOpenInFlight,
           sweep' \in Seq(Address), UNCHANGED <<current, generation, calls>>
    PROVE  IInv'
<1> USE DEF IInv
<1>1. pool' \in Seq(Entry) /\ DOMAIN pool' = DOMAIN pool /\ BreakerConsistent'
    BY PoolStep
<1>2. TypeOK'
    BY <1>1 DEF TypeOK
<1>3. \A x : Releasers(x)' = Releasers(x)
    BY DEF Releasers, InFlight, Captured
<1>4. ProbeOwned'
    BY <1>1, <1>3, SlotsKeepOwners
<1> QED
    BY <1>1, <1>2, <1>4

LEMMA SetBackendStateInv ==
    ASSUME IInv, NEW a \in Address, NEW action \in AdminActions, SetBackendState(a, action)
    PROVE  IInv'
<1> USE DEF IInv
<1> DEFINE f == [k \in DOMAIN pool |->
                   IF IsFirst(k, a) THEN AfterAdmin(pool[k], action) ELSE pool[k]]
<1>1. \A i \in DOMAIN pool : pool[i] \in Entry /\ EntryConsistent(pool[i])
    BY EntryFacts
<1>2. pool' = f
    BY DEF SetBackendState, UpdateFirst
<1>3. f \in [DOMAIN pool -> Entry]
    BY <1>1 DEF Entry, AfterAdmin
<1>4. \A k \in DOMAIN pool : /\ f[k].address = pool[k].address
                             /\ EntryConsistent(f[k])
                             /\ f[k].consecutiveErr = pool[k].consecutiveErr
                             /\ f[k].halfOpenInFlight = pool[k].halfOpenInFlight
    BY <1>1 DEF Entry, EntryConsistent, AfterAdmin
<1>5. sweep' \in Seq(Address)
    BY DEF SetBackendState, TypeOK
<1> QED
    BY <1>2, <1>3, <1>4, <1>5, EntriesOnlyInv DEF SetBackendState

LEMMA HealthProbeInv ==
    ASSUME IInv, NEW ok \in ProbeResults, HealthProbe(ok)
    PROVE  IInv'
<1> USE DEF IInv
<1> DEFINE f == [k \in DOMAIN pool |-> IF pool[k].address = Head(sweep)
                                       THEN AfterProbe(pool[k], ok) ELSE pool[k]]
<1>1. \A i \in DOMAIN pool : pool[i] \in Entry /\ EntryConsistent(pool[i])
    BY EntryFacts
<1>2. pool' = f
    BY DEF HealthProbe, UpdateAll
<1>3. ok \in BOOLEAN
    BY InputAssumption
<1>4. f \in [DOMAIN pool -> Entry]
    BY <1>1, <1>3 DEF Entry, AfterProbe
<1>5. \A k \in DOMAIN pool : /\ f[k].address = pool[k].address
                             /\ EntryConsistent(f[k])
                             /\ f[k].consecutiveErr = pool[k].consecutiveErr
                             /\ f[k].halfOpenInFlight => pool[k].halfOpenInFlight
    BY <1>1 DEF Entry, EntryConsistent, AfterProbe
<1>6. sweep' \in Seq(Address)
    BY DEF HealthProbe, TypeOK
<1> QED
    BY <1>2, <1>4, <1>5, <1>6, EntriesOnlyInv DEF HealthProbe

LEMMA HealthSnapshotInv ==
    ASSUME IInv, HealthSnapshot
    PROVE  IInv'
<1> USE DEF IInv
<1> DEFINE addresses == [i \in DOMAIN pool |-> pool[i].address]
<1>1. \A i \in DOMAIN pool : pool[i] \in Entry /\ EntryConsistent(pool[i])
    BY EntryFacts
<1>2. Len(pool) \in Nat /\ DOMAIN pool = 1..Len(pool) /\ pool \in [DOMAIN pool -> Entry]
    BY DEF TypeOK
<1>3. addresses \in [1..Len(pool) -> Address]
    BY <1>1, <1>2 DEF Entry
<1>4. sweep' \in Seq(Address)
    BY <1>2, <1>3, FunctionIsSeq DEF HealthSnapshot
<1> QED
    BY <1>1, <1>2, <1>4, EntriesOnlyInv DEF HealthSnapshot

LEMMA TickInv ==
    ASSUME IInv, Tick
    PROVE  IInv'
<1> USE DEF IInv
<1> DEFINE f == [i \in DOMAIN pool |->
                   IF pool[i].cooldown > 0
                   THEN [pool[i] EXCEPT !.cooldown = @ - 1] ELSE pool[i]]
<1>1. \A i \in DOMAIN pool : pool[i] \in Entry /\ EntryConsistent(pool[i])
    BY EntryFacts
<1>2. pool' = f
    BY DEF Tick
<1>3. f \in [DOMAIN pool -> Entry]
    BY <1>1 DEF Entry
<1>4. \A k \in DOMAIN pool : /\ f[k].address = pool[k].address
                             /\ EntryConsistent(f[k])
                             /\ f[k].consecutiveErr = pool[k].consecutiveErr
                             /\ f[k].halfOpenInFlight = pool[k].halfOpenInFlight
    BY <1>1 DEF Entry, EntryConsistent
<1>5. sweep' \in Seq(Address)
    BY DEF Tick, TypeOK
<1> QED
    BY <1>2, <1>3, <1>4, <1>5, EntriesOnlyInv DEF Tick

LEMMA ReconfigureInv ==
    ASSUME IInv, NEW list \in ReloadLists, Reconfigure(list)
    PROVE  IInv'
<1> USE DEF IInv
<1>1. \A i \in DOMAIN pool : pool[i] \in Entry /\ EntryConsistent(pool[i])
    BY EntryFacts
<1>2. /\ list \in Seq(Address)
      /\ Len(list) \in Nat
      /\ DOMAIN list = 1..Len(list)
      /\ \A k \in DOMAIN list : list[k] \in Address
      /\ \A j, k \in DOMAIN list : list[j] = list[k] => j = k
    BY ReloadAssumption
<1>3. PICK next \in [DOMAIN list -> UNION {Carried(list[k]) : k \in DOMAIN list}] :
         /\ \A k \in DOMAIN list : next[k] \in Carried(list[k])
         /\ pool' = next
    BY DEF Reconfigure
<1>4. ASSUME NEW k \in DOMAIN list
      PROVE  /\ next[k] \in Entry
             /\ EntryConsistent(next[k])
             /\ next[k].address = list[k]
             /\ next[k].halfOpenInFlight
                   => \E i \in DOMAIN pool : pool[i].address = list[k] /\ pool[i].halfOpenInFlight
  <2>1. CASE Present(list[k])
    <3>1. PICK i \in DOMAIN pool : IsLast(i, list[k]) /\ next[k] = pool[i]
        BY <1>3, <2>1 DEF Carried, Clone
    <3> QED
        BY <1>1, <3>1 DEF IsLast
  <2>2. CASE ~ Present(list[k])
    <3>1. next[k] = NewEntry(list[k], 0)
        BY <1>3, <2>2 DEF Carried
    <3> QED
        BY <1>2, <3>1, NumberAssumption DEF NewEntry, Entry, EntryConsistent, BreakerStates
  <2> QED
      BY <2>1, <2>2
<1>5. next \in [1..Len(list) -> Entry]
    BY <1>2, <1>3, <1>4
<1>6. pool' \in Seq(Entry) /\ DOMAIN pool' = DOMAIN list
    BY <1>2, <1>3, <1>5, FunctionIsSeq
<1>7. current' \in Nat /\ generation' \in Nat
    BY <1>2 DEF Reconfigure, TypeOK
<1>8. TypeOK'
    BY <1>6, <1>7 DEF TypeOK, Reconfigure
<1>9. \A i, j \in DOMAIN pool' : pool'[i].address = pool'[j].address => i = j
    BY <1>2, <1>3, <1>4, <1>6
<1>10. BreakerConsistent'
  <2>1. DOMAIN pool' \subseteq Nat
      BY <1>2, <1>6
  <2> QED
      BY <1>3, <1>4, <1>6, <1>9, <2>1 DEF BreakerConsistent, EntryConsistent
<1>11. ProbeOwned'
  <2>1. \A x : Releasers(x)' = Releasers(x)
      BY DEF Reconfigure, Releasers, InFlight, Captured
  <2> QED
      BY <1>3, <1>4, <1>6, <2>1 DEF ProbeOwned
<1> QED
    BY <1>8, <1>10, <1>11

-----------------------------------------------------------------------------
(* The theorems *)

\* The steps without the bound on errors, which plays no part in what follows:
\* so it holds too where others decide which calls fail.
CallMoves(c) ==
    \/ \E allowed \in AllowedSets, latency \in [DOMAIN pool -> Latencies] :
          NextFor(c, allowed, latency)
    \/ StartRequest(c)
    \/ \E failed \in BOOLEAN : FinishStats(c, failed)
    \/ FinishRequest(c)
    \/ FinishNothing(c)

Moves == (\E c \in Call : CallMoves(c)) \/ Background

LEMMA NextMoves == Next => Moves
BY DEF Next, CallStep, Finish, CallMoves, Moves

LEMMA StepInv ==
    ASSUME IInv, [Moves]_vars
    PROVE  IInv'
<1>1. ASSUME NEW c \in Call, CallMoves(c) PROVE IInv'
    BY <1>1, NextForInv, StartRequestInv, FinishStatsInv, FinishRequestInv,
       FinishNothingInv DEF CallMoves
<1>2. ASSUME NEW a \in Address, NEW action \in AdminActions, SetBackendState(a, action)
      PROVE  IInv'
    BY <1>2, SetBackendStateInv
<1>3. ASSUME NEW list \in ReloadLists, Reconfigure(list) PROVE IInv'
    BY <1>3, ReconfigureInv
<1>4. CASE HealthSnapshot
    BY <1>4, HealthSnapshotInv
<1>5. ASSUME NEW ok \in ProbeResults, HealthProbe(ok) PROVE IInv'
    BY <1>5, HealthProbeInv
<1>6. CASE Tick
    BY <1>6, TickInv
<1>7. CASE UNCHANGED vars
    BY <1>7 DEF vars, IInv, TypeOK, BreakerConsistent, ProbeOwned, Releasers,
                InFlight, Captured
<1> QED
    BY <1>1, <1>2, <1>3, <1>4, <1>5, <1>6, <1>7 DEF Moves, Background

\* TypeOK, BreakerConsistent and ProbeOwned hold together in every reachable
\* state; each needs the others in the induction.
THEOREM Invariance == Spec => []IInv
BY InitInv, StepInv, NextMoves, PTL DEF Spec

\* The pool, its cursor, the calls and the health checker's list keep their types.
THEOREM TypeCorrect == Spec => []TypeOK
<1>1. IInv => TypeOK
    BY DEF IInv
<1> QED
    BY <1>1, Invariance, PTL

\* The breaker of every entry is closed exactly below the failure threshold, its
\* cooldown runs only while open, its slot is taken only while half-open, and a
\* repeated entry never leaves its initial breaker state, for every threshold,
\* cooldown and sequence of requests, reloads, admin actions and health checks.
THEOREM BreakerAlwaysConsistent == Spec => []BreakerConsistent
<1>1. IInv => BreakerConsistent
    BY DEF IInv
<1> QED
    BY <1>1, Invariance, PTL

\* No half-open slot is ever lost: while it is taken, a call is under way whose
\* finishRequest will give it back.
THEOREM ProbeAlwaysOwned == Spec => []ProbeOwned
<1>1. IInv => ProbeOwned
    BY DEF IInv
<1> QED
    BY <1>1, Invariance, PTL

-----------------------------------------------------------------------------
(* What status() reports *)

\* status() and nextFor follow one rule, for every pool whose entries have their
\* types: an open breaker whose cooldown is over counts as half-open in both.
THEOREM StatusAlwaysAgrees == Spec => []StatusAgrees
<1>1. ASSUME TypeOK, NEW i \in DOMAIN pool
      PROVE  /\ Available(pool[i]) <=> i \in Candidates(Address)
             /\ Available(pool[i]) => CurrentBreakerState(pool[i]) # "open"
  <2> DEFINE e == pool[i]
  <2>1. e \in Entry
      BY <1>1 DEF TypeOK
  <2>2. i \in Candidates(Address) <=>
           e.healthy /\ ~ e.disabled /\ ~ e.draining /\ Admits(Refreshed(e))
      BY <2>1 DEF Candidates, Considered, Entry
  <2>3. CASE e.breakerState = "open" /\ e.cooldown = 0
    <3>1. /\ Refreshed(e).breakerState = "half-open"
          /\ ~ Refreshed(e).halfOpenInFlight
        BY <2>1, <2>3 DEF Refreshed, Entry
    <3> QED
        BY <2>2, <2>3, <3>1 DEF Available, Admits, CurrentBreakerState
  <2>4. CASE ~ (e.breakerState = "open" /\ e.cooldown = 0)
    <3>1. Refreshed(e) = e
        BY <2>4 DEF Refreshed
    <3>2. e.breakerState \in BreakerStates /\ e.cooldown \in Nat
        BY <2>1 DEF Entry
    <3>3. e.breakerState = "open" => e.cooldown > 0
        BY <2>4, <3>2
    <3> QED
        BY <2>2, <2>4, <3>1, <3>2, <3>3
        DEF Available, Admits, CurrentBreakerState, BreakerStates
  <2> QED
      BY <2>3, <2>4
<1>2. TypeOK => StatusAgrees
    BY <1>1 DEF StatusAgrees
<1> QED
    BY <1>2, TypeCorrect, PTL

-----------------------------------------------------------------------------
(* The round robin *)

LEMMA LeastNumber ==
    ASSUME NEW S \in SUBSET Nat, S # {}
    PROVE  \E x \in S : \A y \in S : x <= y
<1>1. IsWellFoundedOn(OpToRel(<, Nat), Nat)
    BY NatLessThanWellFounded
<1>2. PICK x \in S : \A y \in S : ~ (<<y, x>> \in OpToRel(<, Nat))
    BY <1>1, WFMin
<1>3. \A y \in S : ~ (y < x)
    BY <1>2 DEF OpToRel
<1> QED
    BY <1>3

\* A finite set of numbers has a largest one: a subset without one would shrink
\* to a single number.
LEMMA LargestNumber ==
    ASSUME NEW S \in SUBSET Nat, IsFiniteSet(S), S # {}
    PROVE  \E k \in S : \A j \in S : j <= k
<1> DEFINE Tops(T) == \E k \in T : \A j \in T : j <= k
           Bad == {T \in SUBSET S : T # {} /\ ~ Tops(T)}
<1> SUFFICES ASSUME Bad # {} PROVE FALSE
    OBVIOUS
<1>1. \A T \in SUBSET S : IsFiniteSet(T) /\ Cardinality(T) \in Nat
    BY FS_Subset, FS_CardinalityType
<1>2. PICK T \in Bad : \A U \in Bad : Cardinality(T) <= Cardinality(U)
  <2> DEFINE Numbers == {Cardinality(U) : U \in Bad}
  <2>1. Numbers \in SUBSET Nat /\ Numbers # {}
      BY <1>1
  <2> HIDE DEF Numbers
  <2>2. PICK n \in Numbers : \A m \in Numbers : n <= m
      BY <2>1, LeastNumber
  <2> HIDE DEF Bad
  <2> QED
      BY <2>2 DEF Numbers
<1>3. PICK x \in T : TRUE
    OBVIOUS
<1> DEFINE U == T \ {x}
<1>4. Cardinality(U) = Cardinality(T) - 1 /\ U \in SUBSET S
    BY <1>1, <1>3, FS_RemoveElement
<1>5. U \notin Bad
  <2> HIDE DEF Bad, U
  <2>1. T \in SUBSET S
      BY DEF Bad
  <2> QED
      BY <1>1, <1>2, <1>4, <2>1
<1>6. CASE U = {}
  <2>1. T = {x} /\ x \in Nat
      BY <1>6
  <2> QED
      BY <2>1
<1>7. CASE U # {}
  <2>1. PICK k \in U : \A j \in U : j <= k
      BY <1>4, <1>5, <1>7
  <2>2. T = U \cup {x} /\ x \in Nat /\ k \in Nat /\ T \subseteq Nat
      BY <2>1, <1>3
  <2>3. \E m \in T : \A j \in T : j <= m
      BY <2>1, <2>2
  <2> QED
      BY <2>3
<1> QED
    BY <1>6, <1>7

\* the weight of the tied entries before position x of the pool
Upto(tied, x) == TotalWeight({j \in tied : j < x})

LEMMA UptoType ==
    ASSUME TypeOK, NEW tied \in SUBSET DOMAIN pool, NEW x
    PROVE  Upto(tied, x) \in Nat
<1>1. {j \in tied : j < x} \in SUBSET DOMAIN pool
    OBVIOUS
<1> QED
    BY <1>1, WeightsType DEF Upto

LEMMA UptoNext ==
    ASSUME TypeOK, NEW tied \in SUBSET DOMAIN pool, NEW x \in Nat
    PROVE  /\ x \in tied => Upto(tied, x + 1) = Upto(tied, x) + AtLeastOne(pool[x].weight)
           /\ x \notin tied => Upto(tied, x + 1) = Upto(tied, x)
<1> DEFINE S == {j \in tied : j < x}
           T == {j \in tied : j < x + 1}
<1>1. \A j \in tied : j \in Nat
    BY DEF TypeOK
<1>2. x \in tied => T = S \cup {x}
    BY <1>1
<1>3. x \notin tied => T = S
    BY <1>1
<1>4. S \in SUBSET DOMAIN pool /\ x \notin S
    OBVIOUS
<1> HIDE DEF S, T
<1>5. x \in tied => TotalWeight(S \cup {x}) = TotalWeight(S) + AtLeastOne(pool[x].weight)
    BY <1>4, WeightOfOneMore
<1> QED
    BY <1>2, <1>3, <1>5 DEF Upto, S, T

\* A part weighs no more than the whole.
LEMMA PartWeight ==
    ASSUME TypeOK, NEW S \in SUBSET DOMAIN pool, NEW T \in SUBSET S
    PROVE  TotalWeight(T) <= TotalWeight(S)
<1> DEFINE f == [j \in T |-> AtLeastOne(pool[j].weight)]
           g == [j \in S |-> AtLeastOne(pool[j].weight)]
<1>1. IsFiniteSet(S) /\ \A j \in S : AtLeastOne(pool[j].weight) \in Nat
    BY WeightsType
<1>2. /\ \A j \in S : g[j] \in Nat
      /\ \A j \in T : f[j] \in Nat /\ f[j] <= g[j]
    BY <1>1
<1> HIDE DEF f, g
<1>3. SumOver(f, T) <= SumOver(g, S)
    BY <1>1, <1>2, SumMonotone
<1> QED
    BY <1>3 DEF TotalWeight, f, g

LEMMA UptoMonotone ==
    ASSUME TypeOK, NEW tied \in SUBSET DOMAIN pool, NEW x \in Nat, NEW y \in Nat, x <= y
    PROVE  Upto(tied, x) <= Upto(tied, y)
<1> DEFINE S == {j \in tied : j < y}
           T == {j \in tied : j < x}
<1>1. \A j \in tied : j \in Nat
    BY DEF TypeOK
<1>2. S \in SUBSET DOMAIN pool /\ T \in SUBSET S
    BY <1>1
<1> HIDE DEF S, T
<1>3. TotalWeight(T) <= TotalWeight(S)
    BY <1>2, PartWeight
<1> QED
    BY <1>3 DEF Upto, S, T

LEMMA UptoEnds ==
    ASSUME TypeOK, NEW tied \in SUBSET DOMAIN pool
    PROVE  /\ Upto(tied, 0) = 0
           /\ Upto(tied, Len(pool) + 1) = TotalWeight(tied)
           /\ \A x \in Nat : Upto(tied, x) <= TotalWeight(tied)
<1>1. Len(pool) \in Nat /\ \A j \in tied : j \in Nat /\ j <= Len(pool)
    BY DEF TypeOK
<1>2. {j \in tied : j < 0} = {}
    BY <1>1
<1>3. {j \in tied : j < Len(pool) + 1} = tied
    BY <1>1
<1>4. Upto(tied, 0) = 0
    BY <1>2, SumEmpty DEF Upto, TotalWeight
<1>5. Upto(tied, Len(pool) + 1) = TotalWeight(tied)
    BY <1>3 DEF Upto
<1>6. \A x \in Nat : Upto(tied, x) <= TotalWeight(tied)
  <2> TAKE x \in Nat
  <2>1. {j \in tied : j < x} \in SUBSET tied
      OBVIOUS
  <2> QED
      BY <2>1, PartWeight DEF Upto
<1> QED
    BY <1>4, <1>5, <1>6

\* An entry is in turn at its own stretch of positions.
LEMMA TurnStretch ==
    ASSUME TypeOK, NEW tied \in SUBSET DOMAIN pool, NEW i \in tied, NEW p \in Nat
    PROVE  InTurn(i, tied, p) <=> Upto(tied, i) <= p /\ p < Upto(tied, i + 1)
<1>1. i \in Nat
    BY DEF TypeOK
<1>2. Upto(tied, i + 1) = Upto(tied, i) + AtLeastOne(pool[i].weight)
    BY <1>1, UptoNext
<1> QED
    BY <1>2 DEF InTurn, Upto

\* The stretches are as long as the weights, do not overlap, and leave no gap.
LEMMA TurnsAreFair ==
    ASSUME TypeOK, NEW tied \in SUBSET DOMAIN pool
    PROVE  LET turns == 0..(TotalWeight(tied) - 1)
           IN  /\ \A i \in tied :
                    Cardinality({p \in turns : InTurn(i, tied, p)})
                        = AtLeastOne(pool[i].weight)
               /\ \A p \in turns : \E i \in tied :
                    InTurn(i, tied, p) /\ \A j \in tied : InTurn(j, tied, p) => j = i
<1> DEFINE turns == 0..(TotalWeight(tied) - 1)
<1>0. /\ TotalWeight(tied) \in Nat
      /\ \A i \in tied : i \in Nat /\ AtLeastOne(pool[i].weight) \in Nat \ {0}
      /\ \A x \in Nat : Upto(tied, x) \in Nat
      /\ \A p \in turns : p \in Nat /\ p < TotalWeight(tied)
  <2>1. TotalWeight(tied) \in Nat
      BY WeightsType
  <2>2. \A i \in tied : i \in Nat /\ AtLeastOne(pool[i].weight) \in Nat \ {0}
      BY WeightsType DEF TypeOK
  <2>3. \A x \in Nat : Upto(tied, x) \in Nat
      BY UptoType
  <2>4. \A p \in turns : p \in Nat /\ p < TotalWeight(tied)
      BY <2>1
  <2> QED
      BY <2>1, <2>2, <2>3, <2>4
<1>1. ASSUME NEW i \in tied
      PROVE  Cardinality({p \in turns : InTurn(i, tied, p)}) = AtLeastOne(pool[i].weight)
  <2> DEFINE a == Upto(tied, i)
             w == AtLeastOne(pool[i].weight)
  <2>1. /\ a \in Nat /\ w \in Nat \ {0} /\ Upto(tied, i + 1) = a + w
        /\ a + w <= TotalWeight(tied)
    <3>1. i + 1 \in Nat /\ i \in Nat
        BY <1>0
    <3>2. Upto(tied, i + 1) = a + w
        BY <3>1, UptoNext
    <3> QED
        BY <1>0, <3>1, <3>2, UptoEnds
  <2>2. \A p \in turns : InTurn(i, tied, p) <=> a <= p /\ p < a + w
      BY <1>0, <2>1, TurnStretch
  <2> HIDE DEF a, w
  <2>3. \A p : p \in turns /\ a <= p /\ p < a + w <=> p \in a..(a + w - 1)
      BY <1>0, <2>1
  <2>4. {p \in turns : InTurn(i, tied, p)} = a..(a + w - 1)
      BY <2>2, <2>3
  <2>5. Cardinality(a..(a + w - 1)) = w
      BY <2>1, FS_Interval
  <2> QED
      BY <2>4, <2>5 DEF w
<1>2. ASSUME NEW p \in turns
      PROVE  \E i \in tied :
                InTurn(i, tied, p) /\ \A j \in tied : InTurn(j, tied, p) => j = i
  <2> DEFINE S == {x \in Nat : p < Upto(tied, x)}
  <2>1. Len(pool) + 1 \in S
    <3>1. Len(pool) + 1 \in Nat
        BY DEF TypeOK
    <3> QED
        BY <1>0, <3>1, UptoEnds
  <2>2. PICK x \in S : \A y \in S : x <= y
    <3>1. S \in SUBSET Nat /\ S # {}
        BY <2>1
    <3> HIDE DEF S
    <3> QED
        BY <3>1, LeastNumber
  <2>3. x # 0
    <3>1. p < Upto(tied, x) /\ p \in Nat /\ Upto(tied, 0) = 0
        BY <1>0, UptoEnds
    <3> HIDE DEF S
    <3> QED
        BY <3>1
  <2> DEFINE i == x - 1
  <2>4. i \in Nat /\ i + 1 = x
      BY <2>3
  <2>5. Upto(tied, i) <= p
    <3>1. i \notin S
        BY <2>2, <2>4
    <3> QED
        BY <1>0, <2>4, <3>1
  <2>6. p < Upto(tied, i + 1)
      BY <2>4
  <2> HIDE DEF i
  <2>7. i \in tied
    <3>1. i \notin tied => Upto(tied, i + 1) = Upto(tied, i)
        BY <2>4, UptoNext
    <3>2. Upto(tied, i) \in Nat /\ p \in Nat
        BY <1>0, <2>4
    <3> QED
        BY <2>5, <2>6, <3>1, <3>2
  <2>8. InTurn(i, tied, p)
      BY <1>0, <2>5, <2>6, <2>7, TurnStretch
  <2>9. ASSUME NEW j \in tied, InTurn(j, tied, p)
        PROVE  j = i
    <3>1. Upto(tied, j) <= p /\ p < Upto(tied, j + 1) /\ j \in Nat /\ j + 1 \in Nat
        BY <1>0, <2>9, TurnStretch
    <3>2. /\ Upto(tied, i) \in Nat /\ Upto(tied, i + 1) \in Nat
          /\ Upto(tied, j) \in Nat /\ Upto(tied, j + 1) \in Nat
          /\ i + 1 \in Nat /\ p \in Nat
        BY <1>0, <2>4, <3>1
    <3>3. CASE j < i
      <4>1. j + 1 <= i
          BY <2>4, <3>1, <3>3
      <4>2. Upto(tied, j + 1) <= Upto(tied, i)
          BY <2>4, <3>1, <4>1, UptoMonotone
      <4> QED
          BY <2>5, <3>1, <3>2, <4>2
    <3>4. CASE i < j
      <4>1. i + 1 <= j
          BY <2>4, <3>1, <3>4
      <4>2. Upto(tied, i + 1) <= Upto(tied, j)
          BY <3>1, <3>2, <4>1, UptoMonotone
      <4> QED
          BY <2>6, <3>1, <3>2, <4>2
    <3> QED
        BY <2>4, <3>1, <3>3, <3>4
  <2> QED
      BY <2>7, <2>8, <2>9
<1> QED
    BY <1>1, <1>2

\* Over one turn of the cursor every one of the equally loaded candidates is in
\* turn as often as its weight says, and one at each position, for every pool,
\* weights, routes and latencies.
THEOREM RoundRobinAlwaysExact == Spec => []RoundRobinExact
<1>1. ASSUME TypeOK, NEW allowed, NEW latency
      PROVE  Tied(Candidates(allowed), latency) \in SUBSET DOMAIN pool
    BY DEF Tied, Candidates, Considered
<1>2. TypeOK => RoundRobinExact
    BY <1>1, TurnsAreFair DEF RoundRobinExact
<1> QED
    BY <1>2, TypeCorrect, PTL

-----------------------------------------------------------------------------
(* The gauge *)

\* a stats object belongs to a generation that has been, and a call has one only
\* when it was sent
OldStats ==
    \A c \in Call :
        /\ calls[c].stats[1] <= generation
        /\ calls[c].phase \in {"idle", "picked"} => calls[c].stats = NoStats

GaugeInv == IInv /\ OldStats /\ ActiveCovers

Running(c) == calls[c].phase = "sent" /\ Captured(c)

\* what a step does that sends and ends nothing
GaugesKept ==
    /\ DOMAIN pool' = DOMAIN pool /\ generation' = generation
    /\ \A i \in DOMAIN pool : /\ pool'[i].active = pool[i].active
                              /\ pool'[i].address = pool[i].address
    /\ \A c \in Call : calls'[c] # calls[c] =>
          ~ Running(c) /\ calls'[c].phase # "sent" /\ calls'[c].stats = NoStats

LEMMA GaugesAlone ==
    ASSUME GaugeInv, IInv', IsFiniteSet(Call), GaugesKept
    PROVE  GaugeInv'
<1> USE DEF GaugesKept
<1>0. generation \in Nat
    BY DEF GaugeInv, IInv, TypeOK
<1>1. OldStats'
    BY <1>0 DEF GaugeInv, OldStats, NoStats
<1>2. ASSUME NEW i \in DOMAIN pool PROVE pool'[i].active >= Cardinality(CountedAt(i)')
  <2>1. CountedAt(i)' \subseteq CountedAt(i)
      BY DEF CountedAt
  <2>2. IsFiniteSet(CountedAt(i)) /\ Cardinality(CountedAt(i)) \in Nat
      BY FS_Subset, FS_CardinalityType DEF CountedAt
  <2>3. Cardinality(CountedAt(i)') <= Cardinality(CountedAt(i))
            /\ Cardinality(CountedAt(i)') \in Nat
      BY <2>1, <2>2, FS_Subset, FS_CardinalityType
  <2>4. pool[i].active \in Int /\ pool[i].active >= Cardinality(CountedAt(i))
    <3>1. pool[i] \in Entry
        BY DEF GaugeInv, IInv, TypeOK
    <3> QED
        BY <3>1 DEF GaugeInv, ActiveCovers, Entry
  <2> QED
      BY <2>2, <2>3, <2>4
<1>3. ActiveCovers'
    BY <1>2 DEF ActiveCovers
<1> QED
    BY <1>1, <1>3 DEF GaugeInv

LEMMA SelectionKeeps ==
    ASSUME GaugeInv, NEW c \in Call, NEW allowed, NEW latency,
           NextFor(c, allowed, latency)
    PROVE  GaugesKept
<1>1. ~ Running(c)
    BY DEF NextFor, Running
<1>2. \A j \in DOMAIN pool : /\ pool[j] \in Entry
                             /\ Refreshed(pool[j]) \in Entry
                             /\ Refreshed(pool[j]).active = pool[j].active
                             /\ Refreshed(pool[j]).address = pool[j].address
  <2> TAKE j \in DOMAIN pool
  <2>1. pool[j] \in Entry /\ EntryConsistent(pool[j])
      BY EntryFacts DEF GaugeInv, IInv
  <2>2. Refreshed(pool[j]) \in Entry
      BY <2>1, RefreshedEntry
  <2>3. /\ Refreshed(pool[j]).active = pool[j].active
        /\ Refreshed(pool[j]).address = pool[j].address
      BY <2>1 DEF Refreshed, Entry
  <2> QED
      BY <2>1, <2>2, <2>3
<1> DEFINE cands == Candidates(allowed)
<1>3. PICK i \in Tied(cands, latency) :
        LET halfOpen == Refreshed(pool[i]).breakerState = "half-open" IN
        /\ pool' = [j \in DOMAIN pool |->
              CASE j = i /\ halfOpen ->
                     [Refreshed(pool[j]) EXCEPT !.halfOpenInFlight = TRUE]
                [] j \in cands /\ ~ (j = i /\ halfOpen) -> Refreshed(pool[j])
                [] OTHER -> pool[j]]
        /\ calls' = [calls EXCEPT ![c] =
              [Idle EXCEPT !.phase = "picked", !.address = pool[i].address,
                           !.probe = halfOpen]]
    BY DEF NextFor
<1> DEFINE halfOpen == Refreshed(pool[i]).breakerState = "half-open"
<1>4. \A j \in DOMAIN pool :
         /\ [Refreshed(pool[j]) EXCEPT !.halfOpenInFlight = TRUE].active = pool[j].active
         /\ [Refreshed(pool[j]) EXCEPT !.halfOpenInFlight = TRUE].address = pool[j].address
    BY <1>2 DEF Entry
<1>5. /\ DOMAIN pool' = DOMAIN pool
      /\ \A j \in DOMAIN pool : /\ pool'[j].active = pool[j].active
                                /\ pool'[j].address = pool[j].address
    BY <1>2, <1>3, <1>4
<1>6. calls'[c].phase = "picked" /\ calls'[c].stats = NoStats
          /\ \A d \in Call : d # c => calls'[d] = calls[d]
  <2> DEFINE picked == [Idle EXCEPT !.phase = "picked", !.address = pool[i].address,
                                    !.probe = halfOpen]
  <2>1. picked.phase = "picked" /\ picked.stats = NoStats
      BY DEF Idle
  <2>2. calls' = [calls EXCEPT ![c] = picked]
      BY <1>3
  <2> HIDE DEF picked
  <2> QED
      BY <2>1, <2>2 DEF GaugeInv, IInv, TypeOK
<1>7. generation' = generation
    BY DEF NextFor
<1>8. \A d \in Call : calls'[d] # calls[d] =>
         ~ Running(d) /\ calls'[d].phase # "sent" /\ calls'[d].stats = NoStats
    BY <1>1, <1>6
<1> QED
    BY <1>5, <1>7, <1>8 DEF GaugesKept

LEMMA SendGauge ==
    ASSUME GaugeInv, IsFiniteSet(Call), NEW c \in Call, StartRequest(c)
    PROVE  GaugeInv'
<1> DEFINE a == calls[c].address
<1>1. IInv'
    BY StartRequestInv DEF GaugeInv
<1>2. calls \in [Call -> CallRecord] /\ calls[c] \in CallRecord /\ calls[c].phase = "picked"
    BY DEF GaugeInv, IInv, TypeOK, StartRequest
<1>3. \A i \in DOMAIN pool : pool[i] \in Entry /\ pool[i].active \in Int
  <2>1. \A i \in DOMAIN pool : pool[i] \in Entry
      BY DEF GaugeInv, IInv, TypeOK
  <2> QED
      BY <2>1 DEF Entry
<1>4. generation \in Nat /\ generation' = generation
    BY DEF GaugeInv, IInv, TypeOK, StartRequest
<1>5. \A i : IsFiniteSet(CountedAt(i)) /\ Cardinality(CountedAt(i)) \in Nat
    BY FS_Subset, FS_CardinalityType DEF CountedAt
<1>6. ASSUME NEW n \in DOMAIN pool, IsFirst(n, a),
             pool' = UpdateFirst(a, LAMBDA e : [e EXCEPT !.active = @ + 1]),
             calls' = [calls EXCEPT ![c].phase = "sent", ![c].stats = <<generation, n>>]
      PROVE  GaugeInv'
  <2>1. /\ calls'[c].phase = "sent" /\ calls'[c].stats = <<generation, n>>
        /\ \A d \in Call : d # c => calls'[d] = calls[d]
      BY <1>2, <1>6 DEF CallRecord
  <2>2. OldStats'
      BY <1>4, <2>1 DEF GaugeInv, OldStats
  <2>3. pool' = [k \in DOMAIN pool |->
                   IF IsFirst(k, a) THEN [pool[k] EXCEPT !.active = @ + 1] ELSE pool[k]]
      BY <1>6 DEF UpdateFirst
  <2>4. \A k \in DOMAIN pool :
           pool'[k].active = IF IsFirst(k, a) THEN pool[k].active + 1 ELSE pool[k].active
      BY <1>3, <2>3 DEF Entry
  <2>5. CountedAt(n)' = CountedAt(n) \cup {c} /\ c \notin CountedAt(n)
      BY <1>2, <1>4, <2>1 DEF CountedAt
  <2>6. \A k \in DOMAIN pool : k # n => CountedAt(k)' = CountedAt(k)
      BY <1>2, <1>4, <2>1 DEF CountedAt
  <2>7. Cardinality(CountedAt(n)') = Cardinality(CountedAt(n)) + 1
      BY <1>5, <2>5, FS_AddElement
  <2>8. \A k \in DOMAIN pool : pool'[k].active >= Cardinality(CountedAt(k)')
      BY <1>3, <1>5, <1>6, <2>4, <2>6, <2>7 DEF GaugeInv, ActiveCovers
  <2>9. ActiveCovers'
      BY <2>3, <2>8 DEF ActiveCovers
  <2> QED
      BY <1>1, <2>2, <2>9 DEF GaugeInv
<1>7. ASSUME calls' = [calls EXCEPT ![c].phase = "sent"], UNCHANGED pool, ~ Present(a)
      PROVE  GaugeInv'
  <2>1. /\ calls'[c].phase = "sent" /\ calls'[c].stats = calls[c].stats
        /\ \A d \in Call : d # c => calls'[d] = calls[d]
      BY <1>2, <1>7 DEF CallRecord
  <2>2. calls[c].stats = NoStats
      BY <1>2 DEF GaugeInv, OldStats
  <2>3. OldStats'
      BY <1>4, <2>1, <2>2 DEF GaugeInv, OldStats, NoStats
  <2>4. \A k \in DOMAIN pool : CountedAt(k)' \subseteq CountedAt(k)
    <3>1. \A k \in DOMAIN pool : k # 0
        BY DEF GaugeInv, IInv, TypeOK
    <3> QED
        BY <1>4, <2>1, <2>2, <3>1 DEF CountedAt, NoStats
  <2>5. \A k \in DOMAIN pool : CountedAt(k)' = CountedAt(k)
      BY <1>2, <1>4, <2>1, <2>4 DEF CountedAt
  <2>6. ActiveCovers'
      BY <1>7, <2>5 DEF GaugeInv, ActiveCovers
  <2> QED
      BY <1>1, <2>3, <2>6 DEF GaugeInv
<1> QED
    BY <1>6, <1>7 DEF StartRequest

LEMMA EndGauge ==
    ASSUME GaugeInv, IsFiniteSet(Call), NEW c \in Call, NEW failed \in BOOLEAN,
           FinishStats(c, failed)
    PROVE  GaugeInv'
<1>1. IInv'
    BY FinishStatsInv DEF GaugeInv
<1>2. calls \in [Call -> CallRecord] /\ calls[c] \in CallRecord /\ calls[c].phase = "sent"
    BY DEF GaugeInv, IInv, TypeOK, FinishStats
<1>3. \A i \in DOMAIN pool : pool[i] \in Entry /\ pool[i].active \in Int
  <2>1. \A i \in DOMAIN pool : pool[i] \in Entry
      BY DEF GaugeInv, IInv, TypeOK
  <2> QED
      BY <2>1 DEF Entry
<1>4. \A i : IsFiniteSet(CountedAt(i)) /\ Cardinality(CountedAt(i)) \in Nat
    BY FS_Subset, FS_CardinalityType DEF CountedAt
<1>5. /\ calls'[c].phase = "settling" /\ calls'[c].stats = calls[c].stats
      /\ \A d \in Call : d # c => calls'[d] = calls[d]
      /\ generation' = generation
    BY <1>2 DEF CallRecord, FinishStats
<1>6. OldStats'
    BY <1>5 DEF GaugeInv, OldStats
<1>7. pool' = [k \in DOMAIN pool |->
                 IF calls[c].stats = <<generation, k>>
                 THEN [pool[k] EXCEPT !.active = @ - 1] ELSE pool[k]]
    BY DEF FinishStats, Uncounted
<1>8. ASSUME NEW k \in DOMAIN pool PROVE pool'[k].active >= Cardinality(CountedAt(k)')
  <2>1. CASE calls[c].stats = <<generation, k>>
    <3>1. CountedAt(k)' = CountedAt(k) \ {c} /\ c \in CountedAt(k)
        BY <1>2, <1>5, <2>1 DEF CountedAt
    <3>2. Cardinality(CountedAt(k)') = Cardinality(CountedAt(k)) - 1
        BY <1>4, <3>1, FS_RemoveElement
    <3>3. pool'[k].active = pool[k].active - 1
        BY <1>3, <1>7, <2>1 DEF Entry
    <3> QED
        BY <1>3, <1>4, <3>2, <3>3 DEF GaugeInv, ActiveCovers
  <2>2. CASE calls[c].stats # <<generation, k>>
    <3>1. CountedAt(k)' = CountedAt(k)
        BY <1>5, <2>2 DEF CountedAt
    <3>2. pool'[k].active = pool[k].active
        BY <1>7, <2>2
    <3> QED
        BY <3>1, <3>2 DEF GaugeInv, ActiveCovers
  <2> QED
      BY <2>1, <2>2
<1>9. ActiveCovers'
    BY <1>7, <1>8 DEF ActiveCovers
<1> QED
    BY <1>1, <1>6, <1>9 DEF GaugeInv

\* No call is counted on the clones a reload makes, and no clone counts less
\* than none.
LEMMA ReloadGauge ==
    ASSUME GaugeInv, IsFiniteSet(Call), NEW list \in ReloadLists, Reconfigure(list)
    PROVE  GaugeInv'
<1>1. IInv'
    BY ReconfigureInv DEF GaugeInv
<1>2. generation \in Nat /\ generation' = generation + 1 /\ UNCHANGED calls
    BY DEF GaugeInv, IInv, TypeOK, Reconfigure
<1>3. calls \in [Call -> CallRecord]
    BY DEF GaugeInv, IInv, TypeOK
<1>4. \A c \in Call : calls[c].stats[1] \in Nat
    BY <1>3 DEF CallRecord
<1>5. OldStats'
    BY <1>2, <1>4 DEF GaugeInv, OldStats
<1>6. \A i : CountedAt(i)' = {}
  <2> SUFFICES ASSUME NEW i, NEW c \in Call, calls[c].stats = <<generation + 1, i>>
               PROVE  FALSE
      BY <1>2 DEF CountedAt
  <2>1. calls[c].stats[1] = generation + 1
      OBVIOUS
  <2> QED
      BY <1>2, <2>1 DEF GaugeInv, OldStats
<1>7. \A i \in DOMAIN pool : pool[i].active \in Int /\ pool[i].active >= 0
  <2> TAKE i \in DOMAIN pool
  <2>1. pool[i] \in Entry
      BY DEF GaugeInv, IInv, TypeOK
  <2>2. IsFiniteSet(CountedAt(i)) /\ Cardinality(CountedAt(i)) \in Nat
      BY FS_Subset, FS_CardinalityType DEF CountedAt
  <2> QED
      BY <2>1, <2>2 DEF Entry, GaugeInv, ActiveCovers
<1>8. PICK next \in [DOMAIN list -> UNION {Carried(list[k]) : k \in DOMAIN list}] :
         /\ \A k \in DOMAIN list : next[k] \in Carried(list[k])
         /\ pool' = next
    BY DEF Reconfigure
<1>9. \A k \in DOMAIN pool' : pool'[k].active >= 0
  <2> SUFFICES ASSUME NEW k \in DOMAIN list PROVE next[k].active >= 0
      BY <1>8
  <2>1. CASE Present(list[k])
      BY <1>7, <1>8, <2>1 DEF Carried, Clone
  <2>2. CASE ~ Present(list[k])
      BY <1>8, <2>2 DEF Carried, NewEntry
  <2> QED
      BY <2>1, <2>2
<1>10. ActiveCovers'
    BY <1>6, <1>9, FS_EmptySet DEF ActiveCovers
<1> QED
    BY <1>1, <1>5, <1>10 DEF GaugeInv

\* Settling, operators, health checks and time.
LEMMA OtherKeeps ==
    ASSUME GaugeInv,
           \/ \E c \in Call : FinishRequest(c) \/ FinishNothing(c)
           \/ \E address \in Address, action \in AdminActions : SetBackendState(address, action)
           \/ HealthSnapshot
           \/ \E ok \in ProbeResults : HealthProbe(ok)
           \/ Tick
    PROVE  GaugesKept
<1>1. \A i \in DOMAIN pool : pool[i] \in Entry
    BY DEF GaugeInv, IInv, TypeOK
<1>2. calls \in [Call -> CallRecord] /\ Idle.phase = "idle" /\ Idle.stats = NoStats
    BY DEF GaugeInv, IInv, TypeOK, Idle
<1>3. ASSUME NEW c \in Call, FinishRequest(c) PROVE GaugesKept
  <2>1. /\ pool' = [k \in DOMAIN pool |-> IF IsFirst(k, calls[c].address)
                     THEN Settled(pool[k], calls[c].failed) ELSE pool[k]]
        /\ calls' = [calls EXCEPT ![c] = Idle] /\ generation' = generation
      BY <1>3 DEF FinishRequest, UpdateFirst
  <2>2. \A k \in DOMAIN pool : /\ Settled(pool[k], calls[c].failed).active = pool[k].active
                              /\ Settled(pool[k], calls[c].failed).address = pool[k].address
      BY <1>1 DEF Settled, Entry
  <2>3. /\ DOMAIN pool' = DOMAIN pool
        /\ \A k \in DOMAIN pool : /\ pool'[k].active = pool[k].active
                                  /\ pool'[k].address = pool[k].address
      BY <2>1, <2>2
  <2>4. \A d \in Call : calls'[d] # calls[d] =>
             ~ Running(d) /\ calls'[d].phase # "sent" /\ calls'[d].stats = NoStats
      BY <1>2, <1>3, <2>1 DEF FinishRequest, Running
  <2>5. generation' = generation
      BY <2>1
  <2> QED
      BY <2>3, <2>4, <2>5 DEF GaugesKept
<1>4. ASSUME NEW c \in Call, FinishNothing(c) PROVE GaugesKept
  <2>1. UNCHANGED <<pool, generation>> /\ calls' = [calls EXCEPT ![c] = Idle]
      BY <1>4 DEF FinishNothing
  <2>2. \A d \in Call : calls'[d] # calls[d] =>
             ~ Running(d) /\ calls'[d].phase # "sent" /\ calls'[d].stats = NoStats
      BY <1>2, <1>4, <2>1 DEF FinishNothing, Running
  <2>3. /\ DOMAIN pool' = DOMAIN pool /\ generation' = generation
        /\ \A k \in DOMAIN pool : pool'[k].active = pool[k].active
                                  /\ pool'[k].address = pool[k].address
      BY <2>1
  <2> QED
      BY <2>2, <2>3 DEF GaugesKept
<1>5. ASSUME NEW address, NEW action, SetBackendState(address, action) PROVE GaugesKept
  <2>1. /\ pool' = [k \in DOMAIN pool |-> IF IsFirst(k, address)
                     THEN AfterAdmin(pool[k], action) ELSE pool[k]]
        /\ UNCHANGED <<calls, generation>>
      BY <1>5 DEF SetBackendState, UpdateFirst
  <2>2. \A k \in DOMAIN pool : /\ AfterAdmin(pool[k], action).active = pool[k].active
                              /\ AfterAdmin(pool[k], action).address = pool[k].address
      BY <1>1 DEF AfterAdmin, Entry
  <2>3. /\ DOMAIN pool' = DOMAIN pool
        /\ \A k \in DOMAIN pool : /\ pool'[k].active = pool[k].active
                                  /\ pool'[k].address = pool[k].address
      BY <2>1, <2>2
  <2>4. generation' = generation /\ \A c \in Call : calls'[c] = calls[c]
      BY <2>1
  <2> QED
      BY <2>3, <2>4 DEF GaugesKept
<1>6. CASE HealthSnapshot
    BY <1>6 DEF HealthSnapshot, GaugesKept
<1>7. ASSUME NEW ok, HealthProbe(ok) PROVE GaugesKept
  <2>1. /\ pool' = [k \in DOMAIN pool |-> IF pool[k].address = Head(sweep)
                     THEN AfterProbe(pool[k], ok) ELSE pool[k]]
        /\ UNCHANGED <<calls, generation>>
      BY <1>7 DEF HealthProbe, UpdateAll
  <2>2. \A k \in DOMAIN pool : /\ AfterProbe(pool[k], ok).active = pool[k].active
                              /\ AfterProbe(pool[k], ok).address = pool[k].address
      BY <1>1 DEF AfterProbe, Entry
  <2>3. /\ DOMAIN pool' = DOMAIN pool
        /\ \A k \in DOMAIN pool : /\ pool'[k].active = pool[k].active
                                  /\ pool'[k].address = pool[k].address
      BY <2>1, <2>2
  <2>4. generation' = generation /\ \A c \in Call : calls'[c] = calls[c]
      BY <2>1
  <2> QED
      BY <2>3, <2>4 DEF GaugesKept
<1>8. CASE Tick
  <2>1. /\ pool' = [k \in DOMAIN pool |-> IF pool[k].cooldown > 0
                     THEN [pool[k] EXCEPT !.cooldown = @ - 1] ELSE pool[k]]
        /\ UNCHANGED <<calls, generation>>
      BY <1>8 DEF Tick
  <2>2. \A k \in DOMAIN pool : /\ [pool[k] EXCEPT !.cooldown = @ - 1].active = pool[k].active
                              /\ [pool[k] EXCEPT !.cooldown = @ - 1].address = pool[k].address
      BY <1>1 DEF Entry
  <2>3. /\ DOMAIN pool' = DOMAIN pool
        /\ \A k \in DOMAIN pool : /\ pool'[k].active = pool[k].active
                                  /\ pool'[k].address = pool[k].address
      BY <2>1, <2>2
  <2>4. generation' = generation /\ \A c \in Call : calls'[c] = calls[c]
      BY <2>1
  <2> QED
      BY <2>3, <2>4 DEF GaugesKept
<1> QED
    BY <1>3, <1>4, <1>5, <1>6, <1>7, <1>8

LEMMA GaugeStep ==
    ASSUME GaugeInv, IsFiniteSet(Call), [Moves]_vars
    PROVE  GaugeInv'
<1>0. IInv'
    BY StepInv DEF GaugeInv
<1>1. ASSUME NEW c \in Call, CallMoves(c) PROVE GaugeInv'
    BY <1>0, <1>1, SelectionKeeps, OtherKeeps, GaugesAlone, SendGauge, EndGauge
       DEF CallMoves
<1>2. ASSUME Background PROVE GaugeInv'
    BY <1>0, <1>2, ReloadGauge, OtherKeeps, GaugesAlone DEF Background
<1>3. CASE UNCHANGED vars
  <2>1. IInv'
      BY <1>3, StepInv DEF GaugeInv
  <2> QED
      BY <1>3, <2>1 DEF vars, GaugeInv, OldStats, ActiveCovers, CountedAt
<1> QED
    BY <1>1, <1>2, <1>3 DEF Moves

LEMMA GaugeInit ==
    ASSUME Init
    PROVE  GaugeInv
<1>1. IInv
    BY InitInv
<1>2. Idle.phase = "idle" /\ Idle.stats = <<0, 0>>
    BY DEF Idle, NoStats
<1>3. \A c \in Call : calls[c] = Idle
    BY DEF Init
<1>4. OldStats
    BY <1>2, <1>3 DEF Init, OldStats, NoStats
<1>5. \A i : CountedAt(i) = {}
    BY <1>2, <1>3 DEF CountedAt
<1>6. \A i \in DOMAIN pool : pool[i].active = 0
    BY DEF Init, NewEntry
<1>7. ActiveCovers
    BY <1>5, <1>6, FS_EmptySet DEF ActiveCovers
<1> QED
    BY <1>1, <1>4, <1>7 DEF GaugeInv

\* The gauge never misses a running call, for any finite number of call slots
\* and any number of reloads in between: it can only be too high.
THEOREM ActiveAlwaysCovers == IsFiniteSet(Call) => (Spec => []ActiveCovers)
<1> SUFFICES ASSUME IsFiniteSet(Call) PROVE Spec => []ActiveCovers
    OBVIOUS
<1>1. Init => GaugeInv
    BY GaugeInit
<1>2. GaugeInv /\ [Next]_vars => GaugeInv'
    BY GaugeStep, NextMoves
<1>3. GaugeInv => ActiveCovers
    BY DEF GaugeInv
<1> QED
    BY <1>1, <1>2, <1>3, PTL DEF Spec

\* the call is counted at the first entry of its address
CountedFirst(c) ==
    \E i \in DOMAIN pool : /\ calls[c].stats = <<generation, i>>
                           /\ IsFirst(i, calls[c].address)

\* Until a reload copies the stats objects, each gauge is the number of calls
\* counted on its object.
Exact ==
    generation = 0 =>
        /\ \A i \in DOMAIN pool : pool[i].active = Cardinality(CountedAt(i))
        /\ \A c \in Call : Running(c) => CountedFirst(c)

LEMMA CountedFinite ==
    ASSUME IsFiniteSet(Call), NEW i
    PROVE  IsFiniteSet(CountedAt(i)) /\ Cardinality(CountedAt(i)) \in Nat
BY FS_Subset, FS_CardinalityType DEF CountedAt

\* A search for an address stops at one entry.
LEMMA FirstUnique ==
    ASSUME TypeOK, NEW i \in DOMAIN pool, NEW j \in DOMAIN pool, NEW a,
           IsFirst(i, a), IsFirst(j, a)
    PROVE  i = j
<1>1. i \in Nat /\ j \in Nat /\ 1 <= i /\ 1 <= j
    BY DEF TypeOK
<1>2. ~ j \in 1..(i - 1) /\ ~ i \in 1..(j - 1)
    BY DEF IsFirst
<1> QED
    BY <1>1, <1>2

LEMMA KeptExact ==
    ASSUME GaugeInv, Exact, GaugesKept
    PROVE  Exact'
<1> SUFFICES ASSUME generation = 0
             PROVE  Exact'
    BY DEF Exact, GaugesKept
<1>0. TypeOK
    BY DEF GaugeInv, IInv
<1>1. ASSUME NEW i \in DOMAIN pool
      PROVE  CountedAt(i)' = CountedAt(i)
  <2>1. i # 0
      BY <1>0 DEF TypeOK
  <2>2. \A c \in Call : calls[c].stats = <<generation, i>> => Captured(c)
      BY <2>1 DEF Captured, NoStats
  <2>3. NoStats # <<generation, i>>
      BY <2>1 DEF NoStats
  <2> QED
      BY <2>2, <2>3 DEF GaugesKept, CountedAt, Running
<1>2. \A i \in DOMAIN pool : pool'[i].active = Cardinality(CountedAt(i)')
    BY <1>1 DEF Exact, GaugesKept
<1>3. ASSUME NEW c \in Call, Running(c)'
      PROVE  CountedFirst(c)'
  <2>1. calls'[c] = calls[c] /\ Running(c)
      BY <1>3 DEF GaugesKept, Running, Captured
  <2>2. CountedFirst(c)
      BY <2>1 DEF Exact
  <2>3. \A i \in DOMAIN pool : 1..(i - 1) \subseteq DOMAIN pool
      BY <1>0 DEF TypeOK
  <2> QED
      BY <2>1, <2>2, <2>3 DEF CountedFirst, IsFirst, GaugesKept
<1>4. DOMAIN pool' = DOMAIN pool
    BY DEF GaugesKept
<1> QED
    BY <1>2, <1>3, <1>4 DEF Exact

LEMMA SendExact ==
    ASSUME GaugeInv, Exact, IsFiniteSet(Call), NEW c \in Call, StartRequest(c)
    PROVE  Exact'
<1> DEFINE a == calls[c].address
<1>1. /\ generation' = generation
      /\ calls[c] \in CallRecord /\ calls[c].phase = "picked" /\ calls[c].stats = NoStats
      /\ calls \in [Call -> CallRecord]
    BY DEF StartRequest, GaugeInv, IInv, TypeOK, OldStats
<1> SUFFICES ASSUME generation = 0
             PROVE  Exact'
    BY <1>1 DEF Exact
<1>2. /\ \A i \in DOMAIN pool : pool[i] \in Entry /\ i # 0
      /\ \A i \in DOMAIN pool : 1..(i - 1) \subseteq DOMAIN pool
    BY DEF GaugeInv, IInv, TypeOK
<1>3. ASSUME NEW n \in DOMAIN pool, IsFirst(n, a),
             pool' = UpdateFirst(a, LAMBDA e : [e EXCEPT !.active = @ + 1]),
             calls' = [calls EXCEPT ![c].phase = "sent", ![c].stats = <<generation, n>>]
      PROVE  Exact'
  <2>1. /\ calls'[c].phase = "sent" /\ calls'[c].stats = <<generation, n>>
        /\ calls'[c].address = a
        /\ \A d \in Call : d # c => calls'[d] = calls[d]
      BY <1>1, <1>3 DEF CallRecord
  <2>2. \A k \in DOMAIN pool : IsFirst(k, a) <=> k = n
      BY <1>3, FirstUnique DEF GaugeInv, IInv
  <2>3. pool' = [k \in DOMAIN pool |->
                   IF k = n THEN [pool[k] EXCEPT !.active = @ + 1] ELSE pool[k]]
      BY <1>3, <2>2 DEF UpdateFirst
  <2>4. /\ DOMAIN pool' = DOMAIN pool
        /\ \A k \in DOMAIN pool :
             /\ pool'[k].active = IF k = n THEN pool[k].active + 1 ELSE pool[k].active
             /\ pool'[k].address = pool[k].address
      BY <1>2, <2>3 DEF Entry
  <2>5. CountedAt(n)' = CountedAt(n) \cup {c} /\ c \notin CountedAt(n)
      BY <1>1, <2>1 DEF CountedAt
  <2>6. \A k \in DOMAIN pool : k # n => CountedAt(k)' = CountedAt(k)
      BY <1>1, <2>1 DEF CountedAt
  <2>7. Cardinality(CountedAt(n)') = Cardinality(CountedAt(n)) + 1
      BY <2>5, CountedFinite, FS_AddElement
  <2>8. \A k \in DOMAIN pool : pool'[k].active = Cardinality(CountedAt(k)')
      BY <2>4, <2>6, <2>7 DEF Exact
  <2>9. ASSUME NEW d \in Call, Running(d)'
        PROVE  CountedFirst(d)'
    <3>1. CASE d = c
        BY <1>1, <1>2, <1>3, <2>1, <2>4, <3>1 DEF CountedFirst, IsFirst
    <3>2. CASE d # c
      <4>1. Running(d) /\ calls'[d] = calls[d]
          BY <2>1, <2>9, <3>2 DEF Running, Captured
      <4>2. CountedFirst(d)
          BY <4>1 DEF Exact
      <4> QED
          BY <1>1, <1>2, <2>4, <4>1, <4>2 DEF CountedFirst, IsFirst
    <3> QED
        BY <3>1, <3>2
  <2> QED
      BY <2>4, <2>8, <2>9 DEF Exact
<1>4. ASSUME calls' = [calls EXCEPT ![c].phase = "sent"], UNCHANGED pool
      PROVE  Exact'
  <2>1. /\ calls'[c].stats = NoStats
        /\ \A d \in Call : d # c => calls'[d] = calls[d]
      BY <1>1, <1>4 DEF CallRecord
  <2>2. \A k \in DOMAIN pool : CountedAt(k)' = CountedAt(k)
      BY <1>1, <1>2, <2>1 DEF CountedAt, NoStats
  <2>3. ASSUME NEW d \in Call, Running(d)'
        PROVE  CountedFirst(d)'
    <3>1. d # c /\ Running(d) /\ calls'[d] = calls[d]
        BY <2>1, <2>3 DEF Running, Captured
    <3>2. CountedFirst(d)
        BY <3>1 DEF Exact
    <3> QED
        BY <1>1, <1>4, <3>1, <3>2 DEF CountedFirst, IsFirst
  <2> QED
      BY <1>4, <2>2, <2>3 DEF Exact
<1> QED
    BY <1>3, <1>4 DEF StartRequest

LEMMA EndExact ==
    ASSUME GaugeInv, Exact, IsFiniteSet(Call), NEW c \in Call, NEW failed,
           FinishStats(c, failed)
    PROVE  Exact'
<1>1. /\ generation' = generation
      /\ calls[c] \in CallRecord /\ calls[c].phase = "sent"
      /\ calls \in [Call -> CallRecord]
    BY DEF FinishStats, GaugeInv, IInv, TypeOK
<1> SUFFICES ASSUME generation = 0
             PROVE  Exact'
    BY <1>1 DEF Exact
<1>2. /\ \A i \in DOMAIN pool : pool[i] \in Entry
      /\ \A i \in DOMAIN pool : 1..(i - 1) \subseteq DOMAIN pool
    BY DEF GaugeInv, IInv, TypeOK
<1>3. /\ calls'[c].phase = "settling" /\ calls'[c].stats = calls[c].stats
      /\ \A d \in Call : d # c => calls'[d] = calls[d]
    BY <1>1 DEF CallRecord, FinishStats
<1>4. pool' = [k \in DOMAIN pool |->
                 IF calls[c].stats = <<generation, k>>
                 THEN [pool[k] EXCEPT !.active = @ - 1] ELSE pool[k]]
    BY DEF FinishStats, Uncounted
<1>5. /\ DOMAIN pool' = DOMAIN pool
      /\ \A k \in DOMAIN pool :
           /\ pool'[k].active = IF calls[c].stats = <<generation, k>>
                                THEN pool[k].active - 1 ELSE pool[k].active
           /\ pool'[k].address = pool[k].address
    BY <1>2, <1>4 DEF Entry
<1>6. ASSUME NEW k \in DOMAIN pool
      PROVE  pool'[k].active = Cardinality(CountedAt(k)')
  <2>1. CASE calls[c].stats = <<generation, k>>
    <3>1. CountedAt(k)' = CountedAt(k) \ {c} /\ c \in CountedAt(k)
        BY <1>1, <1>3, <2>1 DEF CountedAt
    <3>2. Cardinality(CountedAt(k)') = Cardinality(CountedAt(k)) - 1
        BY <3>1, CountedFinite, FS_RemoveElement
    <3> QED
        BY <1>5, <2>1, <3>2 DEF Exact
  <2>2. CASE calls[c].stats # <<generation, k>>
    <3>1. CountedAt(k)' = CountedAt(k)
        BY <1>1, <1>3, <2>2 DEF CountedAt
    <3> QED
        BY <1>5, <2>2, <3>1 DEF Exact
  <2> QED
      BY <2>1, <2>2
<1>7. ASSUME NEW d \in Call, Running(d)'
      PROVE  CountedFirst(d)'
  <2>1. d # c /\ Running(d) /\ calls'[d] = calls[d]
      BY <1>3, <1>7 DEF Running, Captured
  <2>2. CountedFirst(d)
      BY <2>1 DEF Exact
  <2> QED
      BY <1>1, <1>2, <1>5, <2>1, <2>2 DEF CountedFirst, IsFirst
<1> QED
    BY <1>5, <1>6, <1>7 DEF Exact

LEMMA ExactStep ==
    ASSUME GaugeInv, Exact, IsFiniteSet(Call), [Moves]_vars
    PROVE  Exact'
<1>1. ASSUME NEW c \in Call, CallMoves(c) PROVE Exact'
    BY <1>1, SelectionKeeps, OtherKeeps, KeptExact, SendExact, EndExact DEF CallMoves
<1>2. ASSUME NEW list \in ReloadLists, Reconfigure(list) PROVE Exact'
  <2>1. generation \in Nat /\ generation' = generation + 1
      BY <1>2 DEF Reconfigure, GaugeInv, IInv, TypeOK
  <2> QED
      BY <2>1 DEF Exact
<1>3. ASSUME Background PROVE Exact'
    BY <1>2, <1>3, OtherKeeps, KeptExact DEF Background
<1>4. CASE UNCHANGED vars
    BY <1>4 DEF vars, Exact, CountedAt, Running, Captured, CountedFirst, IsFirst
<1> QED
    BY <1>1, <1>3, <1>4 DEF Moves

LEMMA ExactInit ==
    ASSUME Init
    PROVE  Exact
<1>1. Idle.phase = "idle"
    BY DEF Idle
<1>2. \A i : CountedAt(i) = {}
    BY <1>1 DEF Init, CountedAt
<1>3. \A i \in DOMAIN pool : pool[i].active = 0
    BY DEF Init, NewEntry
<1>4. \A c \in Call : ~ Running(c)
    BY <1>1 DEF Init, Running
<1> QED
    BY <1>2, <1>3, <1>4, FS_EmptySet DEF Exact

\* What holds of each stats object is what GaugeExact says of addresses.
LEMMA ExactIsGauge ==
    ASSUME GaugeInv, Exact, generation = 0
    PROVE  GaugeExact
<1> SUFFICES ASSUME NEW i \in DOMAIN pool, First(i)
             PROVE  pool[i].active =
                      Cardinality({c \in Call : /\ calls[c].phase = "sent"
                                                /\ Captured(c)
                                                /\ calls[c].address = pool[i].address})
    BY DEF GaugeExact
<1>1. TypeOK /\ i # 0
    BY DEF GaugeInv, IInv, TypeOK
<1>2. ASSUME NEW c \in Call, Running(c)
      PROVE  calls[c].stats = <<generation, i>> <=> calls[c].address = pool[i].address
  <2>1. PICK k \in DOMAIN pool : /\ calls[c].stats = <<generation, k>>
                                 /\ IsFirst(k, calls[c].address)
      BY <1>2 DEF Exact, CountedFirst
  <2>2. calls[c].address = pool[i].address => k = i
      BY <1>1, <2>1, FirstUnique DEF First
  <2>3. pool[k].address = calls[c].address
      BY <2>1 DEF IsFirst
  <2> QED
      BY <2>1, <2>2, <2>3
<1>3. \A c \in Call : calls[c].stats = <<generation, i>> => Captured(c)
    BY <1>1 DEF Captured, NoStats
<1>4. CountedAt(i) = {c \in Call : /\ calls[c].phase = "sent"
                                   /\ Captured(c)
                                   /\ calls[c].address = pool[i].address}
    BY <1>2, <1>3 DEF CountedAt, Running
<1> QED
    BY <1>4 DEF Exact

\* Before the first reload the gauge of an address is exactly the number of
\* calls sent to it and not yet finished, for any finite number of call slots,
\* repeated addresses included; the run PoolGaugeLeak shows it wrong after one.
THEOREM GaugeExactUntilReload ==
    IsFiniteSet(Call) => (Spec => [](generation = 0 => GaugeExact))
<1> SUFFICES ASSUME IsFiniteSet(Call)
             PROVE  Spec => [](generation = 0 => GaugeExact)
    OBVIOUS
<1>1. Init => GaugeInv /\ Exact
    BY GaugeInit, ExactInit
<1>2. (GaugeInv /\ Exact) /\ [Next]_vars => (GaugeInv /\ Exact)'
    BY GaugeStep, ExactStep, NextMoves
<1>3. GaugeInv /\ Exact => (generation = 0 => GaugeExact)
    BY ExactIsGauge
<1> QED
    BY <1>1, <1>2, <1>3, PTL DEF Spec

-----------------------------------------------------------------------------
(* The operator's decisions *)

Distinct == \A i, j \in DOMAIN pool : pool[i].address = pool[j].address => i = j

\* An update that keeps what the operator decided keeps it for each address.
LEMMA ServiceKept ==
    ASSUME DOMAIN pool' = DOMAIN pool,
           \A i \in DOMAIN pool : /\ pool'[i].address = pool[i].address
                                  /\ pool'[i].disabled = pool[i].disabled
                                  /\ pool'[i].draining = pool[i].draining
    PROVE  /\ Distinct => Distinct'
           /\ \A address : InService(address)' <=> InService(address)
BY DEF Distinct, InService

\* what one step promises
Decided ==
    /\ \A c \in Call :
         calls[c].phase = "idle" /\ calls'[c].phase = "picked" => InService(calls'[c].address)
    /\ \A address \in Address :
         Present(address) /\ Present(address)' /\ InService(address) # InService(address)'
             => \E action \in AdminActions : SetBackendState(address, action)

\* A step that keeps the decisions and selects nothing.
LEMMA QuietDecided ==
    ASSUME Distinct, \A address : InService(address)' <=> InService(address),
           DOMAIN pool' = DOMAIN pool,
           \A i \in DOMAIN pool : pool'[i].address = pool[i].address,
           \A c \in Call : calls'[c].phase = "picked" => calls[c].phase = "picked"
    PROVE  Decided /\ Distinct'
<1>1. Distinct'
    BY DEF Distinct
<1>2. \A address : InService(address) = InService(address)'
    BY DEF InService
<1> QED
    BY <1>1, <1>2 DEF Decided

LEMMA SelectionDecided ==
    ASSUME IInv, Distinct, NEW c \in Call, NEW allowed, NEW latency,
           NextFor(c, allowed, latency)
    PROVE  Decided /\ Distinct'
<1>1. \A j \in DOMAIN pool : /\ pool[j] \in Entry
                             /\ Refreshed(pool[j]) \in Entry
                             /\ Refreshed(pool[j]).address = pool[j].address
                             /\ Refreshed(pool[j]).disabled = pool[j].disabled
                             /\ Refreshed(pool[j]).draining = pool[j].draining
  <2> TAKE j \in DOMAIN pool
  <2>1. pool[j] \in Entry /\ EntryConsistent(pool[j])
      BY EntryFacts DEF IInv
  <2>2. Refreshed(pool[j]) \in Entry /\ Refreshed(pool[j]).address = pool[j].address
      BY <2>1, RefreshedEntry
  <2>3. /\ Refreshed(pool[j]).disabled = pool[j].disabled
        /\ Refreshed(pool[j]).draining = pool[j].draining
      BY <2>1 DEF Refreshed, Entry
  <2> QED
      BY <2>1, <2>2, <2>3
<1> DEFINE cands == Candidates(allowed)
           taken(j) == [Refreshed(pool[j]) EXCEPT !.halfOpenInFlight = TRUE]
<1>2. PICK i \in Tied(cands, latency) :
        LET halfOpen == Refreshed(pool[i]).breakerState = "half-open" IN
        /\ pool' = [j \in DOMAIN pool |->
              CASE j = i /\ halfOpen -> taken(j)
                [] j \in cands /\ ~ (j = i /\ halfOpen) -> Refreshed(pool[j])
                [] OTHER -> pool[j]]
        /\ calls' = [calls EXCEPT ![c] =
              [Idle EXCEPT !.phase = "picked", !.address = pool[i].address,
                           !.probe = halfOpen]]
    BY DEF NextFor
<1>3. \A j \in DOMAIN pool : /\ taken(j).address = pool[j].address
                             /\ taken(j).disabled = pool[j].disabled
                             /\ taken(j).draining = pool[j].draining
    BY <1>1 DEF Entry
<1>4. /\ DOMAIN pool' = DOMAIN pool
      /\ \A j \in DOMAIN pool : /\ pool'[j].address = pool[j].address
                                /\ pool'[j].disabled = pool[j].disabled
                                /\ pool'[j].draining = pool[j].draining
    <2> HIDE DEF taken
    <2> QED
        BY <1>1, <1>2, <1>3
<1>5. calls'[c].address = pool[i].address /\ \A d \in Call : d # c => calls'[d] = calls[d]
  <2> DEFINE picked == [Idle EXCEPT !.phase = "picked", !.address = pool[i].address,
                                    !.probe = Refreshed(pool[i]).breakerState = "half-open"]
  <2>1. picked.address = pool[i].address
      BY DEF Idle
  <2>2. calls' = [calls EXCEPT ![c] = picked]
      BY <1>2
  <2> HIDE DEF picked
  <2> QED
      BY <2>1, <2>2 DEF IInv, TypeOK
<1>6. i \in DOMAIN pool /\ ~ pool[i].disabled /\ ~ pool[i].draining
    BY DEF Tied, Candidates, Considered
<1>7. InService(pool[i].address)
    BY <1>6 DEF InService, Distinct
<1>8. Distinct' /\ \A address : InService(address) = InService(address)'
    BY <1>4 DEF Distinct, InService
<1> QED
    BY <1>5, <1>7, <1>8 DEF Decided

LEMMA CallDecided ==
    ASSUME IInv, Distinct, NEW c \in Call,
           StartRequest(c) \/ (\E failed \in BOOLEAN : FinishStats(c, failed))
              \/ FinishRequest(c) \/ FinishNothing(c)
    PROVE  Decided /\ Distinct'
<1>1. \A i \in DOMAIN pool : pool[i] \in Entry
    BY DEF IInv, TypeOK
<1>2. \A d \in Call : calls'[d].phase = "picked" => calls[d].phase = "picked"
  <2>1. Idle.phase = "idle"
      BY DEF Idle
  <2> QED
      BY <2>1 DEF IInv, TypeOK, CallRecord, StartRequest, FinishStats, FinishRequest, FinishNothing
<1>3. /\ DOMAIN pool' = DOMAIN pool
      /\ \A i \in DOMAIN pool : /\ pool'[i].address = pool[i].address
                                /\ pool'[i].disabled = pool[i].disabled
                                /\ pool'[i].draining = pool[i].draining
  <2>1. CASE UNCHANGED pool
      BY <2>1
  <2>2. CASE \E n : pool' = UpdateFirst(n, LAMBDA e : [e EXCEPT !.active = @ + 1])
      BY <1>1, <2>2 DEF UpdateFirst, Entry
  <2>3. CASE \E failed : pool' = Uncounted(c, failed)
      BY <1>1, <2>3 DEF Uncounted, Entry
  <2>4. CASE pool' = UpdateFirst(calls[c].address, LAMBDA e : Settled(e, calls[c].failed))
    <3>1. \A i \in DOMAIN pool : LET e == Settled(pool[i], calls[c].failed)
                                 IN  /\ e.address = pool[i].address
                                     /\ e.disabled = pool[i].disabled
                                     /\ e.draining = pool[i].draining
        BY <1>1 DEF Settled, Entry
    <3> QED
        BY <2>4, <3>1 DEF UpdateFirst
  <2> QED
      BY <2>1, <2>2, <2>3, <2>4 DEF StartRequest, FinishStats, FinishRequest, FinishNothing
<1>4. \A address : InService(address)' <=> InService(address)
    BY <1>3, ServiceKept
<1> QED
    BY <1>2, <1>3, <1>4, QuietDecided

LEMMA CheckDecided ==
    ASSUME IInv, Distinct, HealthSnapshot \/ Tick \/ (\E ok \in ProbeResults : HealthProbe(ok))
    PROVE  Decided /\ Distinct'
<1>1. \A i \in DOMAIN pool : pool[i] \in Entry
    BY DEF IInv, TypeOK
<1>2. UNCHANGED calls
    BY DEF HealthSnapshot, Tick, HealthProbe
<1>3. /\ DOMAIN pool' = DOMAIN pool
      /\ \A i \in DOMAIN pool : /\ pool'[i].address = pool[i].address
                                /\ pool'[i].disabled = pool[i].disabled
                                /\ pool'[i].draining = pool[i].draining
  <2>1. CASE HealthSnapshot
      BY <2>1 DEF HealthSnapshot
  <2>2. CASE Tick
      BY <1>1, <2>2 DEF Tick, Entry
  <2>3. CASE \E ok \in ProbeResults : HealthProbe(ok)
    <3>1. PICK ok \in ProbeResults : HealthProbe(ok)
        BY <2>3
    <3>2. \A i \in DOMAIN pool : LET e == AfterProbe(pool[i], ok)
                                 IN  /\ e.address = pool[i].address
                                     /\ e.disabled = pool[i].disabled
                                     /\ e.draining = pool[i].draining
        BY <1>1 DEF AfterProbe, Entry
    <3> QED
        BY <3>1, <3>2 DEF HealthProbe, UpdateAll
  <2> QED
      BY <2>1, <2>2, <2>3
<1>4. \A address : InService(address)' <=> InService(address)
    BY <1>3, ServiceKept
<1>5. \A c \in Call : calls'[c].phase = "picked" => calls[c].phase = "picked"
    BY <1>2
<1> QED
    BY <1>3, <1>4, <1>5, QuietDecided

LEMMA AdminDecided ==
    ASSUME IInv, Distinct, NEW a \in Address, NEW action \in AdminActions,
           SetBackendState(a, action)
    PROVE  Decided /\ Distinct'
<1>1. \A i \in DOMAIN pool : pool[i] \in Entry
    BY DEF IInv, TypeOK
<1>2. UNCHANGED calls
    BY DEF SetBackendState
<1>3. pool' = [k \in DOMAIN pool |->
                 IF IsFirst(k, a) THEN AfterAdmin(pool[k], action) ELSE pool[k]]
    BY DEF SetBackendState, UpdateFirst
<1>4. \A k \in DOMAIN pool : AfterAdmin(pool[k], action).address = pool[k].address
    BY <1>1 DEF AfterAdmin, Entry
<1>5. /\ DOMAIN pool' = DOMAIN pool
      /\ \A k \in DOMAIN pool : /\ pool'[k].address = pool[k].address
                                /\ pool[k].address # a => pool'[k] = pool[k]
    BY <1>3, <1>4 DEF IsFirst
<1>6. Distinct'
    BY <1>5 DEF Distinct
<1>7. \A address : address # a => (InService(address) = InService(address)')
    BY <1>5 DEF InService
<1> QED
    BY <1>2, <1>6, <1>7 DEF Decided

\* A reload keeps the clone of the only entry of an address.
LEMMA ReloadDecided ==
    ASSUME IInv, Distinct, NEW list \in ReloadLists, Reconfigure(list)
    PROVE  Decided /\ Distinct'
<1>1. UNCHANGED calls
    BY DEF Reconfigure
<1>2. \A j, k \in DOMAIN list : list[j] = list[k] => j = k
    BY ReloadAssumption
<1>3. PICK next \in [DOMAIN list -> UNION {Carried(list[k]) : k \in DOMAIN list}] :
         /\ \A k \in DOMAIN list : next[k] \in Carried(list[k])
         /\ pool' = next
    BY DEF Reconfigure
<1>4. ASSUME NEW k \in DOMAIN list
      PROVE  /\ next[k].address = list[k]
             /\ Present(list[k]) => \E i \in DOMAIN pool : next[k] = pool[i]
  <2>1. CASE Present(list[k])
    <3>1. PICK i \in DOMAIN pool : IsLast(i, list[k]) /\ next[k] = pool[i]
        BY <1>3, <2>1 DEF Carried, Clone
    <3> QED
        BY <3>1 DEF IsLast
  <2>2. CASE ~ Present(list[k])
    <3>1. next[k] = NewEntry(list[k], 0)
        BY <1>3, <2>2 DEF Carried
    <3> QED
        BY <2>2, <3>1 DEF NewEntry
  <2> QED
      BY <2>1, <2>2
<1>5. DOMAIN pool' = DOMAIN list
    BY <1>3
<1>6. Distinct'
    BY <1>2, <1>3, <1>4, <1>5 DEF Distinct
<1>7. ASSUME NEW address, Present(address), Present(address)'
      PROVE  InService(address) = InService(address)'
  <2>1. PICK k \in DOMAIN list : list[k] = address
      BY <1>3, <1>4, <1>5, <1>7 DEF Present
  <2>2. PICK i \in DOMAIN pool : next[k] = pool[i]
      BY <1>4, <1>7, <2>1
  <2>3. pool[i].address = address
      BY <1>4, <2>1, <2>2
  <2>4. InService(address) <=> ~ pool[i].disabled /\ ~ pool[i].draining
      BY <2>3 DEF InService, Distinct
  <2>5. InService(address)' <=> ~ next[k].disabled /\ ~ next[k].draining
      BY <1>2, <1>3, <1>4, <1>5, <2>1 DEF InService
  <2>6. InService(address) <=> InService(address)'
      BY <2>2, <2>4, <2>5
  <2> QED
      BY <2>6 DEF InService
<1> QED
    BY <1>1, <1>6, <1>7 DEF Decided

LEMMA StepDecided ==
    ASSUME IInv, Distinct, Moves
    PROVE  Decided /\ Distinct'
<1>1. ASSUME NEW c \in Call, CallMoves(c) PROVE Decided /\ Distinct'
    BY <1>1, SelectionDecided, CallDecided DEF CallMoves
<1>2. ASSUME Background PROVE Decided /\ Distinct'
    BY <1>2, AdminDecided, ReloadDecided, CheckDecided DEF Background
<1> QED
    BY <1>1, <1>2 DEF Moves

\* The configuration lists no address twice.
NoRepeats ==
    \A i, j \in DOMAIN InitialBackends :
        InitialBackends[i].address = InitialBackends[j].address => i = j

\* Where no address is listed twice, no call goes to a backend out of service
\* and only an admin action on it changes that, whatever reloads, health checks
\* and calls come between.
THEOREM OperatorAlwaysDecides == NoRepeats => (Spec => OperatorDecides)
<1> SUFFICES ASSUME NoRepeats PROVE Spec => OperatorDecides
    OBVIOUS
<1>1. Init => IInv /\ Distinct
    BY InitInv DEF Init, NewEntry, Distinct, NoRepeats
<1>2. IInv /\ Distinct /\ [Next]_vars => (IInv /\ Distinct)'
  <2>1. ASSUME UNCHANGED vars, Distinct PROVE Distinct'
      BY <2>1 DEF vars, Distinct
  <2> QED
      BY <2>1, StepInv, StepDecided, NextMoves
<1>3. IInv /\ Distinct /\ [Next]_vars => [Decided]_vars
    BY StepDecided, NextMoves
<1> QED
    BY <1>1, <1>2, <1>3, PTL DEF Spec, OperatorDecides, Decided
=============================================================================
