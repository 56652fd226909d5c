------------------------- MODULE LocalLimiter_proofs -------------------------
(***************************************************************************)
(* Proofs about LocalLimiter, for every window, limit and block and every  *)
(* number of users and of concurrent evaluations.                          *)
(***************************************************************************)
EXTENDS LocalLimiter, Counting_proofs, TLAPS

LInv == TypeOK /\ BlockNeedsFull /\ RetryAfterHolds

LEMMA TimesNat == Times \subseteq Nat
BY LimiterAssumption DEF Times

\* A renewed bucket is a bucket whose block, if any, stands on a full count.
LEMMA RenewedBucket ==
    ASSUME NEW b \in Bucket, NEW now \in Nat,
           b.blockedTill # Never => b.count >= Limit
    PROVE  /\ Renewed(b, now) \in Bucket
           /\ Renewed(b, now).blockedTill # Never => Renewed(b, now).count >= Limit
<1>1. CASE b.windowStart = Never \/ now - b.windowStart >= Window
  <2>1. Renewed(b, now) = [NoBucket EXCEPT !.windowStart = now]
      BY <1>1 DEF Renewed
  <2> QED
      BY <2>1, LimiterAssumption DEF NoBucket, Bucket, Never
<1>2. CASE ~ (b.windowStart = Never \/ now - b.windowStart >= Window)
    BY <1>2 DEF Renewed
<1> QED
    BY <1>1, <1>2

\* Once the window is over a bucket admits.
LEMMA AdmitsAfterWindow ==
    ASSUME NEW b \in Bucket, NEW t \in Nat, t >= b.windowStart + Window
    PROVE  WouldAdmit(b, t)
<1>1. t - b.windowStart >= Window
    BY LimiterAssumption DEF Bucket
<1>2. Renewed(b, t) = [NoBucket EXCEPT !.windowStart = t]
    BY <1>1 DEF Renewed
<1> QED
    BY <1>2, LimiterAssumption DEF WouldAdmit, Blocked, Full, NoBucket, Never

LEMMA InitInv ==
    ASSUME Init
    PROVE  LInv
<1>1. NoBucket \in Bucket
    BY LimiterAssumption DEF NoBucket, Bucket, Never
<1>2. TypeOK
    BY <1>1, LimiterAssumption DEF Init, TypeOK, Times, Answers, Never
<1>3. BlockNeedsFull /\ RetryAfterHolds
    BY DEF Init, BlockNeedsFull, RetryAfterHolds, NoBucket
<1> QED
    BY <1>2, <1>3 DEF LInv

LEMMA ReadClockInv ==
    ASSUME LInv, NEW c \in Call, NEW u \in User, ReadClock(c, u)
    PROVE  LInv'
<1>1. TypeOK'
    BY TimesNat DEF LInv, TypeOK, ReadClock
<1>2. BlockNeedsFull' /\ RetryAfterHolds'
    BY DEF LInv, ReadClock, BlockNeedsFull, RetryAfterHolds
<1> QED
    BY <1>1, <1>2 DEF LInv

LEMMA TickInv ==
    ASSUME LInv, Tick
    PROVE  LInv'
<1>1. TypeOK'
    BY LimiterAssumption DEF LInv, TypeOK, Tick, Times
<1>2. BlockNeedsFull' /\ RetryAfterHolds'
    BY DEF LInv, Tick, BlockNeedsFull, RetryAfterHolds
<1> QED
    BY <1>1, <1>2 DEF LInv

LEMMA DecideInv ==
    ASSUME LInv, NEW c \in Call, Decide(c)
    PROVE  LInv'
<1> DEFINE u == evals[c].user
           now == evals[c].now
           b == Renewed(buckets[u], now)
<1> USE DEF LInv
<1>1. u \in User /\ now \in Nat /\ clock \in Nat /\ buckets[u] \in Bucket
    BY TimesNat DEF TypeOK
<1>2. b \in Bucket /\ (b.blockedTill # Never => b.count >= Limit)
    BY <1>1, RenewedBucket DEF BlockNeedsFull
<1>3. evals' \in [Call -> [user : User, now : Nat]] /\ clock' = clock
  <2>1. clock' = clock /\ evals' = [evals EXCEPT ![c].now = Never]
      BY DEF Decide
  <2>2. evals \in [Call -> [user : User, now : Nat]]
      BY DEF TypeOK
  <2> QED
      BY <2>1, <2>2 DEF Never
<1>4. ASSUME NEW bucket \in Bucket, buckets' = [buckets EXCEPT ![u] = bucket],
             bucket.blockedTill # Never => bucket.count >= Limit
      PROVE  /\ buckets' \in [User -> Bucket]
             /\ buckets'[u] = bucket
             /\ BlockNeedsFull'
    BY <1>1, <1>4 DEF TypeOK, BlockNeedsFull
<1>5. CASE Blocked(b, now)
  <2>1. /\ buckets' = [buckets EXCEPT ![u] = b]
        /\ answer' = [reason |-> "cooldown_active", user |-> u,
                      until |-> Later(clock + 1, b.blockedTill)]
        /\ UNCHANGED admitted
      BY <1>5 DEF Decide
  <2>2. answer' \in Answers
      BY <1>1, <1>2, <2>1 DEF Answers, Later, Bucket
  <2>3. TypeOK'
      BY <1>2, <1>3, <1>4, <2>1, <2>2 DEF TypeOK
  <2>4. RetryAfterHolds'
      BY <2>1 DEF RetryAfterHolds
  <2> QED
      BY <1>2, <1>4, <2>1, <2>3, <2>4
<1>6. CASE ~ Blocked(b, now) /\ Full(b)
  <2> DEFINE bucket == [b EXCEPT !.blockedTill = now + Block]
  <2>1. /\ buckets' = [buckets EXCEPT ![u] = bucket]
        /\ answer' = [reason |-> "window_exceeded", user |-> u,
                      until |-> Later(clock + 1, b.windowStart + Window)]
        /\ UNCHANGED admitted
      BY <1>6 DEF Decide
  <2>2. bucket \in Bucket /\ bucket.count >= Limit /\ bucket.windowStart = b.windowStart
      BY <1>1, <1>2, <1>6, LimiterAssumption DEF Bucket, Full
  <2>3. answer'.until \in Nat /\ answer'.until >= bucket.windowStart + Window
      BY <1>1, <1>2, <2>1, <2>2, LimiterAssumption DEF Later, Bucket
  <2>4. answer' \in Answers /\ answer'.user = u
      BY <1>1, <2>1, <2>3 DEF Answers
  <2>5. buckets' \in [User -> Bucket] /\ buckets'[u] = bucket /\ BlockNeedsFull'
    <3> HIDE DEF bucket
    <3> QED
        BY <1>4, <2>1, <2>2
  <2>6. TypeOK'
      BY <1>3, <2>1, <2>4, <2>5 DEF TypeOK
  <2>7. RetryAfterHolds'
    <3>1. WouldAdmit(bucket, answer'.until)
        BY <2>2, <2>3, AdmitsAfterWindow
    <3> QED
        BY <2>4, <2>5, <3>1 DEF RetryAfterHolds, WouldAdmit
  <2> QED
      BY <2>5, <2>6, <2>7
<1>7. CASE ~ Blocked(b, now) /\ ~ Full(b)
  <2> DEFINE bucket == [b EXCEPT !.count = @ + 1]
  <2>1. /\ buckets' = [buckets EXCEPT ![u] = bucket]
        /\ answer' = [reason |-> "allowed", user |-> u, until |-> clock]
        /\ admitted' = [admitted EXCEPT ![u][clock] = @ + 1]
      BY <1>7 DEF Decide
  <2>2. bucket \in Bucket /\ bucket.blockedTill = Never
      BY <1>2, <1>7, LimiterAssumption DEF Bucket, Full
  <2>3. answer' \in Answers
      BY <1>1, <2>1 DEF Answers
  <2>4. admitted' \in [User -> [Times -> Nat]]
      BY <1>1, <2>1 DEF TypeOK
  <2>5. buckets' \in [User -> Bucket] /\ BlockNeedsFull'
    <3> HIDE DEF bucket
    <3> QED
        BY <1>4, <2>1, <2>2
  <2>6. TypeOK'
      BY <1>3, <2>1, <2>3, <2>4, <2>5 DEF TypeOK
  <2>7. RetryAfterHolds'
      BY <2>1 DEF RetryAfterHolds
  <2> QED
      BY <2>5, <2>6, <2>7
<1> QED
    BY <1>5, <1>6, <1>7

LEMMA StepInv ==
    ASSUME LInv, [Next]_limiterVars
    PROVE  LInv'
<1>1. CASE UNCHANGED limiterVars
    BY <1>1 DEF limiterVars, LInv, TypeOK, BlockNeedsFull, RetryAfterHolds
<1> QED
    BY <1>1, ReadClockInv, DecideInv, TickInv DEF Next

THEOREM Invariance == Spec => []LInv
BY InitInv, StepInv, PTL DEF Spec

\* The clock, the buckets, whose count never passes the limit, and the
\* evaluations keep their types.
THEOREM TypeCorrect == Spec => []TypeOK
<1>1. LInv => TypeOK
    BY DEF LInv
<1> QED
    BY <1>1, Invariance, PTL

\* For every configuration block_seconds decides nothing: a block only ever
\* stands on a bucket that is full and would refuse on its count alone.
THEOREM BlockAlwaysNeedsFull == Spec => []BlockNeedsFull
<1>1. LInv => BlockNeedsFull
    BY DEF LInv
<1> QED
    BY <1>1, Invariance, PTL

\* For every configuration a client that waits for the Retry-After of a
\* window_exceeded answer finds a new window.
THEOREM RetryAfterAlwaysHolds == Spec => []RetryAfterHolds
<1>1. LInv => RetryAfterHolds
    BY DEF LInv
<1> QED
    BY <1>1, Invariance, PTL

-----------------------------------------------------------------------------
(* Bursts *)

Admissions(u, t) == Total(admitted[u], t, t + Window)

\* evaluations whose reading of the clock is older than t
Stale(t) == {c \in Call : evals[c].now # Never /\ evals[c].now < t}

\* What n admissions from t on, within one window's length, leave of the bucket,
\* by its window's place: over by t, so that all of them had old readings; in
\* force at t; begun within the period; begun after it.
Spread(n, start, count, stale, t) ==
    n > 0 =>
        /\ start + Window <= t => n <= Cardinality(Call) - stale
        /\ start < t /\ t < start + Window => n <= count + Cardinality(Call) - 1
        /\ t <= start /\ start < t + Window => n <= Limit + count + Cardinality(Call) - 1
        /\ n <= 2 * Limit + Cardinality(Call) - 1

Spreads ==
    \A u \in User, t \in Times :
        Spread(Admissions(u, t), buckets[u].windowStart, buckets[u].count,
               Cardinality(Stale(t)), t)

\* readings, windows and admissions are of the past
PastOnly ==
    /\ \A c \in Call : evals[c].now <= clock
    /\ \A u \in User :
         /\ buckets[u].windowStart <= clock
         /\ \A s \in Times :
              clock < s \/ buckets[u].windowStart = Never => admitted[u][s] = 0

BInv == LInv /\ PastOnly /\ Spreads

Period(t) == {s \in Times : t <= s /\ s < t + Window}

LEMMA PeriodFinite ==
    ASSUME NEW t
    PROVE  IsFiniteSet(Period(t)) /\ Period(t) \subseteq Times
<1>1. IsFiniteSet(Times)
    BY FS_Interval, LimiterAssumption DEF Times
<1> QED
    BY <1>1, FS_Subset DEF Period

LEMMA OneAdmission ==
    ASSUME NEW f \in [Times -> Nat], NEW s \in Times, NEW t
    PROVE  SumOver([f EXCEPT ![s] = @ + 1], Period(t))
             = SumOver(f, Period(t)) + (IF s \in Period(t) THEN 1 ELSE 0)
<1>1. IsFiniteSet(Period(t)) /\ Period(t) \subseteq Times
    BY PeriodFinite
<1> QED
    BY <1>1, SumCountUp

LEMMA AdmissionsType ==
    ASSUME TypeOK, NEW u \in User, NEW t
    PROVE  Admissions(u, t) \in Nat /\ Admissions(u, t) = SumOver(admitted[u], Period(t))
<1>1. \A s \in Period(t) : admitted[u][s] \in Nat
    BY PeriodFinite DEF TypeOK
<1> QED
    BY <1>1, PeriodFinite, SumType DEF Admissions, Total, Period

\* Before the clock reaches t, and before the first window, nothing was admitted.
LEMMA NothingYet ==
    ASSUME TypeOK, PastOnly, NEW u \in User, NEW t \in Times,
           clock < t \/ buckets[u].windowStart = Never
    PROVE  Admissions(u, t) = 0
<1>1. clock \in Int /\ Times \subseteq Int
    BY TimesNat DEF TypeOK
<1>2. \A s \in Period(t) : admitted[u][s] = 0
    BY <1>1 DEF PastOnly, Period
<1> QED
    BY <1>2, SumZero, AdmissionsType

LEMMA CallsCount == Cardinality(Call) \in Nat
BY CallsFinite, FS_CardinalityType

LEMMA StaleCount ==
    ASSUME NEW t
    PROVE  /\ IsFiniteSet(Stale(t))
           /\ Cardinality(Stale(t)) \in Nat
           /\ Cardinality(Stale(t)) <= Cardinality(Call)
<1>1. Stale(t) \subseteq Call
    BY DEF Stale
<1>2. IsFiniteSet(Stale(t)) /\ Cardinality(Stale(t)) <= Cardinality(Call)
    BY <1>1, CallsFinite, FS_Subset
<1> QED
    BY <1>2, FS_CardinalityType

\* Fewer old readings, and nothing else changed.
LEMMA SpreadKept ==
    ASSUME NEW n \in Nat, NEW start, NEW count, NEW t, NEW stale \in Nat, NEW stale1 \in Nat,
           Spread(n, start, count, stale, t), stale1 <= stale
    PROVE  Spread(n, start, count, stale1, t)
BY CallsCount DEF Spread

LEMMA InitSpread ==
    ASSUME Init
    PROVE  BInv
<1>1. LInv
    BY InitInv
<1>2. PastOnly
    BY DEF Init, PastOnly, NoBucket, Never
<1>3. ASSUME NEW u \in User, NEW t \in Times
      PROVE  Admissions(u, t) = 0
  <2>1. buckets[u].windowStart = Never
      BY DEF Init, NoBucket
  <2> QED
      BY <1>1, <1>2, <2>1, NothingYet DEF LInv
<1>4. Spreads
    BY <1>3 DEF Spreads, Spread
<1> QED
    BY <1>1, <1>2, <1>4 DEF BInv

\* A new reading is no older than any period that has begun.
LEMMA ReadClockSpread ==
    ASSUME BInv, NEW c \in Call, NEW u \in User, ReadClock(c, u)
    PROVE  BInv'
<1> USE DEF BInv
<1>1. LInv'
    BY ReadClockInv
<1>2. /\ evals' = [evals EXCEPT ![c] = [user |-> u, now |-> clock]]
      /\ UNCHANGED <<clock, buckets, admitted>>
      /\ clock \in Nat
      /\ evals \in [Call -> [user : User, now : Nat]]
    BY TimesNat DEF ReadClock, LInv, TypeOK
<1>3. PastOnly'
    BY <1>2 DEF PastOnly
<1>4. ASSUME NEW v \in User, NEW t \in Times
      PROVE  Spread(Admissions(v, t), buckets[v].windowStart, buckets[v].count,
                    Cardinality(Stale(t)), t)'
  <2>1. Admissions(v, t)' = Admissions(v, t) /\ buckets' = buckets
      BY <1>2 DEF Admissions, Total
  <2>2. CASE clock < t
    <3>1. Admissions(v, t) = 0
        BY <2>2, NothingYet DEF LInv
    <3> QED
        BY <2>1, <3>1 DEF Spread
  <2>3. CASE t <= clock
    <3>1. Stale(t)' \subseteq Stale(t)
        BY <1>2, <2>3, TimesNat DEF Stale
    <3>2. Cardinality(Stale(t)') \in Nat /\ Cardinality(Stale(t)') <= Cardinality(Stale(t))
        BY <3>1, StaleCount, FS_Subset, FS_CardinalityType
    <3>3. Spread(Admissions(v, t), buckets[v].windowStart, buckets[v].count,
                 Cardinality(Stale(t)), t)
        BY DEF Spreads
    <3>4. Admissions(v, t) \in Nat /\ Cardinality(Stale(t)) \in Nat
        BY AdmissionsType, StaleCount DEF LInv
    <3>5. Spread(Admissions(v, t), buckets[v].windowStart, buckets[v].count,
                 Cardinality(Stale(t)'), t)
        BY <3>2, <3>3, <3>4, SpreadKept
    <3> QED
        BY <2>1, <3>5 DEF Spread
  <2> QED
      BY <1>2, <2>2, <2>3, TimesNat
<1>5. Spreads'
    BY <1>4 DEF Spreads
<1> QED
    BY <1>1, <1>3, <1>5

LEMMA TickSpread ==
    ASSUME BInv, Tick
    PROVE  BInv'
<1> USE DEF BInv
<1>1. LInv'
    BY TickInv
<1>2. /\ clock' = clock + 1 /\ clock \in Nat
      /\ UNCHANGED <<buckets, evals, admitted>>
    BY TimesNat DEF Tick, LInv, TypeOK
<1>3. PastOnly'
  <2>1. \A c \in Call : evals[c].now \in Nat
      BY DEF LInv, TypeOK
  <2>2. \A u \in User : buckets[u].windowStart \in Nat
      BY DEF LInv, TypeOK, Bucket
  <2> QED
      BY <1>2, <2>1, <2>2, TimesNat DEF PastOnly
<1>4. Spreads'
    BY <1>2 DEF Spreads, Spread, Admissions, Total, Stale
<1> QED
    BY <1>1, <1>3, <1>4

\* A decision uses up its reading.
LEMMA StaleAfter ==
    ASSUME TypeOK, NEW c \in Call, evals[c].now # Never,
           evals' = [evals EXCEPT ![c].now = Never], NEW t \in Nat
    PROVE  Cardinality(Stale(t)') = Cardinality(Stale(t))
                                      - (IF evals[c].now < t THEN 1 ELSE 0)
<1>1. Stale(t)' = Stale(t) \ {c}
    BY DEF TypeOK, Stale
<1>2. c \in Stale(t) <=> evals[c].now < t
    BY DEF Stale
<1>3. Cardinality(Stale(t)) \in Nat /\ IsFiniteSet(Stale(t))
    BY StaleCount
<1>4. Cardinality(Stale(t) \ {c}) = IF c \in Stale(t) THEN Cardinality(Stale(t)) - 1
                                                      ELSE Cardinality(Stale(t))
    BY <1>3, FS_RemoveElement
<1> QED
    BY <1>1, <1>2, <1>3, <1>4

\* A refusal leaves window and count as they are, since a new window admits.
LEMMA RefusalKeepsWindow ==
    ASSUME NEW b \in Bucket, NEW now \in Nat,
           Blocked(Renewed(b, now), now) \/ Full(Renewed(b, now))
    PROVE  Renewed(b, now) = b
BY LimiterAssumption DEF Renewed, Blocked, Full, NoBucket, Never, Bucket

\* What a decision does to the counters of its requester: refused, nothing;
\* admitted, one admission now and one request of the window, or of a new one.
Refused(u) ==
    /\ admitted' = admitted
    /\ buckets'[u].windowStart = buckets[u].windowStart
    /\ buckets'[u].count = buckets[u].count

Granted(u, now) ==
    /\ admitted'[u] = [admitted[u] EXCEPT ![clock] = @ + 1]
    /\ IF buckets[u].windowStart = Never \/ now - buckets[u].windowStart >= Window
       THEN buckets'[u].windowStart = now /\ buckets'[u].count = 1
       ELSE /\ buckets'[u].windowStart = buckets[u].windowStart
            /\ buckets'[u].count = buckets[u].count + 1
            /\ buckets[u].count < Limit

LEMMA DecisionCounts ==
    ASSUME LInv, NEW c \in Call, Decide(c)
    PROVE  /\ evals[c].now \in Nat \ {Never} /\ evals[c].user \in User /\ clock' = clock
           /\ evals' = [evals EXCEPT ![c].now = Never]
           /\ \A v \in User : v # evals[c].user
                                => buckets'[v] = buckets[v] /\ admitted'[v] = admitted[v]
           /\ Refused(evals[c].user) \/ Granted(evals[c].user, evals[c].now)
<1> DEFINE u == evals[c].user
           now == evals[c].now
<1> DEFINE b == Renewed(buckets[u], now)
<1>1. u \in User /\ now \in Nat \ {Never} /\ buckets[u] \in Bucket /\ clock \in Times
    BY DEF LInv, TypeOK, Decide
<1>2. clock' = clock /\ evals' = [evals EXCEPT ![c].now = Never]
    BY DEF Decide
<1>3. b \in Bucket
    BY <1>1, RenewedBucket DEF LInv, BlockNeedsFull
<1>4. CASE Blocked(b, now)
  <2>1. b = buckets[u]
      BY <1>1, <1>4, RefusalKeepsWindow
  <2>2. buckets' = [buckets EXCEPT ![u] = b] /\ admitted' = admitted
      BY <1>4 DEF Decide
  <2> QED
      BY <1>1, <1>2, <2>1, <2>2 DEF LInv, TypeOK, Refused
<1>5. CASE ~ Blocked(b, now) /\ Full(b)
  <2>1. b = buckets[u]
      BY <1>1, <1>5, RefusalKeepsWindow
  <2>2. /\ buckets' = [buckets EXCEPT ![u] = [b EXCEPT !.blockedTill = now + Block]]
        /\ admitted' = admitted
      BY <1>5 DEF Decide
  <2>3. /\ buckets'[u] = [b EXCEPT !.blockedTill = now + Block]
        /\ \A v \in User : v # u => buckets'[v] = buckets[v]
      BY <1>1, <2>2 DEF LInv, TypeOK
  <2>4. buckets'[u].windowStart = b.windowStart /\ buckets'[u].count = b.count
      BY <1>3, <2>3 DEF Bucket
  <2> QED
      BY <1>1, <1>2, <2>1, <2>2, <2>3, <2>4 DEF Refused
<1>6. CASE ~ Blocked(b, now) /\ ~ Full(b)
  <2>1. /\ buckets' = [buckets EXCEPT ![u] = [b EXCEPT !.count = @ + 1]]
        /\ admitted' = [admitted EXCEPT ![u][clock] = @ + 1]
      BY <1>6 DEF Decide
  <2>2. /\ buckets'[u] = [b EXCEPT !.count = @ + 1]
        /\ \A v \in User : v # u => buckets'[v] = buckets[v]
      BY <1>1, <2>1 DEF LInv, TypeOK
  <2>3. buckets'[u].windowStart = b.windowStart /\ buckets'[u].count = b.count + 1
      BY <1>3, <2>2 DEF Bucket
  <2>4. /\ admitted'[u] = [admitted[u] EXCEPT ![clock] = @ + 1]
        /\ \A v \in User : v # u => admitted'[v] = admitted[v]
      BY <1>1, <2>1 DEF LInv, TypeOK
  <2>5. b.count < Limit
      BY <1>3, <1>6, LimiterAssumption DEF Full, Bucket
  <2>6. CASE buckets[u].windowStart = Never \/ now - buckets[u].windowStart >= Window
    <3>1. b.windowStart = now /\ b.count = 0
        BY <2>6 DEF Renewed, NoBucket
    <3> QED
        BY <1>1, <1>2, <2>2, <2>3, <2>4, <2>6, <3>1 DEF Granted
  <2>7. CASE ~ (buckets[u].windowStart = Never \/ now - buckets[u].windowStart >= Window)
    <3>1. b = buckets[u]
        BY <2>7 DEF Renewed
    <3> QED
        BY <1>1, <1>2, <2>2, <2>3, <2>4, <2>5, <2>7, <3>1 DEF Granted
  <2> QED
      BY <2>6, <2>7
<1> QED
    BY <1>4, <1>5, <1>6

LEMMA DecideSpread ==
    ASSUME BInv, NEW c \in Call, Decide(c)
    PROVE  BInv'
<1> DEFINE u == evals[c].user
           now == evals[c].now
<1> USE DEF BInv
<1>1. LInv' /\ TypeOK /\ TypeOK'
    BY DecideInv DEF LInv
<1>0. LInv /\ u = evals[c].user /\ now = evals[c].now
    OBVIOUS
<1> HIDE DEF u, now
<1>2. /\ now \in Nat \ {Never} /\ u \in User /\ clock' = clock
      /\ evals' = [evals EXCEPT ![c].now = Never]
      /\ \A v \in User : v # u => buckets'[v] = buckets[v] /\ admitted'[v] = admitted[v]
    BY <1>0, DecisionCounts
<1>3. Refused(u) \/ Granted(u, now)
    BY <1>0, DecisionCounts
<1>4. clock \in Times /\ clock \in Nat /\ now <= clock
    BY <1>0, <1>1, TimesNat DEF TypeOK, PastOnly
<1>5. PastOnly'
  <2>1. \A d \in Call : evals'[d].now <= clock'
      BY <1>1, <1>2, <1>4 DEF PastOnly, TypeOK, Never
  <2>2. ASSUME NEW v \in User
        PROVE  /\ buckets'[v].windowStart <= clock'
               /\ \A s \in Times : clock' < s \/ buckets'[v].windowStart = Never
                                      => admitted'[v][s] = 0
    <3>1. CASE v # u \/ Refused(u)
        BY <1>2, <3>1 DEF PastOnly, Refused
    <3>2. CASE v = u /\ Granted(u, now)
      <4>1. buckets'[u].windowStart # Never /\ buckets'[u].windowStart <= clock
          BY <1>2, <1>4, <3>2 DEF PastOnly, Granted
      <4>2. \A s \in Times : clock < s => admitted'[u][s] = admitted[u][s]
          BY <1>1, <1>2, <1>4, <3>2, TimesNat DEF TypeOK, Granted
      <4> QED
          BY <1>2, <3>2, <4>1, <4>2 DEF PastOnly
    <3> QED
        BY <1>2, <1>3, <3>1, <3>2
  <2> QED
      BY <2>1, <2>2 DEF PastOnly
<1>6. ASSUME NEW v \in User, NEW t \in Times
      PROVE  Spread(Admissions(v, t)', buckets'[v].windowStart, buckets'[v].count,
                    Cardinality(Stale(t)'), t)
  <2> DEFINE n == Admissions(v, t)
             stale == Cardinality(Stale(t))
  <2>1. /\ n \in Nat /\ stale \in Nat /\ t \in Nat /\ stale <= Cardinality(Call)
        /\ buckets[v] \in Bucket
        /\ Spread(n, buckets[v].windowStart, buckets[v].count, stale, t)
      BY <1>1, AdmissionsType, StaleCount, TimesNat DEF Spreads, TypeOK
  <2>2. Cardinality(Stale(t)') = stale - (IF now < t THEN 1 ELSE 0)
      BY <1>0, <1>1, <1>2, <2>1, StaleAfter
  <2>3. now < t => stale >= 1
    <3>1. now < t => c \in Stale(t)
        BY <1>0, <1>2 DEF Stale
    <3> QED
        BY <2>1, <3>1, StaleCount, FS_EmptySet
  <2>4. CASE v # u \/ Refused(u)
    <3>1. Admissions(v, t)' = n
        BY <1>2, <2>4 DEF Admissions, Total, Refused
    <3>2. Cardinality(Stale(t)') \in Nat /\ Cardinality(Stale(t)') <= stale
        BY <2>1, <2>2, <2>3
    <3>3. /\ buckets'[v].windowStart = buckets[v].windowStart
          /\ buckets'[v].count = buckets[v].count
        BY <1>2, <2>4 DEF Refused
    <3> HIDE DEF n, stale
    <3>4. Spread(n, buckets[v].windowStart, buckets[v].count, Cardinality(Stale(t)'), t)
        BY <2>1, <3>2, SpreadKept
    <3> QED
        BY <3>1, <3>3, <3>4
  <2>5. CASE v = u /\ Granted(u, now)
    <3>1. Admissions(v, t)' = n + (IF t <= clock /\ clock < t + Window THEN 1 ELSE 0)
      <4>1. /\ n = SumOver(admitted[u], Period(t))
            /\ Admissions(v, t)' = SumOver(admitted'[u], Period(t))
          BY <2>5 DEF Admissions, Total, Period
      <4>2. clock \in Period(t) <=> t <= clock /\ clock < t + Window
          BY <1>4 DEF Period
      <4>3. admitted[u] \in [Times -> Nat]
          BY <1>1, <1>2 DEF TypeOK
      <4>4. clock \in Times
          BY <1>4
      <4>5. SumOver(admitted'[u], Period(t)) = SumOver(admitted[u], Period(t))
                                                 + (IF clock \in Period(t) THEN 1 ELSE 0)
        <5>1. admitted'[u] = [admitted[u] EXCEPT ![clock] = @ + 1]
            BY <2>5, <4>3, <4>4 DEF Granted
        <5> QED
            BY <4>3, <4>4, <5>1, OneAdmission
      <4> QED
          BY <4>1, <4>2, <4>5
    <3>2. /\ buckets[v].windowStart = Never => n = 0
          /\ buckets[v].windowStart <= clock
          /\ buckets[v].windowStart \in Nat /\ buckets[v].count \in 0..Limit
        BY <1>1, <2>1, NothingYet DEF PastOnly, Bucket
    <3>3. Cardinality(Call) >= 1
        BY CallsFinite, CallsCount, FS_EmptySet
    <3> DEFINE start == buckets[v].windowStart
               count == buckets[v].count
               n1 == Admissions(v, t)'
               start1 == buckets'[v].windowStart
               count1 == buckets'[v].count
               stale1 == Cardinality(Stale(t)')
    <3>4. IF start = Never \/ now - start >= Window
          THEN start1 = now /\ count1 = 1
          ELSE start1 = start /\ count1 = count + 1 /\ count < Limit
        BY <2>5 DEF Granted
    <3>5. /\ n \in Nat /\ t \in Nat /\ clock \in Nat /\ now \in Nat \ {Never}
          /\ start \in Nat /\ count \in 0..Limit /\ stale \in Nat
          /\ Spread(n, start, count, stale, t)
          /\ start <= clock /\ now <= clock /\ stale <= Cardinality(Call)
          /\ Cardinality(Call) >= 1
          /\ (start = Never => n = 0)
          /\ (now < t => stale >= 1)
          /\ n1 = n + (IF t <= clock /\ clock < t + Window THEN 1 ELSE 0)
          /\ stale1 = stale - (IF now < t THEN 1 ELSE 0)
        BY <1>2, <1>4, <2>1, <2>2, <2>3, <3>1, <3>2, <3>3
    <3> HIDE DEF n, stale, start, count, n1, start1, count1, stale1
    <3>6. Spread(n1, start1, count1, stale1, t)
      <4> DEFINE K == Cardinality(Call)
      <4>1. K \in Nat /\ K >= 1 /\ Window \in Nat \ {0} /\ Limit \in Nat \ {0}
          BY <3>5, CallsCount, LimiterAssumption
      <4>2. n > 0 =>
              /\ start + Window <= t => n <= K - stale
              /\ start < t /\ t < start + Window => n <= count + K - 1
              /\ t <= start /\ start < t + Window => n <= Limit + count + K - 1
              /\ n <= 2 * Limit + K - 1
          BY <3>5 DEF Spread
      <4>3. SUFFICES
              n1 > 0 =>
                /\ start1 + Window <= t => n1 <= K - stale1
                /\ start1 < t /\ t < start1 + Window => n1 <= count1 + K - 1
                /\ t <= start1 /\ start1 < t + Window => n1 <= Limit + count1 + K - 1
                /\ n1 <= 2 * Limit + K - 1
          BY DEF Spread
      <4>4. stale <= K
          BY <3>5
      <4> HIDE DEF K
      <4>5. CASE start = Never \/ now - start >= Window
          BY <3>4, <3>5, <4>1, <4>2, <4>4, <4>5 DEF Never
      <4>6. CASE ~ (start = Never \/ now - start >= Window)
          BY <3>4, <3>5, <4>1, <4>2, <4>4, <4>6 DEF Never
      <4> QED
          BY <4>5, <4>6
    <3> QED
        BY <3>6 DEF n1, start1, count1, stale1
  <2> QED
      BY <1>3, <2>4, <2>5
<1>7. Spreads'
    BY <1>6 DEF Spreads
<1> QED
    BY <1>1, <1>5, <1>7

LEMMA StepSpread ==
    ASSUME BInv, [Next]_limiterVars
    PROVE  BInv'
<1>1. CASE UNCHANGED limiterVars
  <2>1. LInv'
      BY <1>1, StepInv DEF BInv
  <2>2. PastOnly' /\ Spreads'
      BY <1>1 DEF limiterVars, BInv, PastOnly, Spreads, Spread, Admissions, Total, Stale
  <2> QED
      BY <2>1, <2>2 DEF BInv
<1> QED
    BY <1>1, ReadClockSpread, DecideSpread, TickSpread DEF Next

\* For every window, limit and number of concurrent evaluations: no period as
\* long as the window admits more than two windows' requests and one for each
\* evaluation that can be overtaken.
THEOREM BurstAlwaysBounded == Spec => []BurstBounded
<1>1. BInv => BurstBounded
  <2> SUFFICES ASSUME BInv, NEW u \in User, NEW t \in Times
               PROVE  Total(admitted[u], t, t + Window) <= 2 * Limit + Cardinality(Call) - 1
      BY DEF BurstBounded
  <2>1. Admissions(u, t) \in Nat
      BY AdmissionsType DEF BInv, LInv
  <2>2. Admissions(u, t) > 0 => Admissions(u, t) <= 2 * Limit + Cardinality(Call) - 1
      BY DEF BInv, Spreads, Spread
  <2>3. Limit \in Nat \ {0} /\ Cardinality(Call) \in Nat
      BY LimiterAssumption, CallsCount
  <2>4. Admissions(u, t) <= 2 * Limit + Cardinality(Call) - 1
      BY <2>1, <2>2, <2>3
  <2> QED
      BY <2>4 DEF Admissions
<1>2. Spec => []BInv
    BY InitSpread, StepSpread, PTL DEF Spec
<1> QED
    BY <1>1, <1>2, PTL
=============================================================================
