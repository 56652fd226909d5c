-------------------------- MODULE RedisLimiter_proofs --------------------------
(* Proofs about RedisLimiter, for every number of evaluations and every policy. *)
EXTENDS RedisLimiter, Counting_proofs, TLAPS

Eval == [stage : Stages, now : Nat, tokens : 0..BurstCapacity,
         allow : BOOLEAN, abuses : Nat]

IInv == TypeOK /\ CounterHasEnd

LEMMA IdleEval == Idle \in Eval
BY RedisAssumption DEF Idle, Eval, Stages

LEMMA RefilledTokens ==
    ASSUME TypeOK, NEW now \in Nat
    PROVE  Refilled(now) \in 0..BurstCapacity
<1> DEFINE elapsed == IF now > burst.last THEN now - burst.last ELSE 0
           tokens == burst.tokens + elapsed * BaseRequestsPerSecond
<1>1. /\ burst.tokens \in 0..BurstCapacity
      /\ burst.last \in Nat
      /\ BaseRequestsPerSecond \in Nat
      /\ BurstCapacity \in Nat
    BY RedisAssumption DEF TypeOK
<1>2. elapsed \in Nat
    BY <1>1
<1>3. elapsed * BaseRequestsPerSecond \in Nat
    BY <1>1, <1>2
<1>4. tokens \in Nat
  <2> HIDE DEF elapsed
  <2> QED
      BY <1>1, <1>3
<1>5. Refilled(now) = IF tokens > BurstCapacity THEN BurstCapacity ELSE tokens
    BY DEF Refilled
<1> HIDE DEF tokens
<1> QED
    BY <1>1, <1>4, <1>5

LEMMA RecordedType ==
    ASSUME TypeOK, NEW now \in Nat
    PROVE  Recorded(now) \in [Times -> Nat]
BY DEF TypeOK, Recorded

\* a step that only moves c from a stage that is not "expiring" keeps the others
LEMMA StillExpiring ==
    ASSUME TypeOK, CounterHasEnd, NEW c \in Call, NEW e \in Eval,
           evals[c].stage # "expiring",
           evals' = [evals EXCEPT ![c] = e], UNCHANGED <<abuse, endless>>
    PROVE  CounterHasEnd'
BY DEF TypeOK, CounterHasEnd

LEMMA InitInv ==
    ASSUME Init
    PROVE  IInv
<1>1. TypeOK
  <2>1. clock \in Times
      BY RedisAssumption DEF Init, Times
  <2>2. burst \in [tokens : 0..BurstCapacity, last : Nat, ttl : Nat]
      BY RedisAssumption DEF Init, NoBucket
  <2>3. abuse \in [count : Nat, ttl : Nat]
      BY DEF Init, NoKey
  <2>4. blockTTL \in 0..BlockSeconds
      BY RedisAssumption DEF Init
  <2>5. evals \in [Call -> Eval]
      BY IdleEval DEF Init
  <2> QED
      BY <2>1, <2>2, <2>3, <2>4, <2>5 DEF Init, TypeOK, Eval
<1>2. CounterHasEnd
    BY DEF Init, CounterHasEnd, NoKey
<1> QED
    BY <1>1, <1>2 DEF IInv

LEMMA BeginInv ==
    ASSUME IInv, NEW c \in Call, NEW now \in Times, Begin(c, now)
    PROVE  IInv'
<1> DEFINE e == [Idle EXCEPT !.stage = "checking", !.now = now]
<1>1. e \in Eval
  <2>1. now \in Nat
      BY DEF Times
  <2> QED
      BY <2>1, IdleEval DEF Eval, Stages
<1>2. evals' = [evals EXCEPT ![c] = e] /\ evals[c].stage # "expiring"
    BY DEF Begin, Becomes
<1>3. TypeOK'
    BY <1>1, <1>2 DEF IInv, TypeOK, Begin, Eval, UnderWay
<1>4. CounterHasEnd'
    BY <1>1, <1>2, StillExpiring DEF IInv, Begin
<1> QED
    BY <1>3, <1>4 DEF IInv

LEMMA CheckBlockInv ==
    ASSUME IInv, NEW c \in Call, CheckBlock(c)
    PROVE  IInv'
<1>1. evals[c] \in Eval
    BY DEF IInv, TypeOK, Eval
<1>2. PICK e \in {Idle, [evals[c] EXCEPT !.stage = "recording"]} :
          evals' = [evals EXCEPT ![c] = e]
    BY DEF CheckBlock, Becomes
<1>3. e \in Eval
    BY <1>1, <1>2, IdleEval DEF Eval, Stages
<1>4. TypeOK'
    BY <1>2, <1>3 DEF IInv, TypeOK, CheckBlock, Eval
<1>5. CounterHasEnd'
    BY <1>2, <1>3, StillExpiring DEF IInv, CheckBlock
<1> QED
    BY <1>4, <1>5 DEF IInv

LEMMA RecordInv ==
    ASSUME IInv, NEW c \in Call, NEW spike \in BOOLEAN, Record(c, spike)
    PROVE  IInv'
<1> DEFINE now == evals[c].now
           count == Total(Recorded(now), 1, MaxClock)
           tokens == Refilled(now)
           abused == \/ spike /\ MaySpike(count)
                     \/ OverWindow(count) /\ OverBurst(tokens)
           allow == ~ abused /\ ~ OverWindow(count) /\ ~ OverBurst(tokens)
           e == [evals[c] EXCEPT
                    !.stage = IF abused THEN "counting" ELSE "writing",
                    !.allow = allow,
                    !.tokens = IF allow THEN Spent(tokens) ELSE tokens]
<1>1. evals[c] \in Eval /\ now \in Nat
    BY DEF IInv, TypeOK, Eval
<1>2. tokens \in 0..BurstCapacity
    BY <1>1, RefilledTokens DEF IInv
<1>3. allow \in BOOLEAN
    OBVIOUS
<1>4. (IF allow THEN Spent(tokens) ELSE tokens) \in 0..BurstCapacity
  <2>1. allow => tokens >= 1
      BY <1>2 DEF OverBurst
  <2> HIDE DEF tokens, allow
  <2> QED
      BY <1>2, <2>1, RedisAssumption DEF Spent
<1>5. (IF abused THEN "counting" ELSE "writing") \in Stages
    BY DEF Stages
<1>6. e \in Eval
  <2> HIDE DEF allow, tokens, abused
  <2> QED
      BY <1>1, <1>3, <1>4, <1>5 DEF Eval
<1>7. /\ evals' = [evals EXCEPT ![c] = e]
      /\ evals[c].stage # "expiring"
      /\ window' = Recorded(now)
      /\ windowTTL' = EventRetentionSeconds
      /\ UNCHANGED <<clock, burst, abuse, blockTTL, asked, allowed, regained, overlapped, endless>>
    BY DEF Record, Becomes
<1> HIDE DEF e
<1>8. TypeOK'
    BY <1>1, <1>6, <1>7, RecordedType, RedisAssumption DEF IInv, TypeOK, Eval
<1>9. CounterHasEnd'
    BY <1>6, <1>7, StillExpiring DEF IInv
<1> QED
    BY <1>8, <1>9 DEF IInv

LEMMA RecordFailsInv ==
    ASSUME IInv, NEW c \in Call, RecordFails(c)
    PROVE  IInv'
<1>1. evals[c].now \in Nat
    BY DEF IInv, TypeOK
<1>2. window' \in [Times -> Nat] /\ windowTTL' \in Nat
    BY <1>1, RecordedType, RedisAssumption DEF IInv, TypeOK, RecordFails
<1>3. TypeOK'
    BY <1>2, IdleEval DEF IInv, TypeOK, RecordFails, Becomes, Eval
<1>4. CounterHasEnd'
    BY IdleEval, StillExpiring DEF IInv, RecordFails, Becomes
<1> QED
    BY <1>3, <1>4 DEF IInv

LEMMA AfterCountType ==
    ASSUME NEW e \in Eval, NEW n \in Nat
    PROVE  AfterCount(e, n) \in Eval
BY DEF AfterCount, Eval, Stages

LEMMA CountAbuseInv ==
    ASSUME IInv, NEW c \in Call, CountAbuse(c)
    PROVE  IInv'
<1> DEFINE e == [evals[c] EXCEPT !.stage = "expiring", !.abuses = abuse.count + 1]
<1>1. e \in Eval /\ e.stage = "expiring"
  <2>1. evals[c] \in Eval /\ abuse.count + 1 \in Nat
      BY DEF IInv, TypeOK, Eval
  <2> QED
      BY <2>1 DEF Eval, Stages
<1>2. evals' = [evals EXCEPT ![c] = e]
    BY DEF CountAbuse, Becomes
<1> HIDE DEF e
<1>3. TypeOK'
    BY <1>1, <1>2 DEF IInv, TypeOK, CountAbuse, Eval
<1>4. evals'[c].stage = "expiring"
    BY <1>1, <1>2 DEF IInv, TypeOK
<1>5. CounterHasEnd'
    BY <1>4 DEF CounterHasEnd
<1> QED
    BY <1>3, <1>5 DEF IInv

LEMMA CountFailsInv ==
    ASSUME IInv, NEW c \in Call, CountFails(c)
    PROVE  IInv'
<1>1. AfterCount(evals[c], 1) \in Eval
    BY AfterCountType DEF IInv, TypeOK, Eval
<1>2. TypeOK'
    BY <1>1 DEF IInv, TypeOK, CountFails, Becomes, Eval
<1>3. CounterHasEnd'
    BY DEF CountFails, CounterHasEnd
<1> QED
    BY <1>2, <1>3 DEF IInv

\* EXPIRE gives the key an end, finds no key, or is recorded as failed.
LEMMA ExpireAbuseInv ==
    ASSUME IInv, NEW c \in Call, ExpireAbuse(c)
    PROVE  IInv'
<1>1. AfterCount(evals[c], evals[c].abuses) \in Eval
    BY AfterCountType DEF IInv, TypeOK, Eval
<1>2. AbuseSpan(evals[c].abuses) \in Nat \ {0}
    BY RedisAssumption DEF AbuseSpan
<1>3. TypeOK'
    BY <1>1, <1>2 DEF IInv, TypeOK, ExpireAbuse, Becomes, Eval
<1>4. CounterHasEnd'
  <2>1. \/ abuse'.ttl = AbuseSpan(evals[c].abuses)
        \/ abuse'.count = 0
        \/ endless'
      BY DEF ExpireAbuse, IInv, TypeOK
  <2> QED
      BY <1>2, <2>1 DEF CounterHasEnd, Forever
<1> QED
    BY <1>3, <1>4 DEF IInv

LEMMA SetBlockInv ==
    ASSUME IInv, NEW c \in Call, SetBlock(c)
    PROVE  IInv'
<1>1. evals[c] \in Eval
    BY DEF IInv, TypeOK, Eval
<1>2. PICK e \in {Idle, [evals[c] EXCEPT !.stage = "writing"]} :
          evals' = [evals EXCEPT ![c] = e]
    BY DEF SetBlock, Becomes
<1>3. e \in Eval
    BY <1>1, <1>2, IdleEval DEF Eval, Stages
<1>4. blockTTL' \in 0..BlockSeconds
    BY RedisAssumption DEF IInv, TypeOK, SetBlock
<1>5. TypeOK'
    BY <1>2, <1>3, <1>4 DEF IInv, TypeOK, SetBlock, Eval
<1>6. CounterHasEnd'
    BY <1>2, <1>3, StillExpiring DEF IInv, SetBlock
<1> QED
    BY <1>5, <1>6 DEF IInv

LEMMA SetBackType ==
    ASSUME TypeOK, NEW c \in Call
    PROVE  SetBack(c) \in Nat
<1>1. evals[c].now \in Nat /\ burst.last \in Nat /\ BaseRequestsPerSecond \in Nat
    BY RedisAssumption DEF TypeOK
<1>2. burst.last > evals[c].now => burst.last - evals[c].now \in Nat
    BY <1>1
<1> QED
    BY <1>1, <1>2 DEF SetBack

LEMMA AnswerInv ==
    ASSUME IInv, NEW c \in Call, WriteBack(c) \/ WriteFails(c)
    PROVE  IInv'
<1>1. Written(c) \in [tokens : 0..BurstCapacity, last : Nat, ttl : Nat] /\ SetBack(c) \in Nat
    BY SetBackType, RedisAssumption DEF IInv, TypeOK, Written
<1>2. /\ burst' \in [tokens : 0..BurstCapacity, last : Nat, ttl : Nat]
      /\ regained' \in Nat
      /\ allowed' \in [Times -> Nat]
    BY <1>1 DEF IInv, TypeOK, Write, WriteBack, WriteFails
<1>3. TypeOK'
    BY <1>2, IdleEval DEF IInv, TypeOK, WriteBack, WriteFails, Becomes, Eval
<1>4. CounterHasEnd'
    BY IdleEval, StillExpiring DEF IInv, WriteBack, WriteFails, Becomes
<1> QED
    BY <1>3, <1>4 DEF IInv

LEMMA TickInv ==
    ASSUME IInv, Tick
    PROVE  IInv'
<1>1. clock' \in Times
  <2>1. clock \in 1..MaxClock /\ clock < MaxClock /\ clock' = clock + 1 /\ MaxClock \in Nat
      BY RedisAssumption DEF IInv, TypeOK, Tick, Times
  <2> QED
      BY <2>1 DEF Times
<1>2. blockTTL' \in 0..BlockSeconds
  <2>1. /\ blockTTL \in 0..BlockSeconds
        /\ blockTTL' = IF blockTTL > 0 THEN blockTTL - 1 ELSE 0
        /\ BlockSeconds \in Nat
      BY RedisAssumption DEF IInv, TypeOK, Tick, Less
  <2> QED
      BY <2>1
<1>3. /\ abuse' \in [count : Nat, ttl : Nat]
      /\ abuse'.count > 0 /\ abuse'.ttl = Forever => abuse' = abuse
  <2>1. abuse \in [count : Nat, ttl : Nat]
      BY DEF IInv, TypeOK
  <2>2. CASE abuse.ttl = Forever
    <3>1. abuse' = abuse
        BY <2>2 DEF Tick, Forever
    <3> QED
        BY <2>1, <3>1
  <2>3. CASE abuse.ttl = 1
      BY <2>1, <2>3 DEF Tick, NoKey, Forever
  <2>4. CASE abuse.ttl \notin {Forever, 1}
    <3>1. abuse' = [abuse EXCEPT !.ttl = @ - 1]
        BY <2>4 DEF Tick
    <3> QED
        BY <2>1, <2>4, <3>1 DEF Forever
  <2> QED
      BY <2>2, <2>3, <2>4
<1>4. windowTTL' \in Nat /\ window' \in [Times -> Nat]
    BY DEF IInv, TypeOK, Tick, Less
<1>5. burst' \in [tokens : 0..BurstCapacity, last : Nat, ttl : Nat]
  <2>1. burst \in [tokens : 0..BurstCapacity, last : Nat, ttl : Nat] /\ Less(burst.ttl) \in Nat
      BY DEF IInv, TypeOK, Less
  <2>2. NoBucket \in [tokens : 0..BurstCapacity, last : Nat, ttl : Nat]
      BY RedisAssumption DEF NoBucket
  <2>3. burst' = NoBucket \/ burst' = [burst EXCEPT !.ttl = Less(burst.ttl)]
      BY DEF Tick
  <2> QED
      BY <2>1, <2>2, <2>3
<1>6. overlapped' \in BOOLEAN
    BY DEF IInv, TypeOK, Tick, UnderWay
<1>7. TypeOK'
    BY <1>1, <1>2, <1>3, <1>4, <1>5, <1>6 DEF IInv, TypeOK, Tick
<1>8. CounterHasEnd'
    BY <1>3 DEF IInv, CounterHasEnd, Tick
<1> QED
    BY <1>7, <1>8 DEF IInv

LEMMA StepInv ==
    ASSUME IInv, [Next]_redisVars
    PROVE  IInv'
<1>1. CASE UNCHANGED redisVars
    BY <1>1 DEF redisVars, IInv, TypeOK, CounterHasEnd
<1> QED
    BY <1>1, BeginInv, CheckBlockInv, RecordInv, RecordFailsInv, CountAbuseInv,
       CountFailsInv, ExpireAbuseInv, SetBlockInv, AnswerInv, TickInv DEF Next

\* The types and the counter's end hold together in every reachable state.
THEOREM Invariance == Spec => []IInv
BY InitInv, StepInv, PTL DEF Spec

\* The keys keep their types, and the tokens stay between none and the burst
\* capacity, for every policy, clock and number of overlapping evaluations.
THEOREM TypeCorrect == Spec => []TypeOK
<1>1. IInv => TypeOK
    BY DEF IInv
<1> QED
    BY <1>1, Invariance, PTL

\* The abuse counter is without expiry only between INCR and EXPIRE, or after one
\* of them failed, for every number of evaluations that count at once.
THEOREM CounterAlwaysHasEnd == Spec => []CounterHasEnd
<1>1. IInv => CounterHasEnd
    BY DEF IInv
<1> QED
    BY <1>1, Invariance, PTL

-----------------------------------------------------------------------------
(* Sums over periods *)

WindowLimit == BaseRequestsPerSecond * SlidingWindowSeconds

InSpan(t, last) == last - SlidingWindowSeconds + MaxSkew + 1 <= t /\ t <= last

Span(last) == {t \in Times : InSpan(t, last)}

LEMMA TimesFinite == IsFiniteSet(Times) /\ Times \subseteq Nat
<1>1. MaxClock \in Int
    BY RedisAssumption
<1>2. IsFiniteSet(Times)
    BY <1>1, FS_Interval DEF Times
<1> QED
    BY <1>1, <1>2 DEF Times

LEMMA WindowLimitType == WindowLimit \in Nat \ {0}
BY RedisAssumption DEF WindowLimit

LEMMA SpanFinite ==
    ASSUME NEW last
    PROVE  IsFiniteSet(Span(last)) /\ Span(last) \subseteq Times
BY TimesFinite, FS_Subset DEF Span

LEMMA PeriodSum ==
    ASSUME NEW f \in [Times -> Nat], NEW last
    PROVE  InPeriod(f, last) = SumOver(f, Span(last)) /\ InPeriod(f, last) \in Nat
<1>1. InPeriod(f, last) = SumOver(f, Span(last))
    BY DEF InPeriod, Total, Span, InSpan
<1>2. \A t \in Span(last) : f[t] \in Nat
    BY SpanFinite
<1> QED
    BY <1>1, <1>2, SpanFinite, SumType

\* One more at t counts in the periods that t is in.
LEMMA PeriodCountUp ==
    ASSUME NEW f \in [Times -> Nat], NEW last, NEW t \in Times
    PROVE  InPeriod([f EXCEPT ![t] = @ + 1], last)
             = InPeriod(f, last) + (IF InSpan(t, last) THEN 1 ELSE 0)
<1>1. SumOver([f EXCEPT ![t] = @ + 1], Span(last))
        = SumOver(f, Span(last)) + (IF t \in Span(last) THEN 1 ELSE 0)
    BY SpanFinite, SumCountUp
<1>2. [f EXCEPT ![t] = @ + 1] \in [Times -> Nat]
    OBVIOUS
<1>3. t \in Span(last) <=> InSpan(t, last)
    BY DEF Span
<1>4. InPeriod([f EXCEPT ![t] = @ + 1], last) = SumOver([f EXCEPT ![t] = @ + 1], Span(last))
    BY <1>2, PeriodSum
<1> QED
    BY <1>1, <1>3, <1>4, PeriodSum

\* What is recorded now enters every period it is in, and what is removed is in
\* none of those that ended less than the skew before.
LEMMA RecordedPeriod ==
    ASSUME TypeOK, NEW now \in Times, NEW last \in Times, now <= last + MaxSkew
    PROVE  InPeriod(Recorded(now), last)
             = InPeriod(window, last) + (IF InSpan(now, last) THEN 1 ELSE 0)
<1> DEFINE f == [window EXCEPT ![now] = @ + 1]
<1>0. window \in [Times -> Nat] /\ now \in Nat
    BY TimesFinite DEF TypeOK
<1>1. f \in [Times -> Nat] /\ window \in [Times -> Nat] /\ Recorded(now) \in [Times -> Nat]
    BY <1>0, RecordedType
<1>2. \A t \in Span(last) : Recorded(now)[t] = f[t]
  <2> TAKE t \in Span(last)
  <2>1. t \in Times /\ t \in Nat /\ now \in Nat /\ last \in Nat /\ window[t] \in Nat
      BY <1>1, SpanFinite, TimesFinite
  <2>2. ~ t <= now - SlidingWindowSeconds
      BY <2>1, RedisAssumption DEF Span, InSpan
  <2>3. Recorded(now)[t] = window[t] + (IF t = now THEN 1 ELSE 0)
      BY <2>1, <2>2 DEF Recorded
  <2>4. f[t] = window[t] + (IF t = now THEN 1 ELSE 0)
      BY <1>1, <2>1
  <2> QED
      BY <2>3, <2>4
<1>3. InPeriod(Recorded(now), last) = InPeriod(f, last)
  <2>1. SumOver(Recorded(now), Span(last)) = SumOver(f, Span(last))
      BY <1>2, SumSame
  <2> QED
      BY <1>1, <2>1, PeriodSum
<1> QED
    BY <1>1, <1>3, PeriodCountUp

\* No period holds more than the whole window.
LEMMA PeriodInTotal ==
    ASSUME NEW f \in [Times -> Nat], NEW last
    PROVE  InPeriod(f, last) <= Total(f, 1, MaxClock)
<1>1. {t \in Times : 1 <= t /\ t <= MaxClock} = Times
    BY RedisAssumption DEF Times
<1>2. SumOver(f, Span(last)) <= SumOver(f, Times)
  <2>1. \A t \in Times : f[t] \in Nat
      OBVIOUS
  <2>2. \A t \in Span(last) : f[t] \in Nat /\ f[t] <= f[t]
      BY SpanFinite
  <2> QED
      BY <2>1, <2>2, SpanFinite, TimesFinite, SumMonotone
<1> QED
    BY <1>1, <1>2, PeriodSum DEF Total

-----------------------------------------------------------------------------
(* The window's rate *)

Unrecorded(c) == evals[c].stage \in {"checking", "recording"}

\* evaluations that have still to record a reading no later than last
Early(last) == {c \in Call : Unrecorded(c) /\ evals[c].now <= last}

\* evaluations that were allowed in the period and have still to answer
Granting(last) == {c \in Call : evals[c].allow /\ InSpan(evals[c].now, last)}

Given(last) == InPeriod(allowed, last) + Cardinality(Granting(last))

\* readings are of the past, only an evaluation that has still to answer was
\* allowed, and no member of the window is older than the key's expiry tells
Orderly ==
    /\ \A c \in Call :
         /\ evals[c].allow => evals[c].stage = "writing"
         /\ evals[c].stage # "idle" => evals[c].now \in Times /\ evals[c].now <= clock
    /\ \A t \in Times :
         window[t] # 0 => t <= clock /\ t + EventRetentionSeconds <= clock + windowTTL

\* As long as some replica may still read the period, no member of it is removed,
\* so the window knows of all that was given in it; from then on only evaluations
\* under way by then can add to it.
GivenBounded(last) ==
    /\ clock <= last + MaxSkew =>
         Given(last) <= InPeriod(window, last) /\ Given(last) <= WindowLimit
    /\ clock > last + MaxSkew =>
         Given(last) <= WindowLimit + Cardinality(Call) - Cardinality(Early(last))

\* the window's key outlives the window
Outlives == EventRetentionSeconds >= SlidingWindowSeconds

WInv == TypeOK /\ Orderly /\ (Outlives => \A last \in Times : GivenBounded(last))

LEMMA CallsCount == IsFiniteSet(Call) /\ Cardinality(Call) \in Nat
BY RedisAssumption, FS_CardinalityType

LEMMA GivenType ==
    ASSUME TypeOK, NEW last
    PROVE  /\ IsFiniteSet(Granting(last)) /\ Cardinality(Granting(last)) \in Nat
           /\ IsFiniteSet(Early(last)) /\ Cardinality(Early(last)) \in Nat
           /\ Cardinality(Early(last)) <= Cardinality(Call)
           /\ InPeriod(allowed, last) \in Nat /\ InPeriod(window, last) \in Nat
           /\ Given(last) \in Nat
<1>1. Granting(last) \subseteq Call /\ Early(last) \subseteq Call
    BY DEF Granting, Early
<1>2. /\ IsFiniteSet(Granting(last)) /\ IsFiniteSet(Early(last))
      /\ Cardinality(Early(last)) <= Cardinality(Call)
    BY <1>1, CallsCount, FS_Subset
<1>3. Cardinality(Granting(last)) \in Nat /\ Cardinality(Early(last)) \in Nat
    BY <1>2, FS_CardinalityType
<1>4. InPeriod(allowed, last) \in Nat /\ InPeriod(window, last) \in Nat
    BY PeriodSum DEF TypeOK
<1> QED
    BY <1>2, <1>3, <1>4 DEF Given

\* A step that leaves window and answers alone, records no new reading and
\* allows nothing.
LEMMA QuietWindow ==
    ASSUME WInv, TypeOK', NEW c \in Call, NEW e,
           evals' = [evals EXCEPT ![c] = e],
           UNCHANGED <<clock, window, windowTTL, allowed>>,
           ~ e.allow,
           e.stage # "idle" => evals[c].stage # "idle" /\ e.now = evals[c].now,
           e.stage \in {"checking", "recording"} => Unrecorded(c)
    PROVE  WInv'
<1> USE DEF WInv
<1>1. /\ evals'[c] = e
      /\ \A d \in Call : d # c => evals'[d] = evals[d]
    BY DEF TypeOK
<1>2. Orderly'
    BY <1>1 DEF Orderly
<1>3. ASSUME Outlives, NEW last \in Times
      PROVE  GivenBounded(last)'
  <2>1. Granting(last)' \subseteq Granting(last)
      BY <1>1 DEF Granting, InSpan
  <2>2. Early(last)' \subseteq Early(last)
      BY <1>1 DEF Early, Unrecorded
  <2>3. /\ Cardinality(Granting(last)') <= Cardinality(Granting(last))
        /\ Cardinality(Early(last)') <= Cardinality(Early(last))
        /\ Cardinality(Granting(last)') \in Nat
        /\ Cardinality(Early(last)') \in Nat
      BY <2>1, <2>2, GivenType, FS_Subset, FS_CardinalityType
  <2>4. Given(last)' = InPeriod(allowed, last) + Cardinality(Granting(last)')
      BY DEF Given, InPeriod, Total
  <2>5. InPeriod(window, last)' = InPeriod(window, last)
      BY DEF InPeriod, Total
  <2>6. GivenBounded(last)
      BY <1>3
  <2>7. Given(last)' <= Given(last) /\ Given(last)' \in Nat
      BY <2>3, <2>4, GivenType DEF Given
  <2> QED
      BY <2>3, <2>5, <2>6, <2>7, GivenType, CallsCount, WindowLimitType DEF GivenBounded
<1> QED
    BY <1>2, <1>3

\* A new reading is within the skew of the clock.
LEMMA BeginWindow ==
    ASSUME WInv, TypeOK', NEW c \in Call, NEW now \in Times, Begin(c, now)
    PROVE  WInv'
<1> USE DEF WInv
<1>1. /\ evals'[c].stage = "checking" /\ ~ evals'[c].allow /\ evals'[c].now = now
      /\ \A d \in Call : d # c => evals'[d] = evals[d]
      /\ evals[c].stage = "idle"
      /\ clock - MaxSkew <= now /\ now <= clock
      /\ UNCHANGED <<clock, window, windowTTL, allowed>>
    BY DEF TypeOK, Begin, Becomes, Idle
<1>2. clock \in Nat /\ now \in Nat /\ MaxSkew \in Nat
    BY TimesFinite, RedisAssumption DEF TypeOK
<1>3. Orderly'
    BY <1>1, <1>2 DEF Orderly
<1>4. ASSUME Outlives, NEW last \in Times
      PROVE  GivenBounded(last)'
  <2>1. Granting(last)' = Granting(last)
      BY <1>1 DEF Granting, InSpan, Orderly
  <2>2. Given(last)' = Given(last) /\ InPeriod(window, last)' = InPeriod(window, last)
      BY <1>1, <2>1 DEF Given, InPeriod, Total
  <2>3. ASSUME clock > last + MaxSkew
        PROVE  Early(last)' = Early(last)
    <3>1. ~ now <= last
        BY <1>1, <1>2, <2>3, TimesFinite
    <3> QED
        BY <1>1, <3>1 DEF Early, Unrecorded
  <2>4. GivenBounded(last)
      BY <1>4
  <2> QED
      BY <1>1, <2>2, <2>3, <2>4 DEF GivenBounded
<1> QED
    BY <1>3, <1>4

\* The answer moves from the evaluations to the history.
LEMMA WriteBackWindow ==
    ASSUME WInv, TypeOK', NEW c \in Call, WriteBack(c)
    PROVE  WInv'
<1> USE DEF WInv
<1> DEFINE now == evals[c].now
<1>1. /\ evals'[c] = Idle
      /\ \A d \in Call : d # c => evals'[d] = evals[d]
      /\ UNCHANGED <<clock, window, windowTTL>>
      /\ evals[c].stage = "writing"
    BY DEF TypeOK, WriteBack, Becomes
<1>2. now \in Times
    BY <1>1 DEF Orderly
<1>3. Orderly'
    BY <1>1 DEF Orderly, Idle
<1>4. ASSUME Outlives, NEW last \in Times
      PROVE  GivenBounded(last)'
  <2>1. Granting(last)' = Granting(last) \ {c}
      BY <1>1 DEF Granting, InSpan, Idle
  <2>2. Cardinality(Granting(last)')
          = Cardinality(Granting(last)) - (IF evals[c].allow /\ InSpan(now, last) THEN 1 ELSE 0)
    <3>1. c \in Granting(last) <=> evals[c].allow /\ InSpan(now, last)
        BY DEF Granting
    <3>2. Cardinality(Granting(last) \ {c})
            = IF c \in Granting(last) THEN Cardinality(Granting(last)) - 1
                                      ELSE Cardinality(Granting(last))
        BY GivenType, FS_RemoveElement
    <3> QED
        BY <2>1, <3>1, <3>2, GivenType
  <2>3. InPeriod(allowed', last)
          = InPeriod(allowed, last) + (IF evals[c].allow /\ InSpan(now, last) THEN 1 ELSE 0)
    <3>1. allowed \in [Times -> Nat]
        BY DEF TypeOK
    <3>2. CASE evals[c].allow
      <4>1. allowed' = [allowed EXCEPT ![now] = @ + 1]
          BY <3>2 DEF WriteBack
      <4> QED
          BY <1>2, <3>1, <3>2, <4>1, PeriodCountUp
    <3>3. CASE ~ evals[c].allow
      <4>1. allowed' = allowed
          BY <3>3 DEF WriteBack
      <4> QED
          BY <3>1, <3>3, <4>1, PeriodSum
    <3> QED
        BY <3>2, <3>3
  <2>4. Given(last)' = Given(last)
    <3>1. Given(last)' = InPeriod(allowed', last) + Cardinality(Granting(last)')
        BY DEF Given, InPeriod, Total
    <3> QED
        BY <2>2, <2>3, <3>1, GivenType DEF Given
  <2>5. Early(last)' = Early(last)
      BY <1>1 DEF Early, Unrecorded, Idle
  <2>6. InPeriod(window, last)' = InPeriod(window, last)
      BY <1>1 DEF InPeriod, Total
  <2>7. GivenBounded(last)
      BY <1>4
  <2> QED
      BY <1>1, <2>4, <2>5, <2>6, <2>7 DEF GivenBounded
<1> QED
    BY <1>3, <1>4

\* A recorded reading enters the periods it is in; if the evaluation is allowed,
\* its window was not over the rate.
LEMMA RecordedWindow ==
    ASSUME WInv, TypeOK', NEW c \in Call, NEW e,
           evals[c].stage = "recording",
           evals' = [evals EXCEPT ![c] = e],
           window' = Recorded(evals[c].now),
           windowTTL' = EventRetentionSeconds,
           UNCHANGED <<clock, allowed>>,
           e.stage \notin {"checking", "recording"},
           e.stage # "idle" => e.now = evals[c].now,
           e.allow => e.stage = "writing",
           e.allow => Total(Recorded(evals[c].now), 1, MaxClock) <= WindowLimit
    PROVE  WInv'
<1> USE DEF WInv
<1> DEFINE now == evals[c].now
<1>1. /\ evals'[c] = e
      /\ \A d \in Call : d # c => evals'[d] = evals[d]
      /\ ~ evals[c].allow
    BY DEF TypeOK, Orderly
<1>2. now \in Times /\ now \in Nat /\ now <= clock /\ clock \in Nat
    BY TimesFinite DEF Orderly, TypeOK
<1>3. \A t \in Times : window'[t] # 0 => t <= clock
  <2> TAKE t \in Times
  <2>1. t \in Nat /\ window[t] \in Nat
      BY TimesFinite DEF TypeOK
  <2>2. window[t] # 0 => t <= clock
      BY DEF Orderly
  <2> QED
      BY <1>2, <2>1, <2>2 DEF Recorded
<1>4. Orderly'
  <2>1. \A d \in Call :
          /\ evals'[d].allow => evals'[d].stage = "writing"
          /\ evals'[d].stage # "idle" => evals'[d].now \in Times /\ evals'[d].now <= clock
      BY <1>1, <1>2 DEF Orderly
  <2>2. \A t \in Times : window'[t] # 0 => t + EventRetentionSeconds <= clock + windowTTL'
      BY <1>2, <1>3, TimesFinite, RedisAssumption
  <2> QED
      BY <1>3, <2>1, <2>2 DEF Orderly
<1>5. ASSUME Outlives, NEW last \in Times
      PROVE  GivenBounded(last)'
  <2> DEFINE g == IF e.allow /\ InSpan(now, last) THEN 1 ELSE 0
             h == IF now <= last THEN 1 ELSE 0
  <2>0. last \in Nat
      BY TimesFinite
  <2>1. Cardinality(Granting(last)') = Cardinality(Granting(last)) + g
    <3>1. c \notin Granting(last)
        BY <1>1 DEF Granting
    <3>2. CASE e.allow /\ InSpan(now, last)
      <4>1. Granting(last)' = Granting(last) \cup {c}
          BY <1>1, <3>2 DEF Granting, InSpan
      <4> QED
          BY <3>1, <3>2, <4>1, GivenType, FS_AddElement
    <3>3. CASE ~ (e.allow /\ InSpan(now, last))
      <4>1. Granting(last)' = Granting(last)
          BY <1>1, <3>3 DEF Granting, InSpan
      <4> QED
          BY <3>3, <4>1, GivenType
    <3> QED
        BY <3>2, <3>3
  <2>2. Given(last)' = Given(last) + g
    <3>1. Given(last)' = InPeriod(allowed, last) + Cardinality(Granting(last)')
        BY DEF Given, InPeriod, Total
    <3> QED
        BY <2>1, <3>1, GivenType DEF Given
  <2>3. Early(last)' = Early(last) \ {c}
      BY <1>1 DEF Early, Unrecorded
  <2>4. Cardinality(Early(last)') = Cardinality(Early(last)) - h
    <3>1. c \in Early(last) <=> now <= last
        BY DEF Early, Unrecorded
    <3>2. Cardinality(Early(last) \ {c})
            = IF c \in Early(last) THEN Cardinality(Early(last)) - 1
                                   ELSE Cardinality(Early(last))
        BY GivenType, FS_RemoveElement
    <3> QED
        BY <2>3, <3>1, <3>2, GivenType
  <2>5. g \in {0, 1} /\ h \in {0, 1} /\ g <= h
      BY <1>2, <2>0 DEF InSpan
  <2>6. /\ GivenBounded(last)
        /\ Given(last) \in Nat /\ Given(last)' \in Nat
        /\ InPeriod(window, last) \in Nat
        /\ Cardinality(Early(last)) \in Nat
        /\ Cardinality(Call) \in Nat
        /\ WindowLimit \in Nat
        /\ MaxSkew \in Nat
      BY <1>5, <2>2, <2>5, GivenType, CallsCount, WindowLimitType, RedisAssumption
  <2>7. CASE clock <= last + MaxSkew
    <3>1. now <= last + MaxSkew
        BY <1>2, <2>0, <2>6, <2>7
    <3>2. InPeriod(window, last)' = InPeriod(window, last) + (IF InSpan(now, last) THEN 1 ELSE 0)
      <4>1. InPeriod(window, last)' = InPeriod(Recorded(now), last)
          BY DEF InPeriod, Total
      <4> QED
          BY <1>2, <3>1, <4>1, RecordedPeriod
    <3>3. Given(last)' <= InPeriod(window, last)'
        BY <2>2, <2>6, <2>7, <3>2 DEF GivenBounded
    <3>4. Given(last)' <= WindowLimit
      <4>1. CASE g = 1
        <5>1. Total(Recorded(now), 1, MaxClock) <= WindowLimit
            BY <4>1
        <5>2. /\ InPeriod(Recorded(now), last) <= Total(Recorded(now), 1, MaxClock)
              /\ InPeriod(Recorded(now), last) \in Nat
            BY <1>2, RecordedType, PeriodInTotal, PeriodSum
        <5>3. InPeriod(window, last)' = InPeriod(Recorded(now), last)
            BY DEF InPeriod, Total
        <5>4. Total(Recorded(now), 1, MaxClock) \in Nat
          <6>1. \A t \in {t \in Times : 1 <= t /\ t <= MaxClock} : Recorded(now)[t] \in Nat
              BY <1>2, RecordedType
          <6>2. IsFiniteSet({t \in Times : 1 <= t /\ t <= MaxClock})
              BY TimesFinite, FS_Subset
          <6> QED
              BY <6>1, <6>2, SumType DEF Total
        <5> QED
            BY <2>6, <3>3, <5>1, <5>2, <5>3, <5>4
      <4>2. CASE g = 0
          BY <2>2, <2>6, <2>7, <4>2 DEF GivenBounded
      <4> QED
          BY <2>5, <4>1, <4>2
    <3>5. ~ clock' > last + MaxSkew
        BY <1>2, <2>0, <2>6, <2>7
    <3> QED
        BY <3>3, <3>4, <3>5 DEF GivenBounded
  <2>8. CASE clock > last + MaxSkew
    <3> HIDE DEF g, h
    <3>1. Given(last)' <= WindowLimit + Cardinality(Call) - Cardinality(Early(last)')
        BY <2>2, <2>4, <2>5, <2>6, <2>8 DEF GivenBounded
    <3>2. ~ clock' <= last + MaxSkew
        BY <1>2, <2>0, <2>6, <2>8
    <3> QED
        BY <3>1, <3>2 DEF GivenBounded
  <2> QED
      BY <1>2, <2>0, <2>6, <2>7, <2>8
<1> QED
    BY <1>4, <1>5

LEMMA InitWindow ==
    ASSUME Init, TypeOK
    PROVE  WInv
<1>1. Orderly
    BY DEF Init, Orderly, Idle
<1>2. ASSUME NEW last \in Times
      PROVE  GivenBounded(last)
  <2>1. Granting(last) = {}
      BY DEF Init, Granting, Idle
  <2>2. SumOver(allowed, Span(last)) = 0 /\ SumOver(window, Span(last)) = 0
    <3>1. \A t \in Span(last) : allowed[t] = 0 /\ window[t] = 0
        BY SpanFinite DEF Init
    <3> QED
        BY <3>1, SumZero
  <2>3. InPeriod(allowed, last) = 0 /\ InPeriod(window, last) = 0
      BY <2>2, PeriodSum DEF TypeOK
  <2>4. Given(last) = 0
      BY <2>1, <2>3, FS_EmptySet DEF Given
  <2>5. ~ clock > last + MaxSkew
      BY TimesFinite, RedisAssumption DEF Init, Times
  <2> QED
      BY <2>3, <2>4, <2>5, WindowLimitType DEF GivenBounded
<1> QED
    BY <1>1, <1>2 DEF WInv

\* The decision: what is allowed was within the rate, what counts as abuse was
\* over it, and an allowed request costs one of the refilled tokens.
LEMMA RecordDecides ==
    ASSUME TypeOK, NEW c \in Call, NEW spike \in BOOLEAN, Record(c, spike)
    PROVE  \E e \in Eval :
             /\ evals' = [evals EXCEPT ![c] = e]
             /\ e.now = evals[c].now
             /\ e.stage \in {"counting", "writing"}
             /\ e.allow => e.stage = "writing"
             /\ e.allow => Total(Recorded(evals[c].now), 1, MaxClock) <= WindowLimit
             /\ e.stage = "counting" =>
                  ~ Total(Recorded(evals[c].now), 1, MaxClock) <= WindowLimit
             /\ e.tokens + (IF e.allow THEN 1 ELSE 0) = Refilled(evals[c].now)
<1> DEFINE now == evals[c].now
           count == Total(Recorded(now), 1, MaxClock)
           tokens == Refilled(now)
           abused == \/ spike /\ MaySpike(count)
                     \/ OverWindow(count) /\ OverBurst(tokens)
           allow == ~ abused /\ ~ OverWindow(count) /\ ~ OverBurst(tokens)
           left == IF allow THEN Spent(tokens) ELSE tokens
           e == [evals[c] EXCEPT
                    !.stage = IF abused THEN "counting" ELSE "writing",
                    !.allow = allow,
                    !.tokens = left]
<1>1. evals' = [evals EXCEPT ![c] = e]
    BY DEF Record, Becomes
<1>2. evals[c] \in Eval /\ now \in Nat
    BY DEF TypeOK, Eval
<1>3. tokens \in 0..BurstCapacity
    BY <1>2, RefilledTokens
<1>4. left \in 0..BurstCapacity /\ left + (IF allow THEN 1 ELSE 0) = tokens
  <2>1. allow => tokens >= 1
      BY <1>3 DEF OverBurst
  <2> HIDE DEF tokens, allow
  <2> QED
      BY <1>3, <2>1, RedisAssumption DEF Spent
<1>5. count \in Nat
  <2>1. Recorded(now) \in [Times -> Nat]
      BY <1>2, RecordedType
  <2>2. \A t \in {t \in Times : 1 <= t /\ t <= MaxClock} : Recorded(now)[t] \in Nat
      BY <2>1
  <2>3. IsFiniteSet({t \in Times : 1 <= t /\ t <= MaxClock})
      BY TimesFinite, FS_Subset
  <2> QED
      BY <2>2, <2>3, SumType DEF Total
<1>6. /\ ~ OverWindow(count) => count <= WindowLimit
      /\ OverWindow(count) \/ MaySpike(count) => ~ count <= WindowLimit
  <2>1. MaySpike(count) => count > 2 * WindowLimit
    <3>1. \A r, w \in Nat : 2 * r * w = 2 * (r * w)
        OBVIOUS
    <3> QED
        BY <3>1, RedisAssumption DEF MaySpike, WindowLimit
  <2> HIDE DEF count
  <2> QED
      BY <1>5, <2>1, WindowLimitType DEF OverWindow, WindowLimit
<1>7. allow \in BOOLEAN /\ (allow => ~ abused /\ ~ OverWindow(count))
    OBVIOUS
<1>8. abused => OverWindow(count) \/ MaySpike(count)
    OBVIOUS
<1>9. /\ e \in Eval /\ e.now = now /\ e.allow = allow /\ e.tokens = left
      /\ e.stage = IF abused THEN "counting" ELSE "writing"
  <2>1. (IF abused THEN "counting" ELSE "writing") \in Stages
      BY DEF Stages
  <2> HIDE DEF abused, allow, tokens, count, left
  <2> QED
      BY <1>2, <1>4, <1>7, <2>1 DEF Eval
<1> HIDE DEF e, abused, allow, tokens, count, left
<1>10. /\ e.stage \in {"counting", "writing"}
       /\ e.allow => e.stage = "writing" /\ count <= WindowLimit
       /\ e.stage = "counting" => ~ count <= WindowLimit
       /\ e.tokens + (IF e.allow THEN 1 ELSE 0) = tokens
    BY <1>4, <1>6, <1>7, <1>8, <1>9
<1> QED
    BY <1>1, <1>9, <1>10 DEF count, tokens

LEMMA RecordWindow ==
    ASSUME WInv, TypeOK', NEW c \in Call, NEW spike \in BOOLEAN, Record(c, spike)
    PROVE  WInv'
<1>1. /\ evals[c].stage = "recording"
      /\ window' = Recorded(evals[c].now) /\ windowTTL' = EventRetentionSeconds
      /\ UNCHANGED <<clock, allowed>>
    BY DEF Record
<1>2. TypeOK
    BY DEF WInv
<1> QED
    BY <1>1, <1>2, RecordDecides, RecordedWindow

LEMMA RecordFailsWindow ==
    ASSUME WInv, TypeOK', NEW c \in Call, RecordFails(c)
    PROVE  WInv'
<1>1. /\ evals[c].stage = "recording"
      /\ evals' = [evals EXCEPT ![c] = Idle]
      /\ \/ UNCHANGED <<window, windowTTL>>
         \/ window' = Recorded(evals[c].now) /\ windowTTL' = EventRetentionSeconds
      /\ UNCHANGED <<clock, allowed>>
    BY DEF RecordFails, Becomes
<1>2. Idle.stage = "idle" /\ ~ Idle.allow
    BY DEF Idle
<1>3. CASE UNCHANGED <<window, windowTTL>>
    BY <1>1, <1>2, <1>3, QuietWindow
<1>4. CASE window' = Recorded(evals[c].now) /\ windowTTL' = EventRetentionSeconds
    BY <1>1, <1>2, <1>4, RecordedWindow
<1> QED
    BY <1>1, <1>3, <1>4

LEMMA AfterCountKeeps ==
    ASSUME NEW e \in Eval, NEW n
    PROVE  /\ AfterCount(e, n).now = e.now
           /\ AfterCount(e, n).tokens = e.tokens
           /\ AfterCount(e, n).allow = e.allow
           /\ AfterCount(e, n).stage \in {"blocking", "writing"}
BY DEF AfterCount, Eval

\* Between the two transactions nothing is allowed.
LEMMA BetweenWindow ==
    ASSUME WInv, TypeOK', NEW c \in Call,
           CheckBlock(c) \/ CountAbuse(c) \/ CountFails(c) \/ ExpireAbuse(c) \/ SetBlock(c)
    PROVE  WInv'
<1>1. evals[c] \in Eval /\ ~ evals[c].allow /\ ~ Idle.allow /\ Idle.stage = "idle"
    BY DEF WInv, TypeOK, Eval, Orderly, Idle, CheckBlock, CountAbuse, CountFails,
           ExpireAbuse, SetBlock
<1>2. UNCHANGED <<clock, window, windowTTL, allowed>>
    BY DEF CheckBlock, CountAbuse, CountFails, ExpireAbuse, SetBlock
<1>3. PICK e : evals' = [evals EXCEPT ![c] = e]
               /\ (e = Idle \/ (e.now = evals[c].now /\ ~ e.allow
                                /\ (e.stage \in {"checking", "recording"} => Unrecorded(c))))
  <2>1. CASE CheckBlock(c)
    <3>1. PICK e \in {Idle, [evals[c] EXCEPT !.stage = "recording"]} :
              evals' = [evals EXCEPT ![c] = e]
        BY <2>1 DEF CheckBlock, Becomes
    <3>2. Unrecorded(c)
        BY <2>1 DEF CheckBlock, Unrecorded
    <3> QED
        BY <1>1, <3>1, <3>2 DEF Eval
  <2>2. CASE CountAbuse(c)
    <3> DEFINE e == [evals[c] EXCEPT !.stage = "expiring", !.abuses = abuse.count + 1]
    <3>1. evals' = [evals EXCEPT ![c] = e]
        BY <2>2 DEF CountAbuse, Becomes
    <3>2. e.now = evals[c].now /\ ~ e.allow /\ e.stage = "expiring"
        BY <1>1 DEF Eval
    <3> QED
        BY <3>1, <3>2
  <2>3. CASE CountFails(c)
    <3>1. evals' = [evals EXCEPT ![c] = AfterCount(evals[c], 1)]
        BY <2>3 DEF CountFails, Becomes
    <3> QED
        BY <1>1, <3>1, AfterCountKeeps
  <2>4. CASE ExpireAbuse(c)
    <3>1. evals' = [evals EXCEPT ![c] = AfterCount(evals[c], evals[c].abuses)]
        BY <2>4 DEF ExpireAbuse, Becomes
    <3> QED
        BY <1>1, <3>1, AfterCountKeeps
  <2>5. CASE SetBlock(c)
    <3>1. PICK e \in {Idle, [evals[c] EXCEPT !.stage = "writing"]} :
              evals' = [evals EXCEPT ![c] = e]
        BY <2>5 DEF SetBlock, Becomes
    <3> QED
        BY <1>1, <3>1 DEF Eval
  <2> QED
      BY <2>1, <2>2, <2>3, <2>4, <2>5
<1>4. evals[c].stage # "idle"
    BY DEF CheckBlock, CountAbuse, CountFails, ExpireAbuse, SetBlock
<1> QED
    BY <1>1, <1>2, <1>3, <1>4, QuietWindow

\* A transaction that fails half way answers nobody.
LEMMA WriteFailsWindow ==
    ASSUME WInv, TypeOK', NEW c \in Call, WriteFails(c)
    PROVE  WInv'
<1>1. evals' = [evals EXCEPT ![c] = Idle] /\ UNCHANGED <<clock, window, windowTTL, allowed>>
    BY DEF WriteFails, Becomes
<1>2. Idle.stage = "idle" /\ ~ Idle.allow
    BY DEF Idle
<1> QED
    BY <1>1, <1>2, QuietWindow

\* When the key expires, no member was of a period that can still be read.
LEMMA TickWindow ==
    ASSUME WInv, TypeOK', Tick
    PROVE  WInv'
<1> USE DEF WInv
<1>1. /\ clock' = clock + 1 /\ clock \in Nat
      /\ UNCHANGED <<evals, allowed>>
      /\ windowTTL \in Nat
      /\ window' = IF windowTTL = 1 THEN [t \in Times |-> 0] ELSE window
      /\ windowTTL' = IF windowTTL > 0 THEN windowTTL - 1 ELSE 0
    BY TimesFinite DEF Tick, TypeOK, Less
<1>2. Orderly'
  <2>1. \A c \in Call : evals[c].now \in Nat
      BY DEF TypeOK
  <2>2. \A n \in Nat : n <= clock => n <= clock'
      BY <1>1
  <2>3. \A t \in Times :
          window'[t] # 0 => t <= clock' /\ t + EventRetentionSeconds <= clock' + windowTTL'
    <3> TAKE t \in Times
    <3>1. t \in Nat /\ EventRetentionSeconds \in Nat
        BY TimesFinite, RedisAssumption
    <3>2. window[t] # 0 => t <= clock /\ t + EventRetentionSeconds <= clock + windowTTL
        BY DEF Orderly
    <3>3. window'[t] # 0 => window[t] # 0 /\ windowTTL # 1
        BY <1>1
    <3> QED
        BY <1>1, <3>1, <3>2, <3>3
  <2> QED
      BY <1>1, <2>1, <2>2, <2>3 DEF Orderly
<1>3. ASSUME Outlives, NEW last \in Times
      PROVE  GivenBounded(last)'
  <2>1. /\ Given(last)' = Given(last) /\ Early(last)' = Early(last)
        /\ Given(last) \in Nat /\ InPeriod(window, last) \in Nat
        /\ Cardinality(Early(last)) \in Nat /\ Cardinality(Call) \in Nat
        /\ Cardinality(Early(last)) <= Cardinality(Call)
        /\ GivenBounded(last)
        /\ last \in Nat /\ MaxSkew \in Nat /\ WindowLimit \in Nat
    <3>1. Given(last)' = Given(last) /\ Early(last)' = Early(last)
        BY <1>1 DEF Given, Granting, Early, Unrecorded, InPeriod, Total, InSpan
    <3> QED
        BY <1>3, <3>1, GivenType, CallsCount, TimesFinite, WindowLimitType, RedisAssumption
  <2>2. CASE clock' <= last + MaxSkew
    <3>1. Given(last) <= InPeriod(window, last) /\ Given(last) <= WindowLimit
        BY <1>1, <2>1, <2>2 DEF GivenBounded
    <3>2. InPeriod(window, last)' = InPeriod(window, last)
      <4>1. CASE windowTTL # 1
          BY <1>1, <4>1 DEF InPeriod, Total
      <4>2. CASE windowTTL = 1
        <5>1. \A t \in Span(last) : window[t] = 0
          <6> TAKE t \in Span(last)
          <6>1. t \in Times /\ t \in Nat /\ InSpan(t, last)
              BY SpanFinite, TimesFinite DEF Span
          <6>2. /\ EventRetentionSeconds \in Nat /\ SlidingWindowSeconds \in Nat
                /\ EventRetentionSeconds >= SlidingWindowSeconds
              BY <1>3, RedisAssumption DEF Outlives
          <6>3. ~ t + EventRetentionSeconds <= clock + windowTTL
              BY <1>1, <2>1, <2>2, <4>2, <6>1, <6>2 DEF InSpan
          <6> QED
              BY <6>1, <6>3 DEF Orderly
        <5>2. \A t \in Span(last) : window'[t] = 0
            BY <1>1, <4>2, SpanFinite
        <5>3. SumOver(window, Span(last)) = 0 /\ SumOver(window', Span(last)) = 0
            BY <5>1, <5>2, SumZero
        <5>4. /\ InPeriod(window, last) = SumOver(window, Span(last))
              /\ InPeriod(window', last) = SumOver(window', Span(last))
            BY PeriodSum DEF TypeOK
        <5>5. InPeriod(window, last)' = InPeriod(window', last)
            BY DEF InPeriod, Total
        <5> QED
            BY <5>3, <5>4, <5>5
      <4> QED
          BY <4>1, <4>2
    <3>3. ~ clock' > last + MaxSkew
        BY <1>1, <2>1, <2>2
    <3> QED
        BY <2>1, <3>1, <3>2, <3>3 DEF GivenBounded
  <2>3. CASE clock' > last + MaxSkew
    <3>1. Given(last) <= WindowLimit + Cardinality(Call) - Cardinality(Early(last))
      <4>1. CASE clock <= last + MaxSkew
          BY <2>1, <4>1 DEF GivenBounded
      <4>2. CASE clock > last + MaxSkew
          BY <2>1, <4>2 DEF GivenBounded
      <4> QED
          BY <1>1, <2>1, <4>1, <4>2
    <3>2. ~ clock' <= last + MaxSkew
        BY <1>1, <2>1, <2>3
    <3> QED
        BY <2>1, <3>1, <3>2 DEF GivenBounded
  <2> QED
      BY <1>1, <2>1, <2>2, <2>3
<1> QED
    BY <1>2, <1>3

LEMMA StepWindow ==
    ASSUME WInv, TypeOK', [Next]_redisVars
    PROVE  WInv'
<1>1. CASE UNCHANGED redisVars
  <2>1. ASSUME Outlives
        PROVE  \A last \in Times : GivenBounded(last)'
      BY <1>1, <2>1 DEF redisVars, WInv, GivenBounded, Given, Granting, Early,
                        Unrecorded, InPeriod, Total, InSpan
  <2> QED
      BY <1>1, <2>1 DEF redisVars, WInv, Orderly
<1> QED
    BY <1>1, BeginWindow, RecordWindow, RecordFailsWindow, BetweenWindow,
       WriteBackWindow, WriteFailsWindow, TickWindow DEF Next

LEMMA WindowSafe ==
    ASSUME WInv
    PROVE  WindowBounded
<1>1. ASSUME Outlives, NEW last \in Times
      PROVE  InPeriod(allowed, last) <= WindowLimit + Cardinality(Call)
  <2>1. /\ GivenBounded(last)
        /\ InPeriod(allowed, last) \in Nat
        /\ Given(last) \in Nat
        /\ InPeriod(allowed, last) <= Given(last)
        /\ Cardinality(Early(last)) \in Nat
        /\ Cardinality(Call) \in Nat
        /\ WindowLimit \in Nat
      BY <1>1, GivenType, CallsCount, WindowLimitType DEF WInv, Given
  <2>2. clock <= last + MaxSkew \/ clock > last + MaxSkew
      BY TimesFinite, RedisAssumption DEF WInv, TypeOK
  <2> QED
      BY <2>1, <2>2 DEF GivenBounded
<1> QED
    BY <1>1 DEF WindowBounded, WindowLimit, Outlives

LEMMA OrderInvariance == Spec => [](IInv /\ WInv)
<1>1. Init => IInv /\ WInv
    BY InitInv, InitWindow DEF IInv
<1>2. (IInv /\ WInv) /\ [Next]_redisVars => (IInv /\ WInv)'
  <2>1. ASSUME IInv, WInv, [Next]_redisVars
        PROVE  IInv' /\ WInv'
    <3>1. IInv'
        BY <2>1, StepInv
    <3>2. TypeOK'
        BY <3>1 DEF IInv
    <3> QED
        BY <2>1, <3>1, <3>2, StepWindow
  <2> QED
      BY <2>1
<1> QED
    BY <1>1, <1>2, PTL DEF Spec

\* However many evaluations of however many replicas overlap, however far their
\* clocks are apart, whichever of their Redis calls fail and whenever the key
\* expires, if only it outlives the window: a sliding window less the skew lets no
\* more through undelayed than the rate of a whole one and one more for each
\* evaluation.
THEOREM WindowAlwaysBounded == Spec => []WindowBounded
BY OrderInvariance, WindowSafe, PTL

-----------------------------------------------------------------------------
(* The token bucket of evaluations that do not overlap *)

\* what the bucket gains from one clock to another; less than nothing backwards
Gain(from, to) == BaseRequestsPerSecond * (to - from)

\* what an evaluation adds to it
Refill(from, to) == IF to > from THEN Gain(from, to) ELSE 0

LEMMA GainChain ==
    ASSUME NEW from \in Int, NEW mid \in Int, NEW to \in Int
    PROVE  /\ Gain(from, to) = Gain(from, mid) + Gain(mid, to)
           /\ Gain(from, to) \in Int /\ Gain(from, mid) \in Int /\ Gain(mid, to) \in Int
           /\ from <= to => Gain(from, to) \in Nat
<1>1. \A r \in Nat, a, b, c \in Int : r * (c - a) = r * (b - a) + r * (c - b)
    OBVIOUS
<1>2. Gain(from, to) = Gain(from, mid) + Gain(mid, to)
    BY <1>1, RedisAssumption DEF Gain
<1>3. Gain(from, to) \in Int /\ Gain(from, mid) \in Int /\ Gain(mid, to) \in Int
    BY RedisAssumption DEF Gain
<1>4. ASSUME from <= to
      PROVE  Gain(from, to) \in Nat
  <2>1. to - from \in Nat
      BY <1>4
  <2> QED
      BY <2>1, RedisAssumption DEF Gain
<1> QED
    BY <1>2, <1>3, <1>4

\* A refill is the gain, and as much again as a clock that is behind sets back.
LEMMA RefillSetsBack ==
    ASSUME NEW from \in Nat, NEW to \in Nat
    PROVE  /\ Refill(from, to) \in Nat /\ Refill(to, from) \in Nat
           /\ Refill(from, to) = Gain(from, to) + Refill(to, from)
<1>1. /\ Gain(from, to) + Gain(to, from) = Gain(from, from)
      /\ Gain(from, to) \in Int /\ Gain(to, from) \in Int
      /\ from <= to => Gain(from, to) \in Nat
      /\ to <= from => Gain(to, from) \in Nat
    BY GainChain
<1>2. Gain(from, from) = 0
    BY RedisAssumption DEF Gain
<1> QED
    BY <1>1, <1>2 DEF Refill

LEMMA TotalType ==
    ASSUME NEW f \in [Times -> Nat], NEW from, NEW to
    PROVE  Total(f, from, to) \in Nat
<1> DEFINE S == {t \in Times : from <= t /\ t <= to}
<1>1. IsFiniteSet(S)
    BY TimesFinite, FS_Subset
<1>2. \A t \in S : f[t] \in Nat
    OBVIOUS
<1> HIDE DEF S
<1>3. SumOver(f, S) \in Nat
    BY <1>1, <1>2, SumType
<1> QED
    BY <1>3 DEF Total, S

LEMMA TotalCountUp ==
    ASSUME NEW f \in [Times -> Nat], NEW t \in Times, NEW from \in Nat, NEW to \in Nat
    PROVE  /\ from <= t /\ t <= to =>
                Total([f EXCEPT ![t] = @ + 1], from, to) = Total(f, from, to) + 1
           /\ ~ (from <= t /\ t <= to) =>
                Total([f EXCEPT ![t] = @ + 1], from, to) = Total(f, from, to)
<1> DEFINE S == {u \in Times : from <= u /\ u <= to}
<1>1. IsFiniteSet(S) /\ S \subseteq Times
    BY TimesFinite, FS_Subset
<1>2. t \in S <=> from <= t /\ t <= to
    OBVIOUS
<1> HIDE DEF S
<1>3. SumOver([f EXCEPT ![t] = @ + 1], S) = SumOver(f, S) + (IF t \in S THEN 1 ELSE 0)
    BY <1>1, SumCountUp
<1>4. SumOver(f, S) \in Nat
    BY <1>1, SumType
<1> QED
    BY <1>2, <1>3, <1>4 DEF Total, S

\* A period holds no more than all the time from its beginning.
LEMMA TotalOpen ==
    ASSUME NEW f \in [Times -> Nat], NEW from \in Nat, NEW to \in Times
    PROVE  Total(f, from, to) <= Total(f, from, MaxClock)
<1> DEFINE S == {t \in Times : from <= t /\ t <= to}
           T == {t \in Times : from <= t /\ t <= MaxClock}
<1>1. S \subseteq T
    BY RedisAssumption DEF Times
<1>2. IsFiniteSet(T)
    BY TimesFinite, FS_Subset
<1>3. \A t \in T : f[t] \in Nat
    OBVIOUS
<1>4. \A t \in S : f[t] \in Nat /\ f[t] <= f[t]
    OBVIOUS
<1>5. SumOver(f, S) <= SumOver(f, T)
  <2> HIDE DEF S, T
  <2> QED
      BY <1>1, <1>2, <1>3, <1>4, SumMonotone
<1> QED
    BY <1>5 DEF Total

LEMMA TotalNone ==
    ASSUME NEW f, NEW from, NEW to, \A t \in Times : f[t] = 0
    PROVE  Total(f, from, to) = 0
<1> DEFINE S == {t \in Times : from <= t /\ t <= to}
<1>1. \A t \in S : f[t] = 0
    OBVIOUS
<1> HIDE DEF S
<1>2. SumOver(f, S) = 0
    BY <1>1, SumZero
<1> QED
    BY <1>2 DEF Total, S

Active(c) == evals[c].stage # "idle"

Decided(c) == evals[c].stage \in {"counting", "expiring", "blocking", "writing"}

Alone == \A c, d \in Call : Active(c) /\ Active(d) => c = d

\* what the bucket held for the evaluation, the token it may take included
Cost(c) == evals[c].tokens + (IF evals[c].allow THEN 1 ELSE 0)

Affordable(c) ==
    /\ Cost(c) <= BurstCapacity
    /\ Cost(c) <= burst.tokens + Refill(burst.last, evals[c].now)

\* all that was allowed from first on
Since(first) == Total(allowed, first, MaxClock)

Covers(first) ==
    Since(first) = 0
    \/ Since(first) + burst.tokens <= BurstCapacity + regained + Gain(first, burst.last)

\* a bucket that is full at m leaves no more than its capacity from then on
CoversAt(first, m) == Since(first) = 0 \/ Since(first) <= regained + Gain(first, m)

\* The bucket holds what is left of the capacity and of the refill of every
\* period; when its key is gone, it has been full by every reading to come; and
\* it covers what the evaluation under way has decided.
Settled ==
    /\ Alone
    /\ burst.ttl > 0 =>
         /\ burst.last + EventRetentionSeconds <= clock + burst.ttl
         /\ \A first \in Times : Covers(first)
    /\ burst.ttl = 0 =>
         \A first \in Times :
            /\ CoversAt(first, clock - MaxSkew)
            /\ \A c \in Call : Active(c) => CoversAt(first, evals[c].now)
    /\ \A c \in Call : Decided(c) => Affordable(c)

TInv == TypeOK /\ Orderly /\ TokensHold /\ (RefilledInTime /\ ~ overlapped => Settled)

LEMMA InitTokens ==
    ASSUME Init, TypeOK, Orderly
    PROVE  TInv
<1>1. \A from, to : Total(allowed, from, to) = 0
    BY TotalNone DEF Init
<1>2. TokensHold
  <2> SUFFICES ASSUME NEW first \in Times, NEW last \in Times, first <= last
               PROVE  Total(allowed, first, last) <= BurstCapacity + Gain(first, last) + regained
      BY DEF TokensHold, Gain
  <2>1. Gain(first, last) \in Nat
      BY TimesFinite, GainChain
  <2> QED
      BY <1>1, <2>1, RedisAssumption DEF Init
<1>3. Settled
  <2>1. burst.ttl = 0
      BY DEF Init, NoBucket
  <2> QED
      BY <1>1, <2>1 DEF Init, Settled, Alone, Active, Decided, Idle, CoversAt, Since
<1> QED
    BY <1>2, <1>3 DEF TInv

\* A step that only moves c on, and decides nothing.
LEMMA QuietTokens ==
    ASSUME TInv, TypeOK', Orderly', NEW c \in Call, NEW e,
           Active(c),
           evals' = [evals EXCEPT ![c] = e],
           UNCHANGED <<clock, burst, allowed, regained, overlapped>>,
           e.stage # "idle" => e.now = evals[c].now,
           e.stage \in {"counting", "expiring", "blocking", "writing"} =>
               Decided(c) /\ e.tokens = evals[c].tokens /\ e.allow = evals[c].allow
    PROVE  TInv'
<1>1. /\ evals'[c] = e
      /\ \A d \in Call : d # c => evals'[d] = evals[d]
    BY DEF TInv, TypeOK
<1>2. TokensHold'
    BY DEF TInv, TokensHold, Total
<1>3. ASSUME Settled
      PROVE  Settled'
  <2>1. \A d \in Call : Active(d)' => Active(d) /\ evals'[d].now = evals[d].now
      BY <1>1 DEF Active
  <2>2. \A d \in Call : Decided(d)' => /\ Decided(d) /\ Active(d)
                                       /\ evals'[d].now = evals[d].now
                                       /\ Cost(d)' = Cost(d)
      BY <1>1 DEF Decided, Cost, Active
  <2>3. Alone'
      BY <1>3, <2>1 DEF Settled, Alone
  <2>4. \A d \in Call : Decided(d)' => Affordable(d)'
      BY <1>3, <2>2 DEF Settled, Affordable, Refill, Gain
  <2>5. \A first \in Times : Covers(first)' = Covers(first)
      BY DEF Covers, Since, Total, Gain
  <2>6. burst'.ttl = 0 =>
          \A first \in Times :
             /\ CoversAt(first, clock - MaxSkew)'
             /\ \A d \in Call : Active(d)' => CoversAt(first, evals[d].now)'
    <3> SUFFICES ASSUME burst.ttl = 0, NEW first \in Times
                 PROVE  /\ CoversAt(first, clock - MaxSkew)'
                        /\ \A d \in Call : Active(d)' => CoversAt(first, evals[d].now)'
        OBVIOUS
    <3>1. CoversAt(first, clock - MaxSkew)'
        BY <1>3 DEF Settled, CoversAt, Since, Total, Gain
    <3>2. ASSUME NEW d \in Call, Active(d)'
          PROVE  CoversAt(first, evals[d].now)'
      <4>1. CoversAt(first, evals[d].now) /\ evals'[d].now = evals[d].now
          BY <1>3, <2>1, <3>2 DEF Settled
      <4> QED
          BY <4>1 DEF CoversAt, Since, Total, Gain
    <3> QED
        BY <3>1, <3>2
  <2> QED
      BY <1>3, <2>3, <2>4, <2>5, <2>6 DEF Settled
<1> QED
    BY <1>2, <1>3 DEF TInv, RefilledInTime

\* A later clock is covered where an earlier one is.
LEMMA CoversLater ==
    ASSUME NEW first \in Int, NEW m \in Int, NEW n \in Int, m <= n
    PROVE  Gain(first, m) <= Gain(first, n)
<1>1. Gain(first, n) = Gain(first, m) + Gain(m, n) /\ Gain(first, m) \in Int
    BY GainChain
<1>2. Gain(m, n) \in Nat
    BY GainChain
<1> QED
    BY <1>1, <1>2

LEMMA BeginTokens ==
    ASSUME TInv, TypeOK', Orderly', NEW c \in Call, NEW now \in Times, Begin(c, now)
    PROVE  TInv'
<1>1. /\ evals'[c].stage = "checking" /\ evals'[c].now = now
      /\ \A d \in Call : d # c => evals'[d] = evals[d]
      /\ clock - MaxSkew <= now
      /\ UNCHANGED <<clock, burst, allowed, regained>>
    BY DEF TInv, TypeOK, Begin, Becomes, Idle
<1>2. TokensHold'
    BY DEF TInv, TokensHold, Total, Begin
<1>3. ASSUME RefilledInTime, ~ overlapped'
      PROVE  Settled'
  <2>1. Settled /\ \A d \in Call : ~ Active(d)
      BY <1>3 DEF TInv, Begin, Active, UnderWay
  <2>2. \A d \in Call : Active(d)' => d = c
      BY <1>1, <2>1 DEF Active
  <2>3. \A d \in Call : ~ Decided(d)'
      BY <1>1, <2>1 DEF Active, Decided
  <2>4. \A first \in Times : Covers(first)' = Covers(first)
      BY <1>1 DEF Covers, Since, Total, Gain
  <2>5. ASSUME burst.ttl = 0, NEW first \in Times
        PROVE  CoversAt(first, clock - MaxSkew)' /\ CoversAt(first, now)'
    <3>1. CoversAt(first, clock - MaxSkew)
        BY <2>1, <2>5 DEF Settled
    <3>2. /\ first \in Int /\ now \in Int /\ clock - MaxSkew \in Int
          /\ regained \in Nat /\ Since(first) \in Nat
        BY TimesFinite, RedisAssumption, TotalType DEF TInv, TypeOK, Since
    <3>3. Gain(first, clock - MaxSkew) <= Gain(first, now)
        BY <1>1, <3>2, CoversLater
    <3>4. Gain(first, clock - MaxSkew) \in Int /\ Gain(first, now) \in Int
        BY <3>2, GainChain
    <3>5. CoversAt(first, now)
        BY <3>1, <3>2, <3>3, <3>4 DEF CoversAt
    <3> QED
        BY <1>1, <3>1, <3>5 DEF CoversAt, Since, Total, Gain
  <2>6. burst'.ttl = 0 =>
          \A first \in Times :
             /\ CoversAt(first, clock - MaxSkew)'
             /\ \A d \in Call : Active(d)' => CoversAt(first, evals[d].now)'
    <3> SUFFICES ASSUME burst.ttl = 0, NEW first \in Times
                 PROVE  /\ CoversAt(first, clock - MaxSkew)'
                        /\ \A d \in Call : Active(d)' => CoversAt(first, evals[d].now)'
        BY <1>1
    <3>1. CoversAt(first, now)' = CoversAt(first, evals[c].now)'
        BY <1>1 DEF CoversAt, Gain
    <3> QED
        BY <2>2, <2>5, <3>1
  <2>7. Alone'
      BY <2>2 DEF Alone
  <2> QED
      BY <1>1, <2>1, <2>3, <2>4, <2>6, <2>7 DEF Settled
<1> QED
    BY <1>2, <1>3 DEF TInv, RefilledInTime

\* The refill is worth no more than the time since the bucket was written, and
\* fills it at most.
LEMMA RefilledGain ==
    ASSUME TypeOK, NEW now \in Nat
    PROVE  /\ Refilled(now) <= BurstCapacity
           /\ Refilled(now) <= burst.tokens + Refill(burst.last, now)
<1>1. Refilled(now) \in 0..BurstCapacity
    BY RefilledTokens
<1>2. /\ burst.tokens \in Nat /\ burst.last \in Nat /\ BurstCapacity \in Nat
      /\ BaseRequestsPerSecond \in Nat
    BY RedisAssumption DEF TypeOK
<1>3. \A a \in Int : a * BaseRequestsPerSecond = BaseRequestsPerSecond * a
    BY <1>2
<1>4. (IF now > burst.last THEN now - burst.last ELSE 0) * BaseRequestsPerSecond
        = Refill(burst.last, now)
    BY <1>2, <1>3 DEF Refill, Gain
<1>5. Refill(burst.last, now) \in Nat
    BY <1>2, RefillSetsBack
<1>6. Refilled(now) = IF burst.tokens + Refill(burst.last, now) > BurstCapacity
                      THEN BurstCapacity ELSE burst.tokens + Refill(burst.last, now)
    BY <1>4 DEF Refilled
<1> QED
    BY <1>2, <1>5, <1>6

LEMMA RecordTokens ==
    ASSUME TInv, TypeOK', Orderly', NEW c \in Call, NEW spike \in BOOLEAN, Record(c, spike)
    PROVE  TInv'
<1> DEFINE now == evals[c].now
<1>1. evals[c].stage = "recording" /\ UNCHANGED <<clock, burst, allowed, regained, overlapped>>
    BY DEF Record
<1>2. PICK e \in Eval : /\ evals' = [evals EXCEPT ![c] = e]
                        /\ e.now = now /\ e.stage # "idle"
                        /\ e.tokens + (IF e.allow THEN 1 ELSE 0) = Refilled(now)
    BY RecordDecides DEF TInv
<1>3. now \in Nat
    BY DEF TInv, TypeOK
<1>4. /\ evals'[c] = e
      /\ \A d \in Call : d # c => evals'[d] = evals[d]
    BY <1>2 DEF TInv, TypeOK
<1>5. TokensHold'
    BY <1>1 DEF TInv, TokensHold, Total
<1>6. ASSUME Settled
      PROVE  Settled'
  <2>1. Active(c)
      BY <1>1 DEF Active
  <2>2. \A d \in Call : Active(d)' => Active(d) /\ evals'[d].now = evals[d].now
      BY <1>2, <1>4, <2>1 DEF Active
  <2>3. Cost(c)' = Refilled(now)
      BY <1>2, <1>4 DEF Cost
  <2>4. Affordable(c)'
    <3>1. /\ Refilled(now) <= BurstCapacity
          /\ Refilled(now) <= burst.tokens + Refill(burst.last, now)
        BY <1>3, RefilledGain DEF TInv
    <3>2. evals'[c].now = now /\ burst' = burst
        BY <1>1, <1>2, <1>4
    <3> HIDE DEF now
    <3> QED
        BY <2>3, <3>1, <3>2 DEF Affordable, Refill, Gain
  <2>5. \A d \in Call : Decided(d)' => d = c
      BY <1>4, <1>6, <2>1, <2>2 DEF Settled, Alone, Active, Decided
  <2>6. Alone'
      BY <1>6, <2>2 DEF Settled, Alone
  <2>7. \A first \in Times : Covers(first)' = Covers(first)
      BY <1>1 DEF Covers, Since, Total, Gain
  <2>8. burst'.ttl = 0 =>
          \A first \in Times :
             /\ CoversAt(first, clock - MaxSkew)'
             /\ \A d \in Call : Active(d)' => CoversAt(first, evals[d].now)'
    <3> SUFFICES ASSUME burst.ttl = 0, NEW first \in Times
                 PROVE  /\ CoversAt(first, clock - MaxSkew)'
                        /\ \A d \in Call : Active(d)' => CoversAt(first, evals[d].now)'
        BY <1>1
    <3>1. CoversAt(first, clock - MaxSkew)'
        BY <1>1, <1>6 DEF Settled, CoversAt, Since, Total, Gain
    <3>2. ASSUME NEW d \in Call, Active(d)'
          PROVE  CoversAt(first, evals[d].now)'
      <4>1. CoversAt(first, evals[d].now) /\ evals'[d].now = evals[d].now
          BY <1>6, <2>2, <3>2 DEF Settled
      <4> QED
          BY <1>1, <4>1 DEF CoversAt, Since, Total, Gain
    <3> QED
        BY <3>1, <3>2
  <2>9. \A d \in Call : Decided(d)' => Affordable(d)'
      BY <2>4, <2>5
  <2> QED
      BY <1>1, <1>6, <2>6, <2>7, <2>8, <2>9 DEF Settled
<1> QED
    BY <1>1, <1>5, <1>6 DEF TInv, RefilledInTime

\* Before its key expires, the bucket is full by every replica's clock.
LEMMA TickTokens ==
    ASSUME TInv, TypeOK', Orderly', Tick
    PROVE  TInv'
<1>1. /\ clock' = clock + 1 /\ clock \in Nat
      /\ burst.last \in Nat /\ burst.ttl \in Nat
      /\ burst \in [tokens : 0..BurstCapacity, last : Nat, ttl : Nat]
      /\ burst' = IF burst.ttl = 1 THEN NoBucket ELSE [burst EXCEPT !.ttl = Less(burst.ttl)]
      /\ UNCHANGED <<evals, allowed, regained>>
    BY TimesFinite DEF Tick, TInv, TypeOK
<1>2. TokensHold'
  <2>1. overlapped => overlapped'
      BY DEF Tick
  <2> QED
      BY <1>1, <2>1 DEF TInv, TokensHold, RefilledInTime, Total
<1>3. ASSUME RefilledInTime, ~ overlapped'
      PROVE  Settled'
  <2>1. Settled /\ (burst.ttl = 1 => \A c \in Call : ~ Active(c))
      BY <1>3 DEF TInv, Tick, UnderWay, Active
  <2>2. /\ EventRetentionSeconds \in Nat /\ MaxSkew \in Nat
        /\ BaseRequestsPerSecond \in Nat /\ BurstCapacity \in Nat
        /\ regained \in Nat /\ burst.tokens \in Nat
      BY <1>1, RedisAssumption DEF TInv, TypeOK
  <2>3. Alone'
      BY <1>1, <2>1 DEF Settled, Alone, Active
  <2>4. CASE burst.ttl > 1
    <3>1. /\ burst'.tokens = burst.tokens /\ burst'.last = burst.last
          /\ burst'.ttl = burst.ttl - 1 /\ burst'.ttl > 0
        BY <1>1, <2>4 DEF Less
    <3>2. burst'.last + EventRetentionSeconds <= clock' + burst'.ttl
      <4>1. burst.last + EventRetentionSeconds <= clock + burst.ttl
          BY <1>1, <2>1, <2>4 DEF Settled
      <4> QED
          BY <1>1, <2>2, <3>1, <4>1
    <3>3. \A first \in Times : Covers(first)'
        BY <1>1, <2>1, <2>4, <3>1 DEF Settled, Covers, Since, Total, Gain
    <3>4. \A d \in Call : Decided(d)' => Affordable(d)'
        BY <1>1, <2>1, <3>1 DEF Settled, Decided, Affordable, Cost, Refill, Gain
    <3>5. ~ burst'.ttl = 0
        BY <3>1
    <3> QED
        BY <2>3, <3>2, <3>3, <3>4, <3>5 DEF Settled
  <2>5. CASE burst.ttl = 1
    <3>1. burst' = NoBucket /\ burst'.ttl = 0
        BY <1>1, <2>5 DEF NoBucket
    <3>2. \A d \in Call : ~ Active(d)' /\ ~ Decided(d)'
        BY <1>1, <2>1, <2>5 DEF Active, Decided
    <3>3. ASSUME NEW first \in Times
          PROVE  CoversAt(first, clock - MaxSkew)'
      <4> DEFINE full == burst.last + (EventRetentionSeconds - MaxSkew)
                 l == burst.last
      <4>1. Covers(first) /\ l + EventRetentionSeconds <= clock + 1
          BY <1>1, <2>1, <2>5 DEF Settled
      <4>2. /\ first \in Int /\ l \in Int /\ full \in Int
            /\ clock' - MaxSkew \in Int /\ full <= clock' - MaxSkew
          BY <1>1, <2>2, <4>1, TimesFinite
      <4>3. BurstCapacity <= Gain(l, full)
        <5>1. full - l = EventRetentionSeconds - MaxSkew
            BY <1>1, <2>2
        <5>2. Gain(l, full) = BaseRequestsPerSecond * (EventRetentionSeconds - MaxSkew)
            BY <5>1 DEF Gain
        <5>3. BaseRequestsPerSecond * (EventRetentionSeconds - MaxSkew) \in Int
            BY <2>2
        <5> QED
            BY <1>3, <2>2, <5>2, <5>3 DEF RefilledInTime
      <4> HIDE DEF full, l
      <4>4. /\ Gain(first, full) = Gain(first, l) + Gain(l, full)
            /\ Gain(first, l) \in Int /\ Gain(l, full) \in Int /\ Gain(first, full) \in Int
        <5>1. first \in Int /\ l \in Int /\ full \in Int
            BY <4>2
        <5> QED
            BY <5>1, GainChain
      <4>5. Gain(first, full) <= Gain(first, clock' - MaxSkew)
          BY <4>2, CoversLater
      <4>6. Gain(first, clock' - MaxSkew) \in Int
          BY <4>2, GainChain
      <4>7. Since(first) \in Nat
          BY TotalType DEF TInv, TypeOK, Since
      <4>8. \/ Since(first) = 0
            \/ Since(first) + burst.tokens <= BurstCapacity + regained + Gain(first, l)
          BY <4>1 DEF Covers, l
      <4>9. Since(first) = 0 \/ Since(first) <= regained + Gain(first, clock' - MaxSkew)
          BY <2>2, <4>3, <4>4, <4>5, <4>6, <4>7, <4>8
      <4> QED
          BY <1>1, <4>9 DEF CoversAt, Since, Total, Gain
    <3>4. ~ burst'.ttl > 0
        BY <3>1
    <3> QED
        BY <2>3, <3>2, <3>3, <3>4 DEF Settled
  <2>6. CASE burst.ttl = 0
    <3>1. burst' = burst
        BY <1>1, <2>6 DEF Less
    <3>2. ASSUME NEW first \in Times
          PROVE  CoversAt(first, clock - MaxSkew)'
      <4>1. CoversAt(first, clock - MaxSkew)
          BY <2>1, <2>6 DEF Settled
      <4>2. /\ first \in Int /\ clock - MaxSkew \in Int /\ clock' - MaxSkew \in Int
            /\ clock - MaxSkew <= clock' - MaxSkew
          BY <1>1, <2>2, TimesFinite
      <4>3. /\ Gain(first, clock - MaxSkew) <= Gain(first, clock' - MaxSkew)
            /\ Gain(first, clock - MaxSkew) \in Int
            /\ Gain(first, clock' - MaxSkew) \in Int
          BY <4>2, CoversLater, GainChain
      <4>4. Since(first) \in Nat
          BY TotalType DEF TInv, TypeOK, Since
      <4>5. Since(first) = 0 \/ Since(first) <= regained + Gain(first, clock' - MaxSkew)
          BY <2>2, <4>1, <4>3, <4>4 DEF CoversAt
      <4> QED
          BY <1>1, <4>5 DEF CoversAt, Since, Total, Gain
    <3>3. ASSUME NEW first \in Times, NEW d \in Call, Active(d)'
          PROVE  CoversAt(first, evals[d].now)'
      <4>1. CoversAt(first, evals[d].now)
          BY <1>1, <2>1, <2>6, <3>3 DEF Settled, Active
      <4> QED
          BY <1>1, <4>1 DEF CoversAt, Since, Total, Gain
    <3>4. \A d \in Call : Decided(d)' => Affordable(d)'
        BY <1>1, <2>1, <3>1 DEF Settled, Decided, Affordable, Cost, Refill, Gain
    <3>5. ~ burst'.ttl > 0
        BY <2>6, <3>1
    <3> QED
        BY <2>3, <3>2, <3>3, <3>4, <3>5 DEF Settled
  <2> QED
      BY <1>1, <2>4, <2>5, <2>6
<1> QED
    BY <1>1, <1>2, <1>3 DEF TInv, RefilledInTime

\* g is f with a more at t
Raised(f, g, t, a) ==
    \A from, to \in Nat :
        Total(g, from, to) = Total(f, from, to) + (IF from <= t /\ t <= to THEN a ELSE 0)

LEMMA RaisedAnswer ==
    ASSUME NEW f \in [Times -> Nat], NEW g, NEW t \in Times, NEW P,
           g = f \/ (P /\ g = [f EXCEPT ![t] = @ + 1])
    PROVE  \E a \in {0, 1} : (a = 1 => P) /\ Raised(f, g, t, a)
<1>1. CASE g = f
  <2>1. \A from, to \in Nat : Total(g, from, to) = Total(f, from, to) + 0
      BY <1>1, TotalType
  <2>2. Raised(f, g, t, 0)
      BY <1>1, <2>1 DEF Raised
  <2> QED
      BY <2>2
<1>2. CASE P /\ g = [f EXCEPT ![t] = @ + 1]
  <2>1. ASSUME NEW from \in Nat, NEW to \in Nat
        PROVE  Total(g, from, to)
                 = Total(f, from, to) + (IF from <= t /\ t <= to THEN 1 ELSE 0)
    <3>1. Total(f, from, to) \in Nat
        BY TotalType
    <3>2. from <= t /\ t <= to =>
            Total([f EXCEPT ![t] = @ + 1], from, to) = Total(f, from, to) + 1
        BY TotalCountUp
    <3>3. ~ (from <= t /\ t <= to) =>
            Total([f EXCEPT ![t] = @ + 1], from, to) = Total(f, from, to)
        BY TotalCountUp
    <3> QED
        BY <1>2, <3>1, <3>2, <3>3
  <2>2. Raised(f, g, t, 1)
      BY <2>1 DEF Raised
  <2> QED
      BY <1>2, <2>2
<1> QED
    BY <1>1, <1>2

\* What the bucket covers after a write, in numbers: a is the token given, u what
\* the bucket held for the evaluation.
LEMMA CoverSum ==
    ASSUME NEW sum \in Nat, NEW sumNow \in Nat, NEW a \in {0, 1}, NEW left \in Nat,
           NEW u \in Nat, NEW k \in Nat, NEW cap \in Nat, NEW r \in Nat,
           NEW gainThen \in Int, NEW gainNow \in Int, NEW refill \in Nat, NEW back \in Nat,
           sumNow = sum + a \/ sumNow = sum,
           sumNow = sum + 1 => gainNow >= 0,
           left + a <= u, u <= cap,
           \/ sum = 0
           \/ /\ u <= k + refill
              /\ sum + k <= cap + r + gainThen
              /\ gainThen + refill = gainNow + back
           \/ sum <= r + gainNow
    PROVE  sumNow = 0 \/ sumNow + left <= cap + (r + back) + gainNow
OBVIOUS

\* The second transaction writes what the evaluation left, and the answer takes
\* the token that Cost counted; when it fails nobody is answered.
LEMMA AnswerTokens ==
    ASSUME TInv, TypeOK', Orderly', NEW c \in Call,
           evals[c].stage = "writing",
           evals' = [evals EXCEPT ![c] = Idle],
           Write(c),
           UNCHANGED <<clock, overlapped>>,
           \/ allowed' = allowed
           \/ evals[c].allow /\ allowed' = [allowed EXCEPT ![evals[c].now] = @ + 1]
    PROVE  TInv'
<1> DEFINE now == evals[c].now
           left == evals[c].tokens
           SinceNow(first) == Total(allowed', first, MaxClock)
<1>1. /\ ~ Active(c)'
      /\ \A d \in Call : d # c => evals'[d] = evals[d]
    BY DEF TInv, TypeOK, Active, Idle
<1>2. now \in Times /\ now \in Nat /\ now <= clock /\ clock \in Nat
    BY TimesFinite DEF TInv, Orderly, TypeOK
<1>3. /\ burst'.last = now /\ burst'.tokens = left /\ burst'.ttl = EventRetentionSeconds
      /\ left \in Nat /\ burst.tokens \in Nat /\ burst.last \in Nat /\ burst.ttl \in Nat
      /\ BurstCapacity \in Nat /\ EventRetentionSeconds \in Nat \ {0}
      /\ regained \in Nat /\ MaxClock \in Nat /\ now <= MaxClock
  <2>1. burst' = [tokens |-> left, last |-> now, ttl |-> EventRetentionSeconds]
      BY DEF Write, Written
  <2>2. /\ left \in Nat /\ burst.tokens \in Nat /\ burst.last \in Nat /\ burst.ttl \in Nat
        /\ BurstCapacity \in Nat /\ EventRetentionSeconds \in Nat \ {0}
        /\ regained \in Nat /\ MaxClock \in Nat
      BY RedisAssumption DEF TInv, TypeOK
  <2>3. now <= MaxClock
      BY <1>2, <2>2 DEF Times
  <2> QED
      BY <2>1, <2>2, <2>3
<1>4. allowed \in [Times -> Nat] /\ allowed' \in [Times -> Nat]
    BY DEF TInv, TypeOK
<1>5. PICK a \in {0, 1} : (a = 1 => evals[c].allow) /\ Raised(allowed, allowed', now, a)
    BY <1>2, <1>4, RaisedAnswer
<1>6. \A from, to \in Nat :
        Total(allowed', from, to)
          = Total(allowed, from, to) + (IF from <= now /\ now <= to THEN a ELSE 0)
    BY <1>5 DEF Raised
<1>7. /\ regained' = regained + Refill(now, burst.last)
      /\ Refill(now, burst.last) \in Nat /\ Refill(burst.last, now) \in Nat
      /\ Refill(burst.last, now) = Gain(burst.last, now) + Refill(now, burst.last)
  <2>1. SetBack(c) = Refill(now, burst.last)
      BY DEF SetBack, Refill, Gain
  <2> QED
      BY <1>2, <1>3, <2>1, RefillSetsBack DEF Write
<1>8. CASE ~ (RefilledInTime /\ ~ overlapped)
    BY <1>8 DEF TInv, TokensHold, RefilledInTime
<1>9. CASE RefilledInTime /\ ~ overlapped
  <2>1. Settled /\ Active(c) /\ Decided(c)
      BY <1>9 DEF TInv, Active, Decided
  <2>2. \A d \in Call : ~ Active(d)'
      BY <1>1, <2>1 DEF Settled, Alone, Active
  <2>3. /\ Cost(c) \in Nat /\ left + a <= Cost(c)
        /\ Cost(c) <= BurstCapacity
        /\ Cost(c) <= burst.tokens + Refill(burst.last, now)
    <3>1. left + a <= Cost(c) /\ Cost(c) \in Nat
        BY <1>3, <1>5 DEF Cost
    <3> QED
        BY <2>1, <3>1 DEF Settled, Affordable
  <2>4. ASSUME NEW first \in Times
        PROVE  /\ SinceNow(first) = 0
                  \/ SinceNow(first) + left <= BurstCapacity + regained' + Gain(first, now)
               /\ SinceNow(first) \in Nat /\ Gain(first, now) \in Int
    <3>1. first \in Nat /\ first \in Int
        BY TimesFinite
    <3>2. Since(first) \in Nat /\ SinceNow(first) \in Nat
        BY <1>4, TotalType DEF Since
    <3>3. /\ SinceNow(first) = Since(first) + a \/ SinceNow(first) = Since(first)
          /\ SinceNow(first) = Since(first) + 1 => first <= now
      <4>1. SinceNow(first) = Since(first) + (IF first <= now THEN a ELSE 0)
          BY <1>3, <1>6, <3>1 DEF Since
      <4> HIDE DEF SinceNow, now
      <4> QED
          BY <1>2, <1>5, <3>1, <3>2, <4>1
    <3>4. /\ Gain(first, now) = Gain(first, burst.last) + Gain(burst.last, now)
          /\ Gain(first, now) \in Int /\ Gain(first, burst.last) \in Int
          /\ Gain(burst.last, now) \in Int
          /\ first <= now => Gain(first, now) \in Nat
      <4> DEFINE l == burst.last
      <4>1. l \in Int /\ now \in Int
          BY <1>2, <1>3
      <4> HIDE DEF l, now
      <4>2. /\ Gain(first, now) = Gain(first, l) + Gain(l, now)
            /\ Gain(first, now) \in Int /\ Gain(first, l) \in Int /\ Gain(l, now) \in Int
            /\ first <= now => Gain(first, now) \in Nat
          BY <3>1, <4>1, GainChain
      <4> QED
          BY <4>2 DEF l
    <3>5. \/ Since(first) = 0
          \/ /\ Cost(c) <= burst.tokens + Refill(burst.last, now)
             /\ Since(first) + burst.tokens
                  <= BurstCapacity + regained + Gain(first, burst.last)
             /\ Gain(first, burst.last) + Refill(burst.last, now)
                  = Gain(first, now) + Refill(now, burst.last)
          \/ Since(first) <= regained + Gain(first, now)
      <4>1. CASE burst.ttl > 0
        <5>1. Covers(first)
            BY <2>1, <4>1 DEF Settled
        <5>2. Gain(first, burst.last) + Refill(burst.last, now)
                = Gain(first, now) + Refill(now, burst.last)
          <6> HIDE DEF now
          <6> QED
              BY <1>7, <3>4
        <5> QED
            BY <2>3, <5>1, <5>2 DEF Covers
      <4>2. CASE burst.ttl = 0
          BY <2>1, <4>2 DEF Settled, CoversAt
      <4> QED
          BY <1>3, <4>1, <4>2
    <3>6. SinceNow(first) = Since(first) + 1 => Gain(first, now) >= 0
        BY <3>3, <3>4
    <3> HIDE DEF SinceNow, now, left
    <3>7. SinceNow(first) = 0
          \/ SinceNow(first) + left
               <= BurstCapacity + (regained + Refill(now, burst.last)) + Gain(first, now)
        BY <1>3, <1>5, <1>7, <2>3, <3>2, <3>3, <3>4, <3>5, <3>6, CoverSum
    <3> QED
        BY <1>7, <3>2, <3>4, <3>7
  <2>5. TokensHold'
    <3> SUFFICES ASSUME NEW first \in Times, NEW last \in Times, first <= last
                 PROVE  Total(allowed', first, last)
                          <= BurstCapacity + Gain(first, last) + regained'
        BY DEF TokensHold, Total, Gain
    <3>1. /\ first \in Nat /\ last \in Nat /\ first \in Int /\ last \in Int
          /\ Gain(first, last) \in Nat /\ regained' \in Nat
          /\ Total(allowed', first, last) \in Nat /\ Total(allowed, first, last) \in Nat
      <4>1. first \in Nat /\ last \in Nat /\ first \in Int /\ last \in Int
          BY TimesFinite
      <4>2. Gain(first, last) \in Nat
          BY <4>1, GainChain
      <4>3. Total(allowed', first, last) \in Nat /\ Total(allowed, first, last) \in Nat
          BY <1>4, TotalType
      <4> QED
          BY <4>1, <4>2, <4>3 DEF TypeOK
    <3>2. CASE first <= now /\ now <= last
      <4>1. Total(allowed', first, last) <= SinceNow(first)
          BY <1>4, <3>1, TotalOpen
      <4>2. Gain(first, now) <= Gain(first, last)
        <5>1. now \in Int
            BY <1>2
        <5> QED
            BY <3>1, <3>2, <5>1, CoversLater
      <4>3. /\ SinceNow(first) = 0
               \/ SinceNow(first) + left <= BurstCapacity + regained' + Gain(first, now)
            /\ SinceNow(first) \in Nat /\ Gain(first, now) \in Int
          BY <2>4
      <4> HIDE DEF SinceNow, now, left
      <4> QED
          BY <1>3, <3>1, <4>1, <4>2, <4>3
    <3>3. CASE ~ (first <= now /\ now <= last)
      <4>1. Total(allowed', first, last) = Total(allowed, first, last) + 0
        <5> HIDE DEF now
        <5> QED
            BY <1>6, <3>1, <3>3
      <4>2. Total(allowed, first, last) <= BurstCapacity + Gain(first, last) + regained
          BY <1>9 DEF TInv, TokensHold, Gain
      <4>3. regained <= regained'
        <5> HIDE DEF now
        <5> QED
            BY <1>3, <1>7
      <4> QED
          BY <1>3, <3>1, <4>1, <4>2, <4>3
    <3> QED
        BY <3>2, <3>3
  <2>6. \A first \in Times : Covers(first)'
      BY <1>3, <2>4 DEF Covers, Since, Total, Gain
  <2>7. \A d \in Call : Decided(d)' => Active(d)'
      BY DEF Decided, Active
  <2>8. burst'.last + EventRetentionSeconds <= clock' + burst'.ttl
      BY <1>2, <1>3
  <2>9. ~ burst'.ttl = 0
      BY <1>3
  <2>10. Settled'
      BY <2>2, <2>6, <2>7, <2>8, <2>9 DEF Settled, Alone
  <2> QED
      BY <2>5, <2>10 DEF TInv
<1> QED
    BY <1>8, <1>9

LEMMA BetweenTokens ==
    ASSUME TInv, TypeOK', Orderly', NEW c \in Call,
           \/ CheckBlock(c) \/ RecordFails(c) \/ CountAbuse(c)
           \/ CountFails(c) \/ ExpireAbuse(c) \/ SetBlock(c)
    PROVE  TInv'
<1>1. evals[c] \in Eval /\ Idle.stage = "idle"
    BY DEF TInv, TypeOK, Eval, Idle
<1>2. UNCHANGED <<clock, burst, allowed, regained, overlapped>> /\ Active(c)
    BY DEF CheckBlock, RecordFails, CountAbuse, CountFails, ExpireAbuse, SetBlock, Active
<1>3. PICK e : /\ evals' = [evals EXCEPT ![c] = e]
               /\ \/ e.stage = "idle"
                  \/ e.now = evals[c].now /\ e.stage = "recording"
                  \/ /\ e.now = evals[c].now /\ e.tokens = evals[c].tokens
                     /\ e.allow = evals[c].allow /\ Decided(c)
  <2>1. CASE CheckBlock(c)
    <3>1. PICK e \in {Idle, [evals[c] EXCEPT !.stage = "recording"]} :
              evals' = [evals EXCEPT ![c] = e]
        BY <2>1 DEF CheckBlock, Becomes
    <3> QED
        BY <1>1, <3>1 DEF Eval
  <2>2. CASE RecordFails(c)
      BY <1>1, <2>2 DEF RecordFails, Becomes
  <2>3. CASE CountAbuse(c)
    <3> DEFINE e == [evals[c] EXCEPT !.stage = "expiring", !.abuses = abuse.count + 1]
    <3>1. evals' = [evals EXCEPT ![c] = e] /\ Decided(c)
        BY <2>3 DEF CountAbuse, Becomes, Decided
    <3>2. e.now = evals[c].now /\ e.tokens = evals[c].tokens /\ e.allow = evals[c].allow
        BY <1>1 DEF Eval
    <3> QED
        BY <3>1, <3>2
  <2>4. CASE CountFails(c)
    <3>1. evals' = [evals EXCEPT ![c] = AfterCount(evals[c], 1)] /\ Decided(c)
        BY <2>4 DEF CountFails, Becomes, Decided
    <3> QED
        BY <1>1, <3>1, AfterCountKeeps
  <2>5. CASE ExpireAbuse(c)
    <3>1. evals' = [evals EXCEPT ![c] = AfterCount(evals[c], evals[c].abuses)] /\ Decided(c)
        BY <2>5 DEF ExpireAbuse, Becomes, Decided
    <3> QED
        BY <1>1, <3>1, AfterCountKeeps
  <2>6. CASE SetBlock(c)
    <3>1. PICK e \in {Idle, [evals[c] EXCEPT !.stage = "writing"]} :
              evals' = [evals EXCEPT ![c] = e]
        BY <2>6 DEF SetBlock, Becomes
    <3>2. Decided(c)
        BY <2>6 DEF SetBlock, Decided
    <3> QED
        BY <1>1, <3>1, <3>2 DEF Eval
  <2> QED
      BY <2>1, <2>2, <2>3, <2>4, <2>5, <2>6
<1> QED
    BY <1>2, <1>3, QuietTokens

LEMMA StepTokens ==
    ASSUME TInv, TypeOK', Orderly', [Next]_redisVars
    PROVE  TInv'
<1>1. CASE UNCHANGED redisVars
  <2>1. TokensHold'
      BY <1>1 DEF redisVars, TInv, TokensHold, RefilledInTime, Total
  <2>2. Settled => Settled'
      BY <1>1 DEF redisVars, Settled, Alone, Active, Decided, Affordable, Cost, Covers,
                  CoversAt, Since, Total, Refill, Gain
  <2> QED
      BY <1>1, <2>1, <2>2 DEF redisVars, TInv, RefilledInTime
<1>2. ASSUME NEW c \in Call, WriteBack(c) \/ WriteFails(c)
      PROVE  TInv'
  <2>1. /\ evals[c].stage = "writing"
        /\ evals' = [evals EXCEPT ![c] = Idle]
        /\ UNCHANGED <<clock, overlapped>>
      BY <1>2 DEF WriteBack, WriteFails, Becomes
  <2>2. CASE WriteFails(c) /\ UNCHANGED <<burst, regained>>
    <3>1. Idle.stage = "idle" /\ Active(c) /\ UNCHANGED allowed
        BY <2>1, <2>2 DEF Idle, Active, WriteFails
    <3> QED
        BY <2>1, <2>2, <3>1, QuietTokens
  <2>3. CASE Write(c)
    <3>1. \/ allowed' = allowed
          \/ evals[c].allow /\ allowed' = [allowed EXCEPT ![evals[c].now] = @ + 1]
        BY <1>2 DEF WriteBack, WriteFails
    <3> QED
        BY <2>1, <2>3, <3>1, AnswerTokens
  <2>4. \/ WriteFails(c) /\ UNCHANGED <<burst, regained>>
        \/ Write(c)
      BY <1>2 DEF WriteBack, WriteFails
  <2> QED
      BY <2>2, <2>3, <2>4
<1> QED
    BY <1>1, <1>2, BeginTokens, RecordTokens, BetweenTokens, TickTokens DEF Next

\* As long as no two evaluations overlapped and none was held up beyond the
\* bucket's expiry, no period lets more through undelayed than the capacity, its
\* refill and what slower clocks set back, for every policy whose bucket is full
\* before its key expires, every skew, and whichever transactions fail half way.
THEOREM TokensAlwaysHold == Spec => []TokensHold
<1>1. Init => TInv
    BY InitInv, InitWindow, InitTokens DEF IInv, WInv
<1>2. (IInv /\ WInv) /\ (IInv /\ WInv)' /\ TInv /\ [Next]_redisVars => TInv'
    BY StepTokens DEF IInv, WInv
<1>3. TInv => TokensHold
    BY DEF TInv
<1> QED
    BY <1>1, <1>2, <1>3, OrderInvariance, PTL DEF Spec

-----------------------------------------------------------------------------
(* The user who keeps to the rate *)

Modest ==
    \A first \in Times :
        Total(asked, first, first + SlidingWindowSeconds - 1) <= WindowLimit

\* an evaluation has read t and has still to record it
Pending(t) == \E c \in Call : Unrecorded(c) /\ evals[c].now = t

\* the members that f counts lie in a window from first on
FitsFrom(f, first) ==
    \A t \in Times : f[t] # 0 => first <= t /\ t < first + SlidingWindowSeconds

Fits(f) == \E first \in Times : FitsFrom(f, first)

\* The window holds no more than was asked, readings still to be recorded
\* included, its members are no further apart than a window, and nobody is on the
\* way to a block of a user who is modest.
Accounted ==
    /\ Alone
    /\ \A c \in Call : Unrecorded(c) =>
         \A t \in Times : window[t] # 0 => t <= evals[c].now + MaxSkew
    /\ Fits(window)
    /\ \A t \in Times : window[t] + (IF Pending(t) THEN 1 ELSE 0) <= asked[t]
    /\ Modest => /\ abuse.count = 0 /\ blockTTL = 0
                 /\ \A c \in Call : evals[c].stage \notin {"counting", "expiring", "blocking"}

SmallSkew == MaxSkew < SlidingWindowSeconds

MInv == TypeOK /\ Orderly /\ (SmallSkew /\ ~ overlapped => Accounted)

LEMMA InitModest ==
    ASSUME Init, TypeOK, Orderly
    PROVE  MInv
<1>1. 1 \in Times
    BY RedisAssumption DEF Times
<1>2. \A t \in Times : window[t] = 0
    BY DEF Init
<1>3. Fits(window)
    BY <1>1, <1>2 DEF Fits, FitsFrom
<1> QED
    BY <1>3 DEF Init, MInv, Accounted, Alone, Active, Unrecorded, Pending, Idle, NoKey

\* A step that only moves c on, and counts no abuse of a modest user.
LEMMA QuietModest ==
    ASSUME MInv, TypeOK', Orderly', NEW c \in Call, NEW e,
           Active(c),
           evals' = [evals EXCEPT ![c] = e],
           UNCHANGED <<window, asked, overlapped>>,
           e.stage \in {"checking", "recording"} => Unrecorded(c) /\ e.now = evals[c].now,
           e.stage \notin {"counting", "expiring", "blocking"} \/ ~ Modest
               \/ evals[c].stage \in {"counting", "expiring", "blocking"},
           UNCHANGED <<abuse, blockTTL>>
               \/ evals[c].stage \in {"counting", "expiring", "blocking"}
    PROVE  MInv'
<1>1. /\ evals'[c] = e
      /\ \A d \in Call : d # c => evals'[d] = evals[d]
    BY DEF MInv, TypeOK
<1>2. ASSUME Accounted
      PROVE  Accounted'
  <2>1. \A d \in Call : Unrecorded(d)' => Unrecorded(d) /\ evals'[d].now = evals[d].now
      BY <1>1 DEF Unrecorded
  <2>2. \A d \in Call : Active(d)' => Active(d)
      BY <1>1 DEF Active
  <2>3. Alone'
      BY <1>2, <2>2 DEF Accounted, Alone
  <2>4. ASSUME NEW d \in Call, Unrecorded(d)', NEW t \in Times, window'[t] # 0
        PROVE  t <= evals'[d].now + MaxSkew
      BY <1>2, <2>1, <2>4 DEF Accounted
  <2>5. ASSUME NEW t \in Times
        PROVE  window'[t] + (IF Pending(t)' THEN 1 ELSE 0) <= asked'[t]
    <3>1. Pending(t)' => Pending(t)
        BY <2>1 DEF Pending
    <3>2. window[t] \in Nat /\ asked[t] \in Nat
        BY DEF MInv, TypeOK
    <3>3. window[t] + (IF Pending(t) THEN 1 ELSE 0) <= asked[t]
        BY <1>2 DEF Accounted
    <3> HIDE DEF Pending
    <3> QED
        BY <3>1, <3>2, <3>3
  <2>6. (Modest' <=> Modest) /\ Fits(window)'
      BY <1>2 DEF Modest, Total, Accounted, Fits, FitsFrom
  <2>7. ASSUME Modest
        PROVE  /\ abuse'.count = 0 /\ blockTTL' = 0
               /\ \A d \in Call : evals'[d].stage \notin {"counting", "expiring", "blocking"}
    <3>1. \A d \in Call : evals[d].stage \notin {"counting", "expiring", "blocking"}
        BY <1>2, <2>7 DEF Accounted
    <3>2. e.stage \notin {"counting", "expiring", "blocking"} /\ UNCHANGED <<abuse, blockTTL>>
        BY <2>7, <3>1
    <3> QED
        BY <1>1, <1>2, <2>7, <3>1, <3>2 DEF Accounted
  <2> QED
      BY <2>3, <2>4, <2>5, <2>6, <2>7 DEF Accounted
<1> QED
    BY <1>2 DEF MInv

LEMMA BeginModest ==
    ASSUME MInv, TypeOK', Orderly', NEW c \in Call, NEW now \in Times, Begin(c, now)
    PROVE  MInv'
<1>1. /\ evals'[c].stage = "checking" /\ evals'[c].now = now
      /\ \A d \in Call : d # c => evals'[d] = evals[d]
      /\ UNCHANGED <<clock, window, abuse, blockTTL>>
      /\ clock \in Times /\ clock - MaxSkew <= now
    BY DEF MInv, TypeOK, Begin, Becomes, Idle
<1>2. asked \in [Times -> Nat] /\ asked' \in [Times -> Nat] /\ window \in [Times -> Nat]
    BY DEF MInv, TypeOK
<1>3. asked' = [asked EXCEPT ![now] = @ + 1]
    BY DEF Begin
<1>4. ASSUME SmallSkew, ~ overlapped'
      PROVE  Accounted'
  <2>1. Accounted /\ \A d \in Call : ~ Active(d)
      BY <1>4 DEF MInv, Begin, Active, UnderWay
  <2>2. \A d \in Call : (Active(d)' \/ Unrecorded(d)') => d = c
      BY <1>1, <2>1 DEF Active, Unrecorded
  <2>3. Alone'
      BY <2>2 DEF Alone
  <2>4. ASSUME NEW d \in Call, Unrecorded(d)', NEW t \in Times, window'[t] # 0
        PROVE  t <= evals'[d].now + MaxSkew
    <3>1. t <= clock
        BY <1>1, <2>4 DEF MInv, Orderly
    <3>2. t \in Nat /\ clock \in Nat /\ now \in Nat /\ MaxSkew \in Nat
        BY <1>1, TimesFinite, RedisAssumption
    <3>3. evals'[d].now = now
        BY <1>1, <2>2, <2>4
    <3> QED
        BY <1>1, <3>1, <3>2, <3>3
  <2>5. ASSUME NEW t \in Times
        PROVE  window'[t] + (IF Pending(t)' THEN 1 ELSE 0) <= asked'[t]
    <3>1. window[t] + (IF Pending(t) THEN 1 ELSE 0) <= asked[t]
        BY <2>1 DEF Accounted
    <3>2. window[t] \in Nat /\ asked[t] \in Nat
        BY <1>2
    <3>3. window[t] <= asked[t]
      <4> HIDE DEF Pending
      <4> QED
          BY <3>1, <3>2
    <3>4. Pending(t)' => t = now
        BY <1>1, <2>2 DEF Pending
    <3>5. asked'[t] = IF t = now THEN asked[t] + 1 ELSE asked[t]
        BY <1>1, <1>2, <1>3
    <3> HIDE DEF Pending
    <3> QED
        BY <1>1, <3>2, <3>3, <3>4, <3>5
  <2>6. Modest' => Modest
    <3>1. ASSUME NEW first \in Times, NEW to \in Int
          PROVE  /\ Total(asked, first, to) <= Total(asked', first, to)
                 /\ Total(asked, first, to) \in Nat /\ Total(asked', first, to) \in Nat
      <4> DEFINE S == {t \in Times : first <= t /\ t <= to}
      <4>1. IsFiniteSet(S)
          BY TimesFinite, FS_Subset
      <4>2. \A t \in S : asked[t] \in Nat /\ asked'[t] \in Nat /\ asked[t] <= asked'[t]
          BY <1>2, <1>3
      <4>3. Total(asked, first, to) = SumOver(asked, S)
            /\ Total(asked', first, to) = SumOver(asked', S)
          BY DEF Total
      <4> HIDE DEF S
      <4>4. SumOver(asked, S) <= SumOver(asked', S)
          BY <4>1, <4>2, SumMonotone
      <4>5. SumOver(asked, S) \in Nat /\ SumOver(asked', S) \in Nat
          BY <4>1, <4>2, SumType
      <4> QED
          BY <4>3, <4>4, <4>5
    <3>2. ASSUME Modest', NEW first \in Times
          PROVE  Total(asked, first, first + SlidingWindowSeconds - 1) <= WindowLimit
      <4> DEFINE to == first + SlidingWindowSeconds - 1
      <4>1. to \in Int
          BY TimesFinite, RedisAssumption
      <4>2. Total(asked', first, to) <= WindowLimit
          BY <3>2 DEF Modest, Total
      <4> HIDE DEF to
      <4>3. Total(asked, first, to) <= WindowLimit
          BY <3>1, <4>1, <4>2, WindowLimitType
      <4> QED
          BY <4>3 DEF to
    <3> QED
        BY <3>2 DEF Modest
  <2>7. ASSUME Modest'
        PROVE  /\ abuse'.count = 0 /\ blockTTL' = 0
               /\ \A d \in Call : evals'[d].stage \notin {"counting", "expiring", "blocking"}
      BY <1>1, <2>1, <2>6, <2>7 DEF Accounted
  <2>8. Fits(window)'
      BY <1>1, <2>1 DEF Accounted, Fits, FitsFrom
  <2> QED
      BY <2>3, <2>4, <2>5, <2>7, <2>8 DEF Accounted
<1> QED
    BY <1>4 DEF MInv

\* Recording turns a pending reading into a member of the window.
LEMMA RecordedAsked ==
    ASSUME MInv, Accounted, NEW c \in Call, evals[c].stage = "recording", NEW t \in Times
    PROVE  Recorded(evals[c].now)[t] <= asked[t]
<1> DEFINE now == evals[c].now
<1>1. now \in Times /\ now \in Nat /\ t \in Nat /\ Unrecorded(c)
    BY TimesFinite DEF MInv, Orderly, Unrecorded
<1>2. window[t] \in Nat /\ asked[t] \in Nat
    BY DEF MInv, TypeOK
<1>3. window[t] + (IF Pending(t) THEN 1 ELSE 0) <= asked[t]
    BY DEF Accounted
<1>4. t = now => Pending(t)
    BY <1>1 DEF Pending
<1>5. Recorded(now)[t] = (IF t <= now - SlidingWindowSeconds THEN 0 ELSE window[t])
                         + (IF t = now THEN 1 ELSE 0)
    BY DEF Recorded
<1> HIDE DEF Pending, now
<1>6. Recorded(now)[t] <= asked[t]
    BY <1>1, <1>2, <1>3, <1>4, <1>5
<1> QED
    BY <1>6 DEF now

\* A later reading removes what would be too far apart from it; an earlier one is
\* behind by no more than the skew.
LEMMA RecordedFits ==
    ASSUME MInv, Accounted, SmallSkew, NEW c \in Call, evals[c].stage = "recording"
    PROVE  Fits(Recorded(evals[c].now))
<1> DEFINE now == evals[c].now
           W == SlidingWindowSeconds
<1>1. now \in Times /\ now \in Nat /\ Unrecorded(c)
    BY TimesFinite DEF MInv, Orderly, Unrecorded
<1>2. PICK first \in Times : FitsFrom(window, first)
    BY DEF Accounted, Fits
<1>3. first \in Nat /\ W \in Nat \ {0} /\ MaxSkew \in Nat /\ MaxSkew < W
    BY TimesFinite, RedisAssumption DEF SmallSkew
<1>4. ASSUME NEW t \in Times, Recorded(now)[t] # 0
      PROVE  /\ t \in Nat
             /\ \/ t = now
                \/ /\ first <= t /\ t < first + W
                   /\ now < t + W /\ t <= now + MaxSkew
  <2>1. t \in Nat /\ window[t] \in Nat
      BY TimesFinite DEF MInv, TypeOK
  <2>2. Recorded(now)[t] = (IF t <= now - W THEN 0 ELSE window[t]) + (IF t = now THEN 1 ELSE 0)
      BY DEF Recorded
  <2>3. t # now => window[t] # 0 /\ ~ t <= now - W
    <3> HIDE DEF now, W
    <3> QED
        BY <1>4, <2>1, <2>2
  <2>4. window[t] # 0 => first <= t /\ t < first + W /\ t <= now + MaxSkew
      BY <1>1, <1>2 DEF FitsFrom, Accounted
  <2> HIDE DEF now, W
  <2> QED
      BY <1>1, <1>3, <2>1, <2>3, <2>4
<1>5. CASE now < first
  <2>1. FitsFrom(Recorded(now), now)
    <3> SUFFICES ASSUME NEW t \in Times, Recorded(now)[t] # 0
                 PROVE  now <= t /\ t < now + W
        BY DEF FitsFrom
    <3> HIDE DEF now, W
    <3> QED
        BY <1>1, <1>3, <1>4, <1>5
  <2> QED
      BY <1>1, <2>1 DEF Fits
<1>6. CASE first <= now /\ now < first + W
  <2>1. FitsFrom(Recorded(now), first)
    <3> SUFFICES ASSUME NEW t \in Times, Recorded(now)[t] # 0
                 PROVE  first <= t /\ t < first + W
        BY DEF FitsFrom
    <3> HIDE DEF now, W
    <3> QED
        BY <1>1, <1>3, <1>4, <1>6
  <2> QED
      BY <2>1 DEF Fits
<1>7. CASE first + W <= now
  <2> DEFINE start == now - W + 1
  <2>1. start \in Times
    <3>1. first \in 1..MaxClock /\ now \in 1..MaxClock /\ MaxClock \in Nat
        BY <1>1, RedisAssumption DEF Times
    <3>2. start \in 1..MaxClock
        BY <1>1, <1>3, <1>7, <3>1
    <3> QED
        BY <3>2 DEF Times
  <2>2. FitsFrom(Recorded(now), start)
    <3> SUFFICES ASSUME NEW t \in Times, Recorded(now)[t] # 0
                 PROVE  start <= t /\ t < start + W
        BY DEF FitsFrom
    <3> HIDE DEF now, W
    <3> QED
        BY <1>1, <1>3, <1>4, <1>7
  <2> QED
      BY <2>1, <2>2 DEF Fits
<1> QED
    BY <1>1, <1>3, <1>5, <1>6, <1>7

\* What a modest user's evaluation counts is within the rate.
LEMMA ModestCount ==
    ASSUME MInv, Accounted, SmallSkew, Modest, NEW c \in Call, evals[c].stage = "recording"
    PROVE  Total(Recorded(evals[c].now), 1, MaxClock) <= WindowLimit
<1> DEFINE f == Recorded(evals[c].now)
<1>0. PICK first \in Times : FitsFrom(f, first)
    BY RecordedFits DEF Fits
<1> DEFINE to == first + SlidingWindowSeconds - 1
           S == {t \in Times : first <= t /\ t <= to}
           T == Times \ S
<1>1. evals[c].now \in Nat
    BY DEF MInv, TypeOK
<1>2. f \in [Times -> Nat] /\ asked \in [Times -> Nat]
    BY <1>1, RecordedType DEF MInv, TypeOK
<1>3. \A t \in Times : f[t] <= asked[t] /\ (t \notin S => f[t] = 0)
  <2> TAKE t \in Times
  <2>1. f[t] <= asked[t]
      BY RecordedAsked
  <2>2. ASSUME f[t] # 0
        PROVE  t \in S
    <3>1. first <= t /\ t < first + SlidingWindowSeconds
        BY <1>0, <2>2 DEF FitsFrom
    <3>2. t \in Nat /\ first \in Nat /\ SlidingWindowSeconds \in Nat
        BY TimesFinite, RedisAssumption
    <3>3. t <= first + SlidingWindowSeconds - 1
        BY <3>1, <3>2
    <3> QED
        BY <3>1, <3>3
  <2> QED
      BY <2>1, <2>2
<1>4. /\ IsFiniteSet(S) /\ IsFiniteSet(T) /\ S \subseteq Times /\ T \subseteq Times
      /\ S \cup T = Times /\ S \cap T = {}
    BY TimesFinite, FS_Subset
<1>5. {t \in Times : 1 <= t /\ t <= MaxClock} = Times
    BY RedisAssumption DEF Times
<1>6. SumOver(asked, S) <= WindowLimit
    BY DEF Modest, Total
<1>7. Total(f, 1, MaxClock) = SumOver(f, Times)
    BY <1>5 DEF Total
<1> HIDE DEF S, T, f
<1>8. /\ SumOver(f, S) \in Nat /\ SumOver(asked, S) \in Nat
      /\ SumOver(f, S) <= SumOver(asked, S)
      /\ SumOver(f, T) = 0
      /\ SumOver(f, S \cup T) = SumOver(f, S) + SumOver(f, T)
  <2>1. \A t \in S : f[t] \in Nat /\ asked[t] \in Nat /\ f[t] <= asked[t]
      BY <1>2, <1>3, <1>4
  <2>2. \A t \in T : f[t] = 0
    <3>1. \A t \in T : t \in Times /\ t \notin S
        BY DEF T
    <3> QED
        BY <1>3, <3>1
  <2>3. \A t \in S \cup T : f[t] \in Nat
      BY <1>2, <1>4
  <2>4. SumOver(f, S) \in Nat /\ SumOver(asked, S) \in Nat
      BY <1>4, <2>1, SumType
  <2>5. SumOver(f, S) <= SumOver(asked, S)
      BY <1>4, <2>1, SumMonotone
  <2>6. SumOver(f, T) = 0
      BY <2>2, SumZero
  <2>7. SumOver(f, S \cup T) = SumOver(f, S) + SumOver(f, T)
      BY <1>4, <2>3, SumDisjoint
  <2> QED
      BY <2>4, <2>5, <2>6, <2>7
<1>9. Total(f, 1, MaxClock) = SumOver(f, S)
    BY <1>4, <1>7, <1>8
<1> QED
    BY <1>6, <1>8, <1>9, WindowLimitType DEF f

LEMMA RecordedModest ==
    ASSUME MInv, TypeOK', Orderly', NEW c \in Call, NEW e,
           evals[c].stage = "recording",
           evals' = [evals EXCEPT ![c] = e],
           window' = Recorded(evals[c].now),
           UNCHANGED <<asked, abuse, blockTTL, overlapped>>,
           e.stage \notin {"checking", "recording"},
           e.stage \in {"counting", "expiring", "blocking"} =>
               ~ Total(Recorded(evals[c].now), 1, MaxClock) <= WindowLimit
    PROVE  MInv'
<1>1. /\ evals'[c] = e
      /\ \A d \in Call : d # c => evals'[d] = evals[d]
      /\ Active(c)
    BY DEF MInv, TypeOK, Active
<1>2. ASSUME Accounted, SmallSkew
      PROVE  Accounted'
  <2>1. \A d \in Call : Active(d)' => Active(d)
      BY <1>1 DEF Active
  <2>2. Alone'
      BY <1>2, <2>1 DEF Accounted, Alone
  <2>3. \A d \in Call : ~ Unrecorded(d)'
      BY <1>1, <1>2 DEF Accounted, Alone, Active, Unrecorded
  <2>4. ASSUME NEW t \in Times
        PROVE  window'[t] + (IF Pending(t)' THEN 1 ELSE 0) <= asked'[t]
    <3>1. ~ Pending(t)' /\ window'[t] <= asked[t] /\ window'[t] \in Nat
        BY <1>2, <2>3, RecordedAsked DEF Pending, TypeOK
    <3> HIDE DEF Pending
    <3> QED
        BY <3>1
  <2>5. Modest' <=> Modest
      BY DEF Modest, Total
  <2>6. ASSUME Modest
        PROVE  /\ abuse'.count = 0 /\ blockTTL' = 0
               /\ \A d \in Call : evals'[d].stage \notin {"counting", "expiring", "blocking"}
    <3>1. e.stage \notin {"counting", "expiring", "blocking"}
        BY <1>2, <2>6, ModestCount
    <3> QED
        BY <1>1, <1>2, <2>6, <3>1 DEF Accounted
  <2>7. Fits(window)'
    <3>1. Fits(Recorded(evals[c].now))
        BY <1>2, RecordedFits
    <3> QED
        BY <3>1 DEF Fits, FitsFrom
  <2> QED
      BY <2>2, <2>3, <2>4, <2>5, <2>6, <2>7 DEF Accounted
<1> QED
    BY <1>2 DEF MInv

LEMMA RecordModest ==
    ASSUME MInv, TypeOK', Orderly', NEW c \in Call, NEW spike \in BOOLEAN, Record(c, spike)
    PROVE  MInv'
<1>1. evals[c].stage = "recording" /\ window' = Recorded(evals[c].now)
      /\ UNCHANGED <<asked, abuse, blockTTL, overlapped>>
    BY DEF Record
<1>2. PICK e \in Eval :
         /\ evals' = [evals EXCEPT ![c] = e]
         /\ e.stage \in {"counting", "writing"}
         /\ e.stage = "counting" =>
              ~ Total(Recorded(evals[c].now), 1, MaxClock) <= WindowLimit
    BY RecordDecides DEF MInv
<1> QED
    BY <1>1, <1>2, RecordedModest

LEMMA RecordFailsModest ==
    ASSUME MInv, TypeOK', Orderly', NEW c \in Call, RecordFails(c)
    PROVE  MInv'
<1>1. /\ evals[c].stage = "recording" /\ Active(c)
      /\ evals' = [evals EXCEPT ![c] = Idle]
      /\ window' = window \/ window' = Recorded(evals[c].now)
      /\ UNCHANGED <<asked, abuse, blockTTL, overlapped>>
    BY DEF RecordFails, Becomes, Active
<1>2. Idle.stage = "idle"
    BY DEF Idle
<1>3. CASE window' = window
    BY <1>1, <1>2, <1>3, QuietModest
<1>4. CASE window' = Recorded(evals[c].now)
    BY <1>1, <1>2, <1>4, RecordedModest
<1> QED
    BY <1>1, <1>3, <1>4

LEMMA OtherModest ==
    ASSUME MInv, TypeOK', Orderly', NEW c \in Call,
           \/ CheckBlock(c) \/ CountAbuse(c) \/ CountFails(c)
           \/ ExpireAbuse(c) \/ SetBlock(c) \/ WriteBack(c) \/ WriteFails(c)
    PROVE  MInv'
<1>1. evals[c] \in Eval /\ Idle.stage = "idle"
    BY DEF MInv, TypeOK, Eval, Idle
<1>2. UNCHANGED <<window, asked, overlapped>> /\ Active(c)
    BY DEF CheckBlock, CountAbuse, CountFails, ExpireAbuse, SetBlock, WriteBack,
           WriteFails, Active
<1>3. CASE CheckBlock(c)
  <2>1. PICK e \in {Idle, [evals[c] EXCEPT !.stage = "recording"]} :
            evals' = [evals EXCEPT ![c] = e]
      BY <1>3 DEF CheckBlock, Becomes
  <2>2. \/ e.stage = "idle"
        \/ e.stage = "recording" /\ Unrecorded(c) /\ e.now = evals[c].now
      BY <1>1, <1>3, <2>1 DEF CheckBlock, Unrecorded, Eval
  <2>3. UNCHANGED <<abuse, blockTTL>>
      BY <1>3 DEF CheckBlock
  <2> QED
      BY <1>2, <2>1, <2>2, <2>3, QuietModest
<1>4. CASE CountAbuse(c) \/ CountFails(c) \/ ExpireAbuse(c) \/ SetBlock(c)
  <2>1. evals[c].stage \in {"counting", "expiring", "blocking"}
      BY <1>4 DEF CountAbuse, CountFails, ExpireAbuse, SetBlock
  <2>2. PICK e : evals' = [evals EXCEPT ![c] = e]
                 /\ e.stage \in {"idle", "expiring", "blocking", "writing"}
    <3>1. CASE CountAbuse(c)
      <4> DEFINE e == [evals[c] EXCEPT !.stage = "expiring", !.abuses = abuse.count + 1]
      <4>1. evals' = [evals EXCEPT ![c] = e] /\ e.stage = "expiring"
          BY <1>1, <3>1 DEF CountAbuse, Becomes, Eval
      <4> QED
          BY <4>1
    <3>2. CASE CountFails(c)
      <4>1. evals' = [evals EXCEPT ![c] = AfterCount(evals[c], 1)]
          BY <3>2 DEF CountFails, Becomes
      <4> QED
          BY <1>1, <4>1, AfterCountKeeps
    <3>3. CASE ExpireAbuse(c)
      <4>1. evals' = [evals EXCEPT ![c] = AfterCount(evals[c], evals[c].abuses)]
          BY <3>3 DEF ExpireAbuse, Becomes
      <4> QED
          BY <1>1, <4>1, AfterCountKeeps
    <3>4. CASE SetBlock(c)
      <4>1. PICK e \in {Idle, [evals[c] EXCEPT !.stage = "writing"]} :
                evals' = [evals EXCEPT ![c] = e]
          BY <3>4 DEF SetBlock, Becomes
      <4> QED
          BY <1>1, <4>1 DEF Eval
    <3> QED
        BY <1>4, <3>1, <3>2, <3>3, <3>4
  <2> QED
      BY <1>2, <2>1, <2>2, QuietModest
<1>5. CASE WriteBack(c) \/ WriteFails(c)
  <2>1. evals' = [evals EXCEPT ![c] = Idle] /\ UNCHANGED <<abuse, blockTTL>>
      BY <1>5 DEF WriteBack, WriteFails, Becomes
  <2> QED
      BY <1>1, <1>2, <2>1, QuietModest
<1> QED
    BY <1>3, <1>4, <1>5

LEMMA TickModest ==
    ASSUME MInv, TypeOK', Orderly', Tick
    PROVE  MInv'
<1>1. /\ UNCHANGED <<evals, asked>>
      /\ overlapped => overlapped'
      /\ \A t \in Times : window'[t] \in {0, window[t]}
    BY DEF Tick
<1>2. abuse.count = 0 => abuse'.count = 0
  <2>1. abuse \in [count : Nat, ttl : Nat]
      BY DEF MInv, TypeOK
  <2>2. \/ abuse' = abuse \/ abuse' = NoKey \/ abuse' = [abuse EXCEPT !.ttl = @ - 1]
      BY DEF Tick
  <2> QED
      BY <2>1, <2>2 DEF NoKey
<1>3. blockTTL = 0 => blockTTL' = 0
    BY DEF Tick, Less
<1>4. ASSUME Accounted
      PROVE  Accounted'
  <2>1. /\ Alone'
        /\ \A c \in Call : Unrecorded(c)' = Unrecorded(c)
        /\ Modest' = Modest
        /\ \A t \in Times : Pending(t)' = Pending(t)
      BY <1>1, <1>4 DEF Accounted, Alone, Active, Unrecorded, Modest, Total, Pending
  <2>2. Fits(window)'
      BY <1>1, <1>4 DEF Accounted, Fits, FitsFrom
  <2>3. ASSUME NEW t \in Times
        PROVE  window'[t] + (IF Pending(t) THEN 1 ELSE 0) <= asked[t]
    <3>1. window[t] \in Nat /\ asked[t] \in Nat
        BY DEF MInv, TypeOK
    <3>2. window[t] + (IF Pending(t) THEN 1 ELSE 0) <= asked[t]
        BY <1>4 DEF Accounted
    <3> HIDE DEF Pending
    <3> QED
        BY <1>1, <3>1, <3>2
  <2> QED
      BY <1>1, <1>2, <1>3, <1>4, <2>1, <2>2, <2>3 DEF Accounted
<1> QED
    BY <1>1, <1>4 DEF MInv, SmallSkew

LEMMA StepModest ==
    ASSUME MInv, TypeOK', Orderly', [Next]_redisVars
    PROVE  MInv'
<1>1. CASE UNCHANGED redisVars
  <2>1. Accounted => Accounted'
      BY <1>1 DEF redisVars, Accounted, Alone, Active, Unrecorded, Pending, Modest,
                  Fits, FitsFrom, Total
  <2> QED
      BY <1>1, <2>1 DEF redisVars, MInv
<1> QED
    BY <1>1, BeginModest, RecordModest, RecordFailsModest, OtherModest, TickModest DEF Next

\* A user who never asks more than the rate in any window is never counted as
\* abusive and never blocked, for every policy, every skew shorter than the window
\* and every average rate, whichever calls fail and whenever keys expire, unless
\* two evaluations overlapped.
THEOREM ModestAlwaysSpared == Spec => []ModestSpared
<1>1. Init => MInv
    BY InitInv, InitWindow, InitModest DEF IInv, WInv
<1>2. (IInv /\ WInv) /\ (IInv /\ WInv)' /\ MInv /\ [Next]_redisVars => MInv'
    BY StepModest DEF IInv, WInv
<1>3. MInv => ModestSpared
    BY DEF MInv, Accounted, Modest, ModestSpared, WindowLimit, SmallSkew
<1> QED
    BY <1>1, <1>2, <1>3, OrderInvariance, PTL DEF Spec

=============================================================================
