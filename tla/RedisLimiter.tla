----------------------------- MODULE RedisLimiter -----------------------------
(***************************************************************************)
(* Evaluate of rate_limiter.go when Redis is configured: concurrent        *)
(* evaluations, of one proxy or of several replicas, that share a user's   *)
(* keys in one Redis.  Every action is one command or one MULTI/EXEC       *)
(* transaction, so what an evaluation read may be stale when it writes.    *)
(* One user and policy: the keys of others are disjoint.  Rates are kept   *)
(* as counts per window; the average rate, which only tells whether a high *)
(* rate is a spike, is chosen; the members of the window are distinct.     *)
(*                                                                         *)
(* Every proxy reads its own clock.  clock is that of the fastest of them, *)
(* and an evaluation reads any time up to MaxSkew seconds behind it.  The  *)
(* keys expire by the same seconds, whose beginnings are the ticks.        *)
(***************************************************************************)
EXTENDS Integers, FiniteSets, Counting

CONSTANTS
    Call,                    \* evaluations in progress
    BaseRequestsPerSecond,
    BurstCapacity,
    SlidingWindowSeconds,
    BlockSeconds,
    RepeatedAbuseThreshold,
    EventRetentionSeconds,   \* expiry of the window and of the bucket
    MaxSkew,                 \* seconds a replica's clock may be behind another's
    Failing,                 \* Redis calls that may fail
    MaxClock,                \* bound: the clock stops here
    MaxEvals                 \* bound: evaluations in a behaviour

ASSUME RedisAssumption ==
    /\ IsFiniteSet(Call)
    /\ BaseRequestsPerSecond \in Nat \ {0}
    /\ BurstCapacity \in Nat \ {0}
    /\ SlidingWindowSeconds \in Nat \ {0}
    /\ BlockSeconds \in Nat \ {0}
    /\ RepeatedAbuseThreshold \in Nat \ {0}
    /\ EventRetentionSeconds \in Nat \ {0}
    /\ MaxSkew \in Nat
    /\ Failing \subseteq {"ttl", "record", "incr", "expire", "set", "write"}
    /\ MaxClock \in Nat \ {0}
    /\ MaxEvals \in Nat

VARIABLES
    clock,       \* time.Now of the fastest replica, in seconds
    window,      \* rate:<scope>:<user>: how many members have each score
    windowTTL,   \* ticks it has left; 0 is "no such key"
    burst,       \* burst:<scope>:<user>: its fields, and the ticks it has left
    abuse,       \* abuse:<scope>:<user>: its count, and the ticks it has left
    blockTTL,    \* ticks block:<scope>:<user> has left; 0 is "no such key"
    evals,       \* the local variables of each Evaluate
    asked,       \* history: evaluations begun, per second of their reading
    allowed,     \* history: requests neither throttled nor blocked, per second of
                 \* their evaluation's reading; a throttled one is only delayed
    regained,    \* history: tokens that seconds refilled a second time
    overlapped,  \* history: an evaluation was still under way when another began,
                 \* or when the bucket expired
    endless      \* history: an INCR or EXPIRE failed

redisVars == <<clock, window, windowTTL, burst, abuse, blockTTL, evals, asked, allowed,
               regained, overlapped, endless>>

-----------------------------------------------------------------------------
(* Data *)

Times == 1..MaxClock

Total(f, from, to) == SumOver(f, {t \in Times : from <= t /\ t <= to})

Stages == {"idle", "checking", "recording", "counting", "expiring", "blocking", "writing"}

Idle == [stage |-> "idle", now |-> 0, tokens |-> 0, allow |-> FALSE, abuses |-> 0]

NoKey == [count |-> 0, ttl |-> 0]

\* without the key the bucket is full
NoBucket == [tokens |-> BurstCapacity, last |-> 0, ttl |-> 0]

Forever == 0   \* the ttl of a key without expiry

TypeOK ==
    /\ clock \in Times
    /\ window \in [Times -> Nat]
    /\ windowTTL \in Nat
    /\ burst \in [tokens : 0..BurstCapacity, last : Nat, ttl : Nat]
    /\ abuse \in [count : Nat, ttl : Nat]
    /\ blockTTL \in 0..BlockSeconds
    /\ evals \in [Call -> [stage : Stages, now : Nat, tokens : 0..BurstCapacity,
                           allow : BOOLEAN, abuses : Nat]]
    /\ asked \in [Times -> Nat]
    /\ allowed \in [Times -> Nat]
    /\ regained \in Nat
    /\ overlapped \in BOOLEAN
    /\ endless \in BOOLEAN

-----------------------------------------------------------------------------
(* The decision *)

\* ZREMRANGEBYSCORE 0..now - SlidingWindowSeconds, then ZADD now
Recorded(now) ==
    [t \in Times |-> (IF t <= now - SlidingWindowSeconds THEN 0 ELSE window[t])
                     + (IF t = now THEN 1 ELSE 0)]

\* mutant: the bucket overflows
RefilledUncapped(now) ==
    burst.tokens + (IF now > burst.last THEN now - burst.last ELSE 0) * BaseRequestsPerSecond
Refilled(now) ==
    LET elapsed == IF now > burst.last THEN now - burst.last ELSE 0
        tokens  == burst.tokens + elapsed * BaseRequestsPerSecond
    IN  IF tokens > BurstCapacity THEN BurstCapacity ELSE tokens

\* mutant: the request itself is not counted
OverWindowBefore(count) == count - 1 > BaseRequestsPerSecond * SlidingWindowSeconds
OverWindow(count) == count > BaseRequestsPerSecond * SlidingWindowSeconds

OverBurst(tokens) == tokens < 1

\* mutant: the rate is not compared with the spike threshold
MaySpikeAtAnyRate(count) == count > BaseRequestsPerSecond

\* a spike needs at least this count, whatever the average
MaySpike(count) ==
    /\ count > 2 * BaseRequestsPerSecond * SlidingWindowSeconds
    /\ count > BaseRequestsPerSecond

Spent(tokens) == tokens - 1

-----------------------------------------------------------------------------
(* An evaluation *)

Becomes(c, e) == evals' = [evals EXCEPT ![c] = e]

UnderWay == \E d \in Call : evals[d].stage # "idle"

\* now := time.Now() of one replica
Begin(c, now) ==
    /\ evals[c].stage = "idle"
    /\ Total(asked, 1, clock) < MaxEvals
    /\ clock - MaxSkew <= now /\ now <= clock
    /\ Becomes(c, [Idle EXCEPT !.stage = "checking", !.now = now])
    /\ asked' = [asked EXCEPT ![now] = @ + 1]
    /\ overlapped' = (overlapped \/ UnderWay)
    /\ UNCHANGED <<clock, window, windowTTL, burst, abuse, blockTTL, allowed, regained, endless>>

\* TTL of the block key; its error is taken for "no block"
CheckBlock(c) ==
    /\ evals[c].stage = "checking"
    /\ \/ blockTTL > 0 /\ Becomes(c, Idle)
       \/ /\ blockTTL = 0 \/ "ttl" \in Failing
          /\ Becomes(c, [evals[c] EXCEPT !.stage = "recording"])
    /\ UNCHANGED <<clock, window, windowTTL, burst, abuse, blockTTL, asked, allowed, regained,
                   overlapped, endless>>

\* the first transaction and the decision over what it read
Record(c, spike) ==
    LET now    == evals[c].now
        count  == Total(Recorded(now), 1, MaxClock)
        tokens == Refilled(now)
        abused == \/ spike /\ MaySpike(count)
                  \/ OverWindow(count) /\ OverBurst(tokens)
        allow  == ~ abused /\ ~ OverWindow(count) /\ ~ OverBurst(tokens)
    IN  /\ evals[c].stage = "recording"
        /\ window' = Recorded(now)
        /\ windowTTL' = EventRetentionSeconds
        /\ Becomes(c, [evals[c] EXCEPT
                          !.stage = IF abused THEN "counting" ELSE "writing",
                          !.allow = allow,
                          !.tokens = IF allow THEN Spent(tokens) ELSE tokens])
        /\ UNCHANGED <<clock, burst, abuse, blockTTL, asked, allowed, regained, overlapped,
                       endless>>

\* Exec failed, before or after Redis ran it: 503
RecordFails(c) ==
    /\ evals[c].stage = "recording"
    /\ "record" \in Failing
    /\ \/ UNCHANGED <<window, windowTTL>>
       \/ window' = Recorded(evals[c].now) /\ windowTTL' = EventRetentionSeconds
    /\ Becomes(c, Idle)
    /\ UNCHANGED <<clock, burst, abuse, blockTTL, asked, allowed, regained, overlapped, endless>>

\* block at the threshold, throttle below it
AfterCount(e, abuses) ==
    [e EXCEPT !.abuses = abuses,
              !.stage = IF abuses >= RepeatedAbuseThreshold THEN "blocking" ELSE "writing"]

\* INCR
CountAbuse(c) ==
    /\ evals[c].stage = "counting"
    /\ abuse' = [abuse EXCEPT !.count = @ + 1]
    /\ Becomes(c, [evals[c] EXCEPT !.stage = "expiring", !.abuses = abuse.count + 1])
    /\ UNCHANGED <<clock, window, windowTTL, burst, blockTTL, asked, allowed, regained,
                   overlapped, endless>>

\* incrementAbuse returns 1 on an error, and sets no expiry
CountFails(c) ==
    /\ evals[c].stage = "counting"
    /\ "incr" \in Failing
    /\ abuse' \in {abuse, [abuse EXCEPT !.count = @ + 1]}
    /\ endless' = TRUE
    /\ Becomes(c, AfterCount(evals[c], 1))
    /\ UNCHANGED <<clock, window, windowTTL, burst, blockTTL, asked, allowed, regained,
                   overlapped>>

\* mutant: the first count sets no expiry
AbuseSpanLater(abuses) == IF abuses > 1 THEN 2 * BlockSeconds ELSE Forever
AbuseSpan(abuses) == 2 * BlockSeconds

\* EXPIRE, which does nothing to a key that is gone; its error is ignored
ExpireAbuse(c) ==
    /\ evals[c].stage = "expiring"
    /\ \/ /\ abuse.count > 0
          /\ abuse' = [abuse EXCEPT !.ttl = AbuseSpan(evals[c].abuses)]
          /\ UNCHANGED endless
       \/ abuse.count = 0 /\ UNCHANGED <<abuse, endless>>
       \/ "expire" \in Failing /\ endless' = TRUE /\ UNCHANGED abuse
    /\ Becomes(c, AfterCount(evals[c], evals[c].abuses))
    /\ UNCHANGED <<clock, window, windowTTL, burst, blockTTL, asked, allowed, regained,
                   overlapped>>

\* SET of the block key with its expiry
SetBlock(c) ==
    /\ evals[c].stage = "blocking"
    /\ \/ blockTTL' = BlockSeconds /\ Becomes(c, [evals[c] EXCEPT !.stage = "writing"])
       \/ /\ "set" \in Failing
          /\ blockTTL' \in {blockTTL, BlockSeconds}
          /\ Becomes(c, Idle)
    /\ UNCHANGED <<clock, window, windowTTL, burst, abuse, asked, allowed, regained, overlapped,
                   endless>>

\* mutant: last_refill is left as it was
WrittenKeeping(c) ==
    [tokens |-> evals[c].tokens, last |-> burst.last, ttl |-> EventRetentionSeconds]
Written(c) ==
    [tokens |-> evals[c].tokens, last |-> evals[c].now, ttl |-> EventRetentionSeconds]

\* what the next refill gives again when last_refill is set back
SetBack(c) ==
    IF burst.last > evals[c].now THEN BaseRequestsPerSecond * (burst.last - evals[c].now) ELSE 0

Write(c) ==
    /\ burst' = Written(c)
    /\ regained' = regained + SetBack(c)

\* the second transaction, and the answer
WriteBack(c) ==
    /\ evals[c].stage = "writing"
    /\ Write(c)
    /\ allowed' = IF evals[c].allow
                   THEN [allowed EXCEPT ![evals[c].now] = @ + 1] ELSE allowed
    /\ Becomes(c, Idle)
    /\ UNCHANGED <<clock, window, windowTTL, abuse, blockTTL, asked, overlapped, endless>>

\* Exec failed: 503
WriteFails(c) ==
    /\ evals[c].stage = "writing"
    /\ "write" \in Failing
    /\ Write(c) \/ UNCHANGED <<burst, regained>>
    /\ Becomes(c, Idle)
    /\ UNCHANGED <<clock, window, windowTTL, abuse, blockTTL, asked, allowed, overlapped, endless>>

Less(ttl) == IF ttl > 0 THEN ttl - 1 ELSE 0

\* a second passes, and keys expire; bound: MaxClock
Tick ==
    /\ clock < MaxClock
    /\ clock' = clock + 1
    /\ windowTTL' = Less(windowTTL)
    /\ window' = IF windowTTL = 1 THEN [t \in Times |-> 0] ELSE window
    /\ burst' = IF burst.ttl = 1 THEN NoBucket ELSE [burst EXCEPT !.ttl = Less(@)]
    /\ abuse' = CASE abuse.ttl = Forever -> abuse
                  [] abuse.ttl = 1 -> NoKey
                  [] OTHER -> [abuse EXCEPT !.ttl = @ - 1]
    /\ blockTTL' = Less(blockTTL)
    /\ overlapped' = (overlapped \/ (burst.ttl = 1 /\ UnderWay))
    /\ UNCHANGED <<evals, asked, allowed, regained, endless>>

-----------------------------------------------------------------------------
(* The specification *)

Init ==
    /\ clock = 1
    /\ window = [t \in Times |-> 0]
    /\ windowTTL = 0
    /\ burst = NoBucket
    /\ abuse = NoKey
    /\ blockTTL = 0
    /\ evals = [c \in Call |-> Idle]
    /\ asked = [t \in Times |-> 0]
    /\ allowed = [t \in Times |-> 0]
    /\ regained = 0
    /\ overlapped = FALSE
    /\ endless = FALSE

Next ==
    \/ \E c \in Call :
          \/ \E now \in Times : Begin(c, now)
          \/ CheckBlock(c)
          \/ \E spike \in BOOLEAN : Record(c, spike)
          \/ RecordFails(c)
          \/ CountAbuse(c)
          \/ CountFails(c)
          \/ ExpireAbuse(c)
          \/ SetBlock(c)
          \/ WriteBack(c)
          \/ WriteFails(c)
    \/ Tick

Spec == Init /\ [][Next]_redisVars

-----------------------------------------------------------------------------
(* Properties *)

\* a sliding window less the skew
InPeriod(f, last) == Total(f, last - SlidingWindowSeconds + MaxSkew + 1, last)

\* A decision is to be "consistent across proxy replicas" (docs/architecture.md:28).
\* If the window's key outlives it, then however the readings of the replicas'
\* clocks overtake each other on the way to the window and the answer, whichever
\* calls fail and whenever the key expires, a sliding window less the clocks' skew
\* lets no more through undelayed than the rate of a whole one, and one more for
\* each evaluation held up beyond it (rate_limiter.go:118-136, 165-197).  A skew as
\* long as the window leaves no period, hence no bound.
WindowBounded ==
    EventRetentionSeconds >= SlidingWindowSeconds =>
        \A last \in Times :
            InPeriod(allowed, last)
                <= BaseRequestsPerSecond * SlidingWindowSeconds + Cardinality(Call)

\* the bucket is full again before its key expires, by any replica's clock
RefilledInTime ==
    BaseRequestsPerSecond * (EventRetentionSeconds - MaxSkew) >= BurstCapacity

\* As long as no two evaluations of the user overlapped, and none was held up
\* beyond the bucket's expiry, the token bucket lets no more through undelayed
\* than its capacity, the refill of the period and the refill that replicas with
\* slower clocks gave twice by setting last_refill back, also when transactions
\* fail half way and when the key expires (rate_limiter.go:140-152, 190-204).
TokensHold ==
    RefilledInTime /\ ~ overlapped =>
        \A first, last \in Times :
            first <= last =>
                Total(allowed, first, last)
                    <= BurstCapacity + BaseRequestsPerSecond * (last - first) + regained

\* A user who never asks more than a window's rate in any sliding window is never
\* counted as abusive, hence never blocked, unless evaluations overlapped: a
\* replica with a slower clock finds later members in the window, but then the
\* faster one has removed as many seconds of older ones (rate_limiter.go:118-125,
\* 165-173).
ModestSpared ==
    /\ MaxSkew < SlidingWindowSeconds
    /\ ~ overlapped
    /\ \A first \in Times :
          Total(asked, first, first + SlidingWindowSeconds - 1)
              <= BaseRequestsPerSecond * SlidingWindowSeconds
    => abuse.count = 0 /\ blockTTL = 0

\* Abuse is forgotten in the end: the counter is without expiry only while an
\* evaluation stands between INCR and EXPIRE, however these interleave with each
\* other and with the key's expiry, until one of the two fails
\* (rate_limiter.go:257-264).
CounterHasEnd ==
    ~ endless /\ abuse.count > 0 /\ abuse.ttl = Forever =>
        \E c \in Call : evals[c].stage = "expiring"
=============================================================================
