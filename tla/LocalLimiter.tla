----------------------------- MODULE LocalLimiter -----------------------------
(***************************************************************************)
(* The process-local limiter of rate_limiter.go, used when Redis is not    *)
(* configured: Evaluate with a nil client, which is evaluateLocal.  An     *)
(* evaluation reads the clock first and takes rateLimiter.mu afterwards,   *)
(* so others can come between, with a later or an earlier reading.  One    *)
(* policy; a tick is a second.                                             *)
(***************************************************************************)
EXTENDS Integers, FiniteSets, Counting

CONSTANTS
    User,      \* requesters; with the policy's name they key the buckets
    Call,      \* evaluations in progress
    Window,    \* the longer of window_seconds and sliding_window_seconds
    Limit,     \* requests
    Block,     \* block_seconds, at least 1
    MaxClock   \* bound: the clock stops here

ASSUME LimiterAssumption ==
    /\ Window \in Nat \ {0}
    /\ Limit \in Nat \ {0}
    /\ Block \in Nat \ {0}
    /\ MaxClock \in Nat

ASSUME CallsFinite == IsFiniteSet(Call)

VARIABLES
    clock,     \* time.Now
    buckets,   \* rateLimiter.local
    evals,     \* evaluations between the clock and the lock
    admitted,  \* history: requests admitted, per user and second
    answer     \* history: the last decision

limiterVars == <<clock, buckets, evals, admitted, answer>>

-----------------------------------------------------------------------------
(* Data *)

Times == 1..(MaxClock + 1)

Never == 0   \* the zero time.Time

Bucket == [windowStart : Nat, count : 0..Limit, blockedTill : Nat]

NoBucket == [windowStart |-> Never, count |-> 0, blockedTill |-> Never]

\* until is when Retry-After lets the client come back
Answers == [reason : {"none", "allowed", "cooldown_active", "window_exceeded"},
            user : User, until : Nat]

TypeOK ==
    /\ clock \in Times
    /\ buckets \in [User -> Bucket]
    /\ evals \in [Call -> [user : User, now : Nat]]
    /\ admitted \in [User -> [Times -> Nat]]
    /\ answer \in Answers

-----------------------------------------------------------------------------
(* The critical section *)

\* a window that is over gives way to an empty bucket, block and all
\* mutant: the window is never renewed
RenewedNever(b, now) ==
    IF b.windowStart = Never THEN [NoBucket EXCEPT !.windowStart = now] ELSE b
\* mutant: a renewed window keeps the block
RenewedKeepBlock(b, now) ==
    IF b.windowStart = Never \/ now - b.windowStart >= Window
    THEN [b EXCEPT !.windowStart = now, !.count = 0] ELSE b
Renewed(b, now) ==
    IF b.windowStart = Never \/ now - b.windowStart >= Window
    THEN [NoBucket EXCEPT !.windowStart = now] ELSE b

\* mutant: one request too many
FullOneMore(b) == b.count > Limit
Full(b) == b.count >= Limit

Blocked(b, now) == now < b.blockedTill

Later(m, n) == IF m > n THEN m ELSE n

\* now := time.Now(), before the lock
ReadClock(c, u) ==
    /\ evals[c].now = Never
    /\ evals' = [evals EXCEPT ![c] = [user |-> u, now |-> clock]]
    /\ UNCHANGED <<clock, buckets, admitted, answer>>

\* Between Lock and Unlock.  The comparisons use the reading, which others may
\* have overtaken; RetryAfter uses time.Until, the clock as it is by then.
Decide(c) ==
    LET u   == evals[c].user
        now == evals[c].now
        b   == Renewed(buckets[u], now)
    IN  /\ now # Never
        /\ \/ /\ Blocked(b, now)
              /\ buckets' = [buckets EXCEPT ![u] = b]
              /\ answer' = [reason |-> "cooldown_active", user |-> u,
                            until |-> Later(clock + 1, b.blockedTill)]
              /\ UNCHANGED admitted
           \/ /\ ~ Blocked(b, now)
              /\ Full(b)
              /\ buckets' = [buckets EXCEPT ![u] = [b EXCEPT !.blockedTill = now + Block]]
              /\ answer' = [reason |-> "window_exceeded", user |-> u,
                            until |-> Later(clock + 1, b.windowStart + Window)]
              /\ UNCHANGED admitted
           \/ /\ ~ Blocked(b, now)
              /\ ~ Full(b)
              /\ buckets' = [buckets EXCEPT ![u] = [b EXCEPT !.count = @ + 1]]
              /\ answer' = [reason |-> "allowed", user |-> u, until |-> clock]
              /\ admitted' = [admitted EXCEPT ![u][clock] = @ + 1]
        /\ evals' = [evals EXCEPT ![c].now = Never]
        /\ UNCHANGED clock

\* bound: MaxClock
Tick ==
    /\ clock <= MaxClock
    /\ clock' = clock + 1
    /\ UNCHANGED <<buckets, evals, admitted, answer>>

-----------------------------------------------------------------------------
(* The specification *)

Init ==
    /\ clock = 1
    /\ buckets = [u \in User |-> NoBucket]
    /\ \E u \in User :
         /\ evals = [c \in Call |-> [user |-> u, now |-> Never]]
         /\ answer = [reason |-> "none", user |-> u, until |-> Never]
    /\ admitted = [u \in User |-> [t \in Times |-> 0]]

Next ==
    \/ \E c \in Call, u \in User : ReadClock(c, u)
    \/ \E c \in Call : Decide(c)
    \/ Tick

Spec == Init /\ [][Next]_limiterVars

-----------------------------------------------------------------------------
(* Properties *)

Total(f, from, to) == SumOver(f, {t \in Times : from <= t /\ t < to})

\* However the evaluations overtake each other between clock and lock, no period
\* as long as the window admits more than two windows' requests, and one more
\* for each evaluation that was waiting for the lock (rate_limiter.go:216, 227).
BurstBounded ==
    \A u \in User, t \in Times :
        Total(admitted[u], t, t + Window) <= 2 * Limit + Cardinality(Call) - 1

\* A block stands only on a full bucket: within its window it decides nothing
\* that the count does not, and with the window it is gone
\* (rate_limiter.go:229-243).
BlockNeedsFull ==
    \A u \in User : buckets[u].blockedTill # Never => buckets[u].count >= Limit

WouldAdmit(b, t) == ~ Blocked(Renewed(b, t), t) /\ ~ Full(Renewed(b, t))

\* A client that is told window_exceeded and comes back after Retry-After finds a
\* new window, whatever block was set with that answer.
RetryAfterHolds ==
    answer.reason = "window_exceeded" => WouldAdmit(buckets[answer.user], answer.until)
=============================================================================
