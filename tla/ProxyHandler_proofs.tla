-------------------------- MODULE ProxyHandler_proofs --------------------------
(***************************************************************************)
(* Proofs about ProxyHandler, for every number of requests, every retry    *)
(* count and every pool.  The proofs of BackendPool speak of its actions,  *)
(* so that they carry over to the handlers, which are built from them.     *)
(***************************************************************************)
EXTENDS ProxyHandler, BackendPool_proofs

-----------------------------------------------------------------------------
(* The inductive invariant *)

Request ==
    [stage : Stages, safe : BOOLEAN, allowed : AllowedSets \cup {{}}, retries : Nat,
     attempt : Nat, ctx : Endings \cup {"live"}, response : Responses \cup {"none"},
     size : Sizes \cup {"fits"}, err : BOOLEAN, backend : Address \cup {NoAddress},
     status : Responses \cup {"none", "400", "408", "413", "429", "502", "503", "504"},
     tries : Nat]

\* the attempts so far have left no response, or one whose body was closed
Closed(q) == q.err \/ q.response \in {"none", "gateway error"}

\* what the goroutine holds of the pool where it is
Holds(q, call) ==
    /\ q.stage \notin Forwarding => call = Idle
    /\ q.stage = "choosing" => call = Idle /\ Closed(q)
    /\ q.stage = "picked" => call.phase = "picked" /\ call.address = q.backend /\ Closed(q)
    /\ q.stage = "round trip" => call.phase = "sent" /\ call.address = q.backend
    /\ q.stage = "closing" => call.phase = "sent" /\ Closed(q)
    /\ q.stage = "failing" => call.phase = "settling" /\ Closed(q)
    /\ q.stage = "settling" => call.phase = "settling"
    /\ q.stage = "copying" => ~ q.err /\ q.response # "none"
    /\ q.stage \in {"deciding", "copying"} =>
          \/ call = Idle /\ Closed(q)
          \/ /\ call.phase = "sent" /\ call.address = q.backend
             /\ ~ q.err /\ q.response # "none"

Admission == {"idle", "reading", "limiting", "throttled"}

\* how the calls sent, the loop's variable and the retries relate where it is
Counts(q) ==
    /\ q.stage \in Admission => q.tries = 0 /\ q.attempt = 0 /\ q.response = "none"
    /\ q.stage \in Forwarding =>
          /\ q.safe \/ q.retries = 0
          /\ q.attempt <= q.retries
          /\ q.tries <= q.attempt + 1
    /\ q.stage \in {"choosing", "picked"} => q.tries <= q.attempt
    /\ q.tries <= EffectiveRetries(q) + 1

HInv ==
    /\ IInv
    /\ requests \in [Call -> Request]
    /\ \A r \in Call : Holds(requests[r], calls[r]) /\ Counts(requests[r])

-----------------------------------------------------------------------------
(* Requests *)

\* A move to another stage leaves the other locals alone.
LEMMA Staged ==
    ASSUME NEW q \in Request, NEW stage \in Stages
    PROVE  LET p == [q EXCEPT !.stage = stage]
           IN  /\ p \in Request
               /\ p.stage = stage
               /\ p.safe = q.safe /\ p.retries = q.retries /\ p.attempt = q.attempt
               /\ p.response = q.response /\ p.err = q.err /\ p.backend = q.backend
               /\ p.tries = q.tries
<1> DEFINE p == [q EXCEPT !.stage = stage]
<1>1. p \in Request
    BY DEF Request
<1>2. p.stage = stage
    BY DEF Request
<1>3. p.safe = q.safe /\ p.retries = q.retries /\ p.attempt = q.attempt
    BY DEF Request
<1>4. p.response = q.response /\ p.err = q.err /\ p.backend = q.backend /\ p.tries = q.tries
    BY DEF Request
<1> QED
    BY <1>1, <1>2, <1>3, <1>4

LEMMA Numbers ==
    ASSUME NEW q \in Request
    PROVE  q.retries \in Nat /\ q.attempt \in Nat /\ q.tries \in Nat
BY DEF Request

-----------------------------------------------------------------------------
(* What the steps of the pool do to calls *)

\* A step of one goroutine: its request becomes q, and the other goroutines keep
\* their requests and calls.
LEMMA OneGoroutine ==
    ASSUME HInv, IInv', NEW r \in Call, NEW q \in Request, Becomes(r, q),
           \A d \in Call : d # r => calls'[d] = calls[d],
           Holds(q, calls'[r]), Counts(q)
    PROVE  HInv'
<1>1. requests' \in [Call -> Request]
    BY DEF HInv, Becomes
<1>2. requests'[r] = q /\ \A d \in Call : d # r => requests'[d] = requests[d]
    BY DEF HInv, Becomes
<1>3. \A d \in Call : Holds(requests'[d], calls'[d]) /\ Counts(requests'[d])
    BY <1>2 DEF HInv
<1> QED
    BY <1>1, <1>3 DEF HInv

\* The same where the pool is left alone.
LEMMA GoroutineAlone ==
    ASSUME HInv, NEW r \in Call, NEW q \in Request, Becomes(r, q), PoolUnchanged,
           Holds(q, calls[r]), Counts(q)
    PROVE  HInv'
<1>1. IInv'
    BY StepInv DEF HInv, PoolUnchanged
<1> QED
    BY <1>1, OneGoroutine DEF PoolUnchanged, vars

LEMMA Selects ==
    ASSUME IInv, NEW r \in Call, NEW allowed, NEW latency, NextFor(r, allowed, latency)
    PROVE  /\ IInv'
           /\ calls'[r].phase = "picked"
           /\ calls'[r].address \in Address \cup {NoAddress}
           /\ \A d \in Call : d # r => calls'[d] = calls[d]
<1>1. IInv'
    BY NextForInv
<1>2. PICK call : calls' = [calls EXCEPT ![r] = call] /\ call.phase = "picked"
  <2>1. PICK i, halfOpen : calls' = [calls EXCEPT ![r] =
            [Idle EXCEPT !.phase = "picked", !.address = pool[i].address, !.probe = halfOpen]]
      BY DEF NextFor
  <2> DEFINE picked == [Idle EXCEPT !.phase = "picked", !.address = pool[i].address,
                                    !.probe = halfOpen]
  <2>2. picked.phase = "picked"
      BY DEF Idle
  <2> QED
      BY <2>1, <2>2
<1> QED
    BY <1>1, <1>2 DEF IInv, TypeOK, CallRecord

LEMMA Starts ==
    ASSUME IInv, NEW r \in Call, StartRequest(r)
    PROVE  /\ IInv'
           /\ calls'[r].phase = "sent"
           /\ calls'[r].address = calls[r].address
           /\ \A d \in Call : d # r => calls'[d] = calls[d]
<1>1. IInv'
    BY StartRequestInv
<1>2. calls \in [Call -> CallRecord]
    BY DEF IInv, TypeOK
<1>3. \/ calls' = [calls EXCEPT ![r].phase = "sent"]
      \/ \E i : calls' = [calls EXCEPT ![r].phase = "sent", ![r].stats = <<generation, i>>]
    BY DEF StartRequest
<1> QED
    BY <1>1, <1>2, <1>3 DEF CallRecord

LEMMA Settles ==
    ASSUME IInv, NEW r \in Call, FinishRequest(r)
    PROVE  /\ IInv'
           /\ calls'[r] = Idle
           /\ \A d \in Call : d # r => calls'[d] = calls[d]
<1>1. IInv'
    BY FinishRequestInv
<1> QED
    BY <1>1 DEF IInv, TypeOK, FinishRequest

\* The finish closure leaves a call to settle, or none.
LEMMA Finishes ==
    ASSUME IInv, NEW r \in Call, NEW failed \in BOOLEAN, NEW settling, NEW next,
           RunFinish(r, failed, settling, next)
    PROVE  /\ IInv'
           /\ \A d \in Call : d # r => calls'[d] = calls[d]
           /\ \/ calls'[r].phase = "settling" /\ Becomes(r, settling)
              \/ calls'[r] = Idle /\ Becomes(r, next)
<1>1. CASE FinishStats(r, failed) /\ Becomes(r, settling)
  <2>1. IInv'
      BY <1>1, FinishStatsInv
  <2> QED
      BY <1>1, <2>1 DEF IInv, TypeOK, CallRecord, FinishStats
<1>2. CASE FinishNothing(r) /\ Becomes(r, next)
  <2>1. IInv'
      BY <1>2, FinishNothingInv
  <2> QED
      BY <1>2, <2>1 DEF IInv, TypeOK, FinishNothing
<1> QED
    BY <1>1, <1>2 DEF RunFinish

-----------------------------------------------------------------------------
(* The steps *)

LEMMA InitHolds ==
    ASSUME HandlerInit
    PROVE  HInv
<1>1. FreshRequest \in Request
    BY DEF FreshRequest, Request, Stages
<1>2. Holds(FreshRequest, Idle) /\ Counts(FreshRequest)
    BY DEF FreshRequest, Holds, Counts, EffectiveRetries, Forwarding, Admission
<1> QED
    BY <1>1, <1>2, InitInv DEF HandlerInit, Init, HInv

\* A reply in the admission, or behind the loop with no body open.
LEMMA ReplyHolds ==
    ASSUME HInv, NEW r \in Call, requests[r].stage \in Admission \cup {"deciding"},
           calls[r] = Idle, PoolUnchanged,
           NEW status \in {"400", "408", "413", "429", "502", "503", "504"}, Reply(r, status)
    PROVE  HInv'
<1> DEFINE q == [requests[r] EXCEPT !.stage = "done", !.status = status]
<1>0. requests[r] \in Request /\ Counts(requests[r])
    BY DEF HInv
<1>4. requests[r] \in Request /\ "done" \in Stages
    BY <1>0 DEF Stages
<1>1. q \in Request
    BY <1>4 DEF Request
<1>2. /\ q.stage = "done"
      /\ q.tries = requests[r].tries
      /\ EffectiveRetries(q) = EffectiveRetries(requests[r])
    BY <1>0 DEF Request, EffectiveRetries
<1>3. Holds(q, calls[r]) /\ Counts(q)
    BY <1>0, <1>2 DEF Holds, Counts, Forwarding, Admission
<1> QED
    BY <1>1, <1>3, GoroutineAlone DEF Reply

\* The request goes on to the retry loop.
LEMMA RoutedHolds ==
    ASSUME HInv, NEW r \in Call, requests[r].stage \in Admission, PoolUnchanged,
           Becomes(r, Routed(requests[r]))
    PROVE  HInv'
<1> DEFINE q == Routed(requests[r])
<1>1. requests[r] \in Request /\ calls[r] = Idle
    BY DEF HInv, Holds, Admission, Forwarding
<1>0. EffectiveRetries(requests[r]) \in Nat
    BY <1>1 DEF Request, EffectiveRetries
<1>2. q \in Request
    BY <1>0, <1>1 DEF Request, Stages, Routed
<1>3. /\ q.stage = "choosing" /\ q.safe = requests[r].safe
      /\ q.retries = EffectiveRetries(requests[r])
      /\ q.tries = requests[r].tries /\ q.attempt = requests[r].attempt
      /\ q.response = requests[r].response
    BY <1>1 DEF Request, Routed
<1>4. Holds(q, calls[r])
    BY <1>1, <1>3 DEF HInv, Holds, Counts, Closed, Forwarding
<1>5. Counts(q)
    BY <1>1, <1>3 DEF HInv, Counts, EffectiveRetries, Request, Admission
<1> QED
    BY <1>2, <1>4, <1>5, GoroutineAlone

LEMMA AdmissionHolds ==
    ASSUME HInv, NEW r \in Call
    PROVE  /\ \A body \in Bodies : ReadBody(r, body) => HInv'
           /\ \A answer \in Limits : Limit(r, answer) => HInv'
           /\ ThrottleOver(r) => HInv'
<1>0. requests[r] \in Request
    BY DEF HInv
<1>1. requests[r].stage \in Admission => calls[r] = Idle
    BY DEF HInv, Holds, Admission, Forwarding
<1>2. ASSUME NEW stage \in Admission, requests[r].stage \in Admission, PoolUnchanged,
             Becomes(r, [requests[r] EXCEPT !.stage = stage])
      PROVE  HInv'
  <2> DEFINE q == [requests[r] EXCEPT !.stage = stage]
  <2>1. q \in Request
      BY <1>0 DEF Request, Stages, Admission
  <2>2. Holds(q, calls[r]) /\ Counts(q)
      BY <1>0, <1>1, <1>2 DEF HInv, Request, Holds, Counts, EffectiveRetries, Forwarding, Admission
  <2> QED
      BY <1>2, <2>1, <2>2, GoroutineAlone
<1>3. ASSUME NEW body \in Bodies, ReadBody(r, body) PROVE HInv'
  <2>1. requests[r].stage \in Admission /\ PoolUnchanged /\ body \in {"ok", "too large", "unreadable"}
      BY <1>3, HandlerAssumption DEF ReadBody, At, Admission
  <2>2. CASE body = "ok"
      BY <1>2, <1>3, <2>1, <2>2 DEF ReadBody, Admission
  <2>3. CASE body # "ok"
    <3>1. PICK status \in {"413", "400"} : Reply(r, status)
        BY <1>3, <2>1, <2>3 DEF ReadBody
    <3> QED
        BY <1>1, <2>1, <3>1, ReplyHolds
  <2> QED
      BY <2>2, <2>3
<1>4. ASSUME NEW answer \in Limits, Limit(r, answer) PROVE HInv'
  <2>1. requests[r].stage \in Admission /\ PoolUnchanged
            /\ answer \in {"allow", "throttle", "block", "error"}
      BY <1>4, HandlerAssumption DEF Limit, At, Admission
  <2>2. CASE answer = "allow"
      BY <1>4, <2>1, <2>2, RoutedHolds DEF Limit
  <2>3. CASE answer = "throttle"
      BY <1>2, <1>4, <2>1, <2>3 DEF Limit, Admission
  <2>4. CASE answer \in {"block", "error"}
    <3>1. PICK status \in {"503", "429"} : Reply(r, status)
        BY <1>4, <2>4 DEF Limit
    <3> QED
        BY <1>1, <2>1, <3>1, ReplyHolds
  <2> QED
      BY <2>1, <2>2, <2>3, <2>4
<1>5. ASSUME ThrottleOver(r) PROVE HInv'
    BY <1>1, <1>5, RoutedHolds, ReplyHolds DEF ThrottleOver, At, Admission
<1> QED
    BY <1>3, <1>4, <1>5

LEMMA ClientHolds ==
    ASSUME HInv, NEW r \in Call, ClientStep(r)
    PROVE  HInv'
<1>0. requests[r] \in Request
    BY DEF HInv
<1>1. ASSUME NEW safe \in BOOLEAN, NEW allowed \in AllowedSets, NEW retries \in Retries,
             Arrive(r, safe, allowed, retries)
      PROVE  HInv'
  <2> DEFINE q == [requests[r] EXCEPT !.stage = "reading", !.safe = safe,
                                      !.allowed = allowed, !.retries = retries]
  <2>1. q \in Request
      BY <1>0, HandlerAssumption DEF Request, Stages
  <2>2. /\ q.stage = "reading" /\ q.tries = requests[r].tries
        /\ q.attempt = requests[r].attempt /\ q.response = requests[r].response
        /\ q.safe = safe /\ q.retries = retries /\ retries \in Nat
      BY <1>0, HandlerAssumption DEF Request
  <2>3. requests[r].stage = "idle" /\ calls[r] = Idle
      BY <1>1 DEF Arrive, At, HInv, Holds, Forwarding
  <2>4. Holds(q, calls[r])
      BY <2>2, <2>3 DEF Holds, Forwarding
  <2>5. q.tries = 0 /\ q.attempt = 0 /\ q.response = "none"
      BY <2>2, <2>3 DEF HInv, Counts, Admission
  <2>6. Counts(q)
      BY <2>2, <2>5 DEF Counts, EffectiveRetries, Forwarding, Admission
  <2> QED
      BY <1>1, <2>1, <2>4, <2>6, GoroutineAlone DEF Arrive
<1>2. ASSUME NEW ending \in Endings, EndContext(r, ending) PROVE HInv'
  <2> DEFINE q == [requests[r] EXCEPT !.ctx = ending]
  <2>1. q \in Request
      BY <1>0 DEF Request
  <2>2. /\ q.stage = requests[r].stage /\ q.safe = requests[r].safe
        /\ q.retries = requests[r].retries /\ q.attempt = requests[r].attempt
        /\ q.response = requests[r].response /\ q.err = requests[r].err
        /\ q.backend = requests[r].backend /\ q.tries = requests[r].tries
      BY <1>0 DEF Request
  <2>3. Holds(q, calls[r])
      BY <2>2 DEF HInv, Holds, Closed
  <2>4. Counts(q)
      BY <2>2 DEF HInv, Counts, EffectiveRetries
  <2> QED
      BY <1>2, <2>1, <2>3, <2>4, GoroutineAlone DEF EndContext
<1>3. CASE Leave(r)
  <2>1. FreshRequest \in Request
      BY DEF FreshRequest, Request, Stages
  <2>2. calls[r] = Idle
      BY <1>3 DEF Leave, At, HInv, Holds, Forwarding
  <2>3. Holds(FreshRequest, calls[r]) /\ Counts(FreshRequest)
      BY <2>2 DEF FreshRequest, Holds, Counts, EffectiveRetries, Forwarding, Admission
  <2> QED
      BY <1>3, <2>1, <2>3, GoroutineAlone DEF Leave
<1> QED
    BY <1>1, <1>2, <1>3 DEF ClientStep

LEMMA PicksHold ==
    ASSUME HInv, NEW r \in Call
    PROVE  /\ \A latency : PickBackend(r, latency) => HInv'
           /\ NoBackend(r) => HInv'
           /\ Send(r) => HInv'
<1>0. requests[r] \in Request
    BY DEF HInv
<1>1. ASSUME NEW latency, PickBackend(r, latency) PROVE HInv'
  <2> DEFINE q == [requests[r] EXCEPT !.stage = "picked", !.backend = calls'[r].address]
  <2>1. /\ IInv'
        /\ calls'[r].phase = "picked"
        /\ calls'[r].address \in Address \cup {NoAddress}
        /\ \A d \in Call : d # r => calls'[d] = calls[d]
      BY <1>1, Selects DEF PickBackend, HInv
  <2>2. q \in Request
    <3>1. "picked" \in Stages
        BY DEF Stages
    <3> QED
        BY <1>0, <2>1, <3>1 DEF Request
  <2>3. /\ q.stage = "picked" /\ q.backend = calls'[r].address
        /\ q.safe = requests[r].safe /\ q.retries = requests[r].retries
        /\ q.attempt = requests[r].attempt /\ q.tries = requests[r].tries
        /\ q.response = requests[r].response /\ q.err = requests[r].err
      BY <1>0 DEF Request
  <2>4. Holds(q, calls'[r])
      BY <1>1, <2>1, <2>3 DEF HInv, Holds, Closed, Forwarding, PickBackend, At
  <2>5. Counts(q)
      BY <1>1, <2>3 DEF HInv, Counts, EffectiveRetries, Forwarding, Admission, PickBackend, At
  <2> QED
      BY <1>1, <2>1, <2>2, <2>4, <2>5, OneGoroutine DEF PickBackend
<1>2. ASSUME NoBackend(r) PROVE HInv'
  <2> DEFINE q == [requests[r] EXCEPT !.stage = "deciding", !.backend = NoAddress]
  <2>2. q \in Request
      BY <1>0 DEF Request, Stages
  <2>3. /\ q.stage = "deciding"
        /\ q.safe = requests[r].safe /\ q.retries = requests[r].retries
        /\ q.attempt = requests[r].attempt /\ q.tries = requests[r].tries
        /\ q.response = requests[r].response /\ q.err = requests[r].err
      BY <1>0 DEF Request
  <2>4. Holds(q, calls[r])
      BY <1>2, <2>3 DEF HInv, Holds, Closed, Forwarding, NoBackend, At
  <2>5. Counts(q)
      BY <1>2, <2>3 DEF HInv, Counts, EffectiveRetries, Forwarding, Admission, NoBackend, At
  <2> QED
      BY <1>2, <2>2, <2>4, <2>5, GoroutineAlone DEF NoBackend
<1>3. ASSUME Send(r) PROVE HInv'
  <2> DEFINE q == [requests[r] EXCEPT !.stage = "round trip", !.tries = @ + 1]
  <2>1. /\ IInv'
        /\ calls'[r].phase = "sent"
        /\ calls'[r].address = calls[r].address
        /\ \A d \in Call : d # r => calls'[d] = calls[d]
      BY <1>3, Starts DEF Send, HInv
  <2>2. q \in Request
    <3>1. "round trip" \in Stages
        BY DEF Stages
    <3>2. requests[r].tries + 1 \in Nat
        BY <1>0, Numbers
    <3> QED
        BY <1>0, <3>1, <3>2 DEF Request
  <2>3. /\ q.stage = "round trip" /\ q.backend = requests[r].backend
        /\ q.safe = requests[r].safe /\ q.retries = requests[r].retries
        /\ q.attempt = requests[r].attempt /\ q.tries = requests[r].tries + 1
      BY <1>0 DEF Request
  <2>4. Holds(q, calls'[r])
      BY <1>3, <2>1, <2>3 DEF HInv, Holds, Forwarding, Send, At
  <2>5. /\ requests[r].stage = "picked"
        /\ Counts(requests[r])
      BY <1>3 DEF HInv, Send, At
  <2>6. Counts(q)
      BY <1>0, <2>3, <2>5, Numbers DEF Counts, EffectiveRetries, Forwarding, Admission
  <2> QED
      BY <1>3, <2>1, <2>2, <2>4, <2>6, OneGoroutine DEF Send
<1> QED
    BY <1>1, <1>2, <1>3

\* Behind an attempt the loop chooses again or is left, with nothing held.
LEMMA AttemptOver ==
    ASSUME NEW q \in Request, Counts(q), q.stage \in Forwarding \ {"choosing", "picked"},
           Closed(q)
    PROVE  /\ AfterAttempt(q) \in Request
           /\ Holds(AfterAttempt(q), Idle)
           /\ Counts(AfterAttempt(q))
<1>1. CASE q.attempt < q.retries
  <2> DEFINE p == [q EXCEPT !.stage = "choosing", !.attempt = @ + 1]
  <2>0. p \in Request
    <3>1. "choosing" \in Stages
        BY DEF Stages
    <3>2. q.attempt + 1 \in Nat
        BY Numbers
    <3> QED
        BY <3>1, <3>2 DEF Request
  <2>1. /\ p.stage = "choosing" /\ p.attempt = q.attempt + 1
        /\ p.safe = q.safe /\ p.retries = q.retries /\ p.tries = q.tries
        /\ p.err = q.err /\ p.response = q.response
      BY DEF Request
  <2>2. Holds(p, Idle)
      BY <2>1 DEF Holds, Closed, Forwarding
  <2>3. q.stage \in Forwarding /\ q.safe \in BOOLEAN
      BY DEF Request
  <2>4. /\ p.safe \/ p.retries = 0
        /\ p.attempt <= p.retries
        /\ p.tries <= p.attempt /\ p.tries <= p.attempt + 1
        /\ p.tries <= EffectiveRetries(p) + 1
      BY <1>1, <2>1, <2>3, Numbers DEF Counts, EffectiveRetries
  <2>5. Counts(p)
      BY <2>1, <2>4 DEF Counts, Forwarding, Admission
  <2> QED
      BY <1>1, <2>0, <2>2, <2>5 DEF AfterAttempt
<1>2. CASE ~ q.attempt < q.retries
  <2> DEFINE p == [q EXCEPT !.stage = "deciding"]
  <2>1. /\ p \in Request /\ p.stage = "deciding" /\ p.attempt = q.attempt
        /\ p.safe = q.safe /\ p.retries = q.retries /\ p.tries = q.tries
        /\ p.err = q.err /\ p.response = q.response
      BY Staged DEF Stages
  <2>2. Holds(p, Idle)
      BY <2>1 DEF Holds, Closed, Forwarding
  <2>3. Counts(p)
      BY <2>1 DEF Counts, EffectiveRetries, Forwarding, Admission
  <2> QED
      BY <1>2, <2>1, <2>2, <2>3 DEF AfterAttempt
<1> QED
    BY <1>1, <1>2

\* A stage with a call that settles or, at the end, with none.
LEMMA NextStage ==
    ASSUME NEW q \in Request, Counts(q), q.stage \in Forwarding \ {"choosing", "picked"},
           NEW stage \in {"failing", "settling", "done", "closing", "deciding", "copying"}
    PROVE  LET p == [q EXCEPT !.stage = stage]
           IN  /\ p \in Request
               /\ Counts(p)
               /\ p.stage = stage
               /\ p.err = q.err /\ p.response = q.response /\ p.backend = q.backend
<1> DEFINE p == [q EXCEPT !.stage = stage]
<1>1. /\ p \in Request /\ p.stage = stage /\ p.attempt = q.attempt
      /\ p.safe = q.safe /\ p.retries = q.retries /\ p.tries = q.tries
      /\ p.err = q.err /\ p.response = q.response /\ p.backend = q.backend
  <2>1. stage \in Stages
      BY DEF Stages
  <2> HIDE DEF p
  <2> QED
      BY <2>1, Staged DEF p
<1>2. Counts(p)
    BY <1>1 DEF Counts, EffectiveRetries, Forwarding, Admission
<1> QED
    BY <1>1, <1>2

LEMMA AnswersHold ==
    ASSUME HInv, NEW r \in Call
    PROVE  /\ RoundTripFails(r) => HInv'
           /\ \A response \in Responses, size \in Sizes :
                 RoundTripAnswers(r, response, size) => HInv'
           /\ CloseBody(r) => HInv'
           /\ SettleAttempt(r) => HInv'
<1>0. requests[r] \in Request /\ Counts(requests[r])
    BY DEF HInv
<1>1. ASSUME RoundTripFails(r) PROVE HInv'
  <2> DEFINE q == [requests[r] EXCEPT !.response = "none", !.err = TRUE]
             p == [q EXCEPT !.stage = "failing"]
  <2>0. q \in Request
      BY <1>0 DEF Request
  <2>1. /\ q.stage = "round trip" /\ q.attempt = requests[r].attempt
        /\ q.safe = requests[r].safe /\ q.retries = requests[r].retries
        /\ q.tries = requests[r].tries /\ q.err
      BY <1>0, <1>1 DEF Request, RoundTripFails, At
  <2>2. Counts(q)
      BY <1>0, <1>1, <2>1 DEF Counts, EffectiveRetries, Forwarding, Admission, RoundTripFails, At
  <2>3. Closed(q) /\ q.stage \in Forwarding \ {"choosing", "picked"}
      BY <2>1 DEF Closed, Forwarding
  <2>4. /\ IInv'
        /\ \A d \in Call : d # r => calls'[d] = calls[d]
        /\ \/ calls'[r].phase = "settling" /\ Becomes(r, p)
           \/ calls'[r] = Idle /\ Becomes(r, AfterAttempt(q))
      BY <1>1, Finishes DEF RoundTripFails, HInv
  <2>5. p \in Request /\ Counts(p) /\ p.stage = "failing" /\ p.err
    <3> HIDE DEF q
    <3>1. p \in Request /\ Counts(p) /\ p.stage = "failing" /\ p.err = q.err
        BY <2>0, <2>2, <2>3, NextStage
    <3> QED
        BY <2>1, <3>1
  <2>6. calls'[r].phase = "settling" => Holds(p, calls'[r])
      BY <2>5 DEF Holds, Closed, Forwarding
  <2>7. /\ AfterAttempt(q) \in Request
        /\ Holds(AfterAttempt(q), Idle)
        /\ Counts(AfterAttempt(q))
      BY <2>0, <2>2, <2>3, AttemptOver
  <2> HIDE DEF p, q
  <2>8. CASE calls'[r].phase = "settling" /\ Becomes(r, p)
      BY <2>4, <2>5, <2>6, <2>8, OneGoroutine
  <2>9. CASE calls'[r] = Idle /\ Becomes(r, AfterAttempt(q))
      BY <2>4, <2>7, <2>9, OneGoroutine
  <2> QED
      BY <2>4, <2>8, <2>9
<1>2. ASSUME NEW response \in Responses, NEW size \in Sizes,
             RoundTripAnswers(r, response, size)
      PROVE  HInv'
  <2> DEFINE q == [requests[r] EXCEPT !.response = response, !.size = size, !.err = FALSE]
             again == Retried(response) /\ q.attempt < q.retries
             stage == IF again THEN "closing" ELSE "deciding"
             p == [q EXCEPT !.stage = stage]
  <2>0. q \in Request
      BY <1>0 DEF Request
  <2>1. /\ q.stage = "round trip" /\ q.attempt = requests[r].attempt
        /\ q.safe = requests[r].safe /\ q.retries = requests[r].retries
        /\ q.tries = requests[r].tries /\ q.backend = requests[r].backend
        /\ ~ q.err /\ q.response = response
      BY <1>0, <1>2 DEF Request, RoundTripAnswers, At
  <2>2. Counts(q)
      BY <1>0, <1>2, <2>1 DEF Counts, EffectiveRetries, Forwarding, Admission, RoundTripAnswers, At
  <2>3. /\ q.stage \in Forwarding \ {"choosing", "picked"}
        /\ stage = "closing" \/ stage = "deciding"
      BY <2>1 DEF Forwarding
  <2>4. p \in Request /\ Counts(p) /\ p.stage = stage /\ ~ p.err /\ p.response = response
            /\ p.backend = requests[r].backend
    <3> HIDE DEF q, stage
    <3>0. stage \in {"failing", "settling", "done", "closing", "deciding", "copying"}
        BY <2>3
    <3>1. p \in Request /\ Counts(p) /\ p.stage = stage /\ p.err = q.err
              /\ p.response = q.response /\ p.backend = q.backend
        BY <2>0, <2>2, <2>3, <3>0, NextStage
    <3> QED
        BY <2>1, <3>1
  <2>5. calls[r].phase = "sent" /\ calls[r].address = requests[r].backend
      BY <1>2 DEF RoundTripAnswers, At, HInv, Holds
  <2>6. response # "none"
      BY HandlerAssumption
  <2>7. stage = "closing" => response = "gateway error"
      BY DEF Retried
  <2>8. Holds(p, calls[r])
    <3> HIDE DEF p, stage
    <3> QED
      BY <2>3, <2>4, <2>5, <2>6, <2>7 DEF Holds, Closed, Forwarding
  <2>9. Becomes(r, p) /\ PoolUnchanged
      BY <1>2 DEF RoundTripAnswers, RetryStage
  <2> HIDE DEF p
  <2> QED
      BY <2>4, <2>8, <2>9, GoroutineAlone
<1>3. ASSUME CloseBody(r) PROVE HInv'
  <2> DEFINE q == requests[r]
             p == [q EXCEPT !.stage = "failing"]
  <2>1. /\ Closed(q) /\ q.stage \in Forwarding \ {"choosing", "picked"}
      BY <1>3 DEF CloseBody, At, HInv, Holds, Forwarding
  <2>2. /\ IInv'
        /\ \A d \in Call : d # r => calls'[d] = calls[d]
        /\ \/ calls'[r].phase = "settling" /\ Becomes(r, p)
           \/ calls'[r] = Idle /\ Becomes(r, AfterAttempt(q))
      BY <1>3, Finishes DEF CloseBody, HInv
  <2>3. p \in Request /\ Counts(p) /\ p.stage = "failing" /\ (Closed(p) <=> Closed(q))
    <3> HIDE DEF q
    <3>1. p \in Request /\ Counts(p) /\ p.stage = "failing" /\ p.err = q.err
              /\ p.response = q.response
        BY <1>0, <2>1, NextStage DEF q
    <3> QED
        BY <3>1 DEF Closed
  <2>4. calls'[r].phase = "settling" => Holds(p, calls'[r])
    <3> HIDE DEF p
    <3> QED
      BY <2>1, <2>3 DEF Holds, Forwarding
  <2>5. /\ AfterAttempt(q) \in Request
        /\ Holds(AfterAttempt(q), Idle)
        /\ Counts(AfterAttempt(q))
      BY <1>0, <2>1, AttemptOver
  <2> HIDE DEF p
  <2>6. CASE calls'[r].phase = "settling" /\ Becomes(r, p)
      BY <2>2, <2>3, <2>4, <2>6, OneGoroutine
  <2>7. CASE calls'[r] = Idle /\ Becomes(r, AfterAttempt(q))
      BY <2>2, <2>5, <2>7, OneGoroutine
  <2> QED
      BY <2>2, <2>6, <2>7
<1>4. ASSUME SettleAttempt(r) PROVE HInv'
  <2>1. /\ IInv'
        /\ calls'[r] = Idle
        /\ \A d \in Call : d # r => calls'[d] = calls[d]
      BY <1>4, Settles DEF SettleAttempt, HInv
  <2>2. Closed(requests[r]) /\ requests[r].stage \in Forwarding \ {"choosing", "picked"}
      BY <1>4 DEF SettleAttempt, At, HInv, Holds, Forwarding
  <2> QED
      BY <1>0, <1>4, <2>1, <2>2, AttemptOver, OneGoroutine DEF SettleAttempt
<1> QED
    BY <1>1, <1>2, <1>3, <1>4

LEMMA CopyHolds ==
    ASSUME HInv, NEW r \in Call
    PROVE  /\ Decide(r) => HInv'
           /\ CopyResponse(r) => HInv'
           /\ SettleResponse(r) => HInv'
<1>0. requests[r] \in Request /\ Counts(requests[r]) /\ Holds(requests[r], calls[r])
    BY DEF HInv
<1>1. ASSUME Decide(r) PROVE HInv'
  <2> DEFINE q == requests[r]
  <2>1. q.stage = "deciding" /\ PoolUnchanged
      BY <1>1 DEF Decide, At
  <2>2. CASE q.err \/ q.response = "none"
    <3>1. calls[r] = Idle
        BY <1>0, <2>1, <2>2 DEF Holds
    <3>2. Reply(r, ErrorStatus(q)) /\ ErrorStatus(q) \in {"502", "503", "504"}
        BY <1>1, <2>2 DEF Decide, ErrorStatus
    <3> QED
        BY <2>1, <3>1, <3>2, ReplyHolds
  <2>3. CASE ~ (q.err \/ q.response = "none")
    <3> DEFINE p == [q EXCEPT !.stage = "copying"]
    <3>1. Becomes(r, p)
        BY <1>1, <2>3 DEF Decide
    <3> HIDE DEF q
    <3>2. /\ p \in Request /\ Counts(p) /\ p.stage = "copying"
          /\ p.err = q.err /\ p.response = q.response /\ p.backend = q.backend
        BY <1>0, <2>1, NextStage DEF q, Forwarding
    <3>3. Holds(p, calls[r])
        BY <1>0, <2>1, <2>3, <3>2 DEF q, Holds, Closed, Forwarding
    <3> HIDE DEF p
    <3> QED
        BY <2>1, <3>1, <3>2, <3>3, GoroutineAlone
  <2> QED
      BY <2>2, <2>3
<1>2. ASSUME CopyResponse(r) PROVE HInv'
  <2> DEFINE status == IF requests[r].size = "too large" THEN "502" ELSE requests[r].response
             q == [requests[r] EXCEPT !.status = status]
             s == [q EXCEPT !.stage = "settling"]
             p == [q EXCEPT !.stage = "done"]
  <2>0. status \in Responses \cup {"none", "502"}
      BY <1>0 DEF Request
  <2>1. q \in Request
    <3> HIDE DEF status
    <3> QED
      BY <1>0, <2>0 DEF Request
  <2>2. /\ q.stage = "copying" /\ q.attempt = requests[r].attempt
        /\ q.safe = requests[r].safe /\ q.retries = requests[r].retries
        /\ q.tries = requests[r].tries /\ requests[r].stage = "copying"
      BY <1>0, <1>2 DEF Request, CopyResponse, At
  <2>3. Counts(q)
      BY <1>0, <2>2 DEF Counts, EffectiveRetries, Forwarding, Admission
  <2>4. /\ s \in Request /\ Counts(s) /\ s.stage = "settling"
        /\ p \in Request /\ Counts(p) /\ p.stage = "done"
    <3> HIDE DEF q
    <3> QED
      BY <2>1, <2>2, <2>3, NextStage DEF Forwarding
  <2>5. \A call : (call.phase = "settling" => Holds(s, call)) /\ Holds(p, Idle)
      BY <2>4 DEF Holds, Forwarding
  <2>6. CASE BodyOpen(r) /\ RunFinish(r, q.response # "ok", s, p)
    <3>1. /\ IInv'
          /\ \A d \in Call : d # r => calls'[d] = calls[d]
          /\ \/ calls'[r].phase = "settling" /\ Becomes(r, s)
             \/ calls'[r] = Idle /\ Becomes(r, p)
      <4> HIDE DEF q, s, p
      <4> QED
        BY <2>6, Finishes DEF HInv
    <3> HIDE DEF s, p
    <3>2. CASE calls'[r].phase = "settling" /\ Becomes(r, s)
        BY <2>4, <2>5, <3>1, <3>2, OneGoroutine
    <3>3. CASE calls'[r] = Idle /\ Becomes(r, p)
        BY <2>4, <2>5, <3>1, <3>3, OneGoroutine
    <3> QED
        BY <3>1, <3>2, <3>3
  <2>7. CASE ~ BodyOpen(r) /\ Becomes(r, p) /\ PoolUnchanged
    <3>1. calls[r] = Idle
        BY <1>0, <2>2, <2>7 DEF Holds, BodyOpen
    <3> HIDE DEF p
    <3> QED
        BY <2>4, <2>5, <2>7, <3>1, GoroutineAlone
  <2> QED
      BY <1>2, <2>6, <2>7 DEF CopyResponse
<1>3. ASSUME SettleResponse(r) PROVE HInv'
  <2> DEFINE q == requests[r]
             p == [q EXCEPT !.stage = "done"]
  <2>1. /\ IInv'
        /\ calls'[r] = Idle
        /\ \A d \in Call : d # r => calls'[d] = calls[d]
      BY <1>3, Settles DEF SettleResponse, HInv
  <2>2. q.stage = "settling" /\ Becomes(r, p)
      BY <1>3 DEF SettleResponse, At
  <2> HIDE DEF q
  <2>3. p \in Request /\ Counts(p) /\ p.stage = "done"
      BY <1>0, <2>2, NextStage DEF q, Forwarding
  <2>4. Holds(p, Idle)
      BY <2>3 DEF Holds, Forwarding
  <2> HIDE DEF p
  <2> QED
      BY <2>1, <2>2, <2>3, <2>4, OneGoroutine
<1> QED
    BY <1>1, <1>2, <1>3

\* Reloads, operators, health checks and time leave requests and calls alone.
LEMMA BackgroundHolds ==
    ASSUME HInv, Background, UNCHANGED requests
    PROVE  HInv'
<1>1. IInv'
    BY StepInv DEF HInv, Moves
<1>2. UNCHANGED calls
    BY DEF Background, SetBackendState, Reconfigure, HealthSnapshot, HealthProbe, Tick
<1> QED
    BY <1>1, <1>2 DEF HInv

LEMMA HandlerStepHolds ==
    ASSUME HInv, [HandlerNext]_handlerVars
    PROVE  HInv'
<1>1. ASSUME NEW r \in Call, Progress(r) PROVE HInv'
    BY <1>1, AdmissionHolds, PicksHold, AnswersHold, CopyHolds DEF Progress
<1>2. ASSUME NEW r \in Call, ClientStep(r) PROVE HInv'
    BY <1>2, ClientHolds
<1>3. CASE Background /\ UNCHANGED requests
    BY <1>3, BackgroundHolds
<1>4. CASE UNCHANGED handlerVars
  <2>1. IInv'
      BY <1>4, StepInv DEF HInv, handlerVars
  <2> QED
      BY <1>4, <2>1 DEF HInv, handlerVars, vars
<1> QED
    BY <1>1, <1>2, <1>3, <1>4 DEF HandlerNext

LEMMA HandlerInductive == HandlerSpec => []HInv
BY InitHolds, HandlerStepHolds, PTL DEF HandlerSpec

-----------------------------------------------------------------------------
(* Every step of the handlers is one of the pool *)

\* The operators of the pool are those of PoolUse but for the bound on errors.
LEMMA SameRefreshed ==
    ASSUME NEW e
    PROVE  PoolUse!Refreshed(e) = Refreshed(e)
BY DEF PoolUse!Refreshed, Refreshed

LEMMA SameCandidates ==
    ASSUME NEW allowed
    PROVE  PoolUse!Candidates(allowed) = Candidates(allowed)
BY SameRefreshed
   DEF PoolUse!Candidates, Candidates, PoolUse!Considered, Considered, PoolUse!Admits, Admits

LEMMA SameTied ==
    ASSUME NEW cands, NEW latency
    PROVE  PoolUse!Tied(cands, latency) = Tied(cands, latency)
<1>1. ASSUME NEW e, NEW l PROVE PoolUse!BackendScore(e, l) = BackendScore(e, l)
    BY DEF PoolUse!BackendScore, BackendScore, PoolUse!AtLeastOne, AtLeastOne
<1> QED
    BY <1>1, SameRefreshed DEF PoolUse!Tied, Tied

LEMMA SameTotal ==
    ASSUME NEW tied
    PROVE  PoolUse!TotalWeight(tied) = TotalWeight(tied)
BY DEF PoolUse!TotalWeight, TotalWeight, PoolUse!SumOver, SumOver, PoolUse!Units, Units, PoolUse!Cardinality, Cardinality,
       PoolUse!AtLeastOne, AtLeastOne

LEMMA SameTurn ==
    ASSUME NEW i, NEW tied, NEW position
    PROVE  PoolUse!InTurn(i, tied, position) = InTurn(i, tied, position)
BY SameTotal DEF PoolUse!InTurn, InTurn, PoolUse!AtLeastOne, AtLeastOne

LEMMA SameSelection ==
    ASSUME NEW c, NEW allowed, NEW latency, NextFor(c, allowed, latency)
    PROVE  PoolUse!NextFor(c, allowed, latency)
<1> DEFINE cands == Candidates(allowed)
           tied  == Tied(cands, latency)
           total == TotalWeight(tied)
           Taken(i, halfOpen) == [j \in DOMAIN pool |->
                       CASE j = i /\ halfOpen ->
                              [Refreshed(pool[j]) EXCEPT !.halfOpenInFlight = TRUE]
                         [] j \in cands /\ ~ (j = i /\ halfOpen) -> Refreshed(pool[j])
                         [] OTHER -> pool[j]]
           Half(i) == Refreshed(pool[i]).breakerState = "half-open"
           Given(i) == [calls EXCEPT ![c] =
                       [Idle EXCEPT !.phase = "picked",
                                    !.address = pool[i].address,
                                    !.probe = Half(i)]]
<1>1. PICK i \in tied : /\ InTurn(i, tied, current % total)
                       /\ current' = (current + 1) % total
                       /\ pool' = Taken(i, Half(i))
                       /\ calls' = Given(i)
    BY DEF NextFor
<1>2. PoolUse!Idle = Idle
    BY DEF PoolUse!Idle, Idle, PoolUse!NoStats, NoStats
<1>3. /\ PoolUse!Candidates(allowed) = cands
      /\ PoolUse!Tied(cands, latency) = tied
      /\ PoolUse!TotalWeight(tied) = total
      /\ PoolUse!InTurn(i, tied, current % total)
    BY <1>1, SameCandidates, SameTied, SameTotal, SameTurn
<1>4. calls[c].phase = "idle" /\ UNCHANGED <<generation, sweep>>
    BY DEF NextFor
<1>6. pool' = [j \in DOMAIN pool |->
                       CASE j = i /\ Half(i) ->
                              [PoolUse!Refreshed(pool[j]) EXCEPT !.halfOpenInFlight = TRUE]
                         [] j \in PoolUse!Candidates(allowed) /\ ~ (j = i /\ Half(i)) ->
                              PoolUse!Refreshed(pool[j])
                         [] OTHER -> pool[j]]
    BY <1>1, SameRefreshed, SameCandidates
<1>7. calls' = [calls EXCEPT ![c] =
                       [PoolUse!Idle EXCEPT !.phase = "picked",
                                    !.address = pool[i].address,
                                    !.probe = Half(i)]]
    BY <1>1, <1>2
<1>8. Half(i) = (PoolUse!Refreshed(pool[i]).breakerState = "half-open")
    BY SameRefreshed
<1>9. /\ i \in PoolUse!Tied(PoolUse!Candidates(allowed), latency)
      /\ PoolUse!TotalWeight(PoolUse!Tied(PoolUse!Candidates(allowed), latency)) = total
      /\ PoolUse!InTurn(i, PoolUse!Tied(PoolUse!Candidates(allowed), latency), current % total)
    BY <1>3
<1>10. current' = (current + 1) % total
    BY <1>1
<1> HIDE DEF cands, tied, total, Taken, Given, Half
<1> QED
    BY <1>4, <1>6, <1>7, <1>8, <1>9, <1>10 DEF PoolUse!NextFor

LEMMA SameCallSteps ==
    ASSUME NEW c, NEW failed
    PROVE  /\ StartRequest(c) => PoolUse!StartRequest(c)
           /\ FinishStats(c, failed) => PoolUse!FinishStats(c, failed)
           /\ FinishNothing(c) => PoolUse!FinishNothing(c)
           /\ FinishRequest(c) => PoolUse!FinishRequest(c)
<1>1. PoolUse!Idle = Idle
    BY DEF PoolUse!Idle, Idle, PoolUse!NoStats, NoStats
<1>2. StartRequest(c) => PoolUse!StartRequest(c)
    BY DEF PoolUse!StartRequest, StartRequest, PoolUse!IsFirst, IsFirst,
           PoolUse!UpdateFirst, UpdateFirst, PoolUse!Present, Present
<1>3. FinishStats(c, failed) => PoolUse!FinishStats(c, failed)
    BY DEF PoolUse!FinishStats, FinishStats, PoolUse!Captured, Captured,
           PoolUse!Uncounted, Uncounted, PoolUse!NoStats, NoStats
<1>4. FinishNothing(c) => PoolUse!FinishNothing(c)
    BY <1>1 DEF PoolUse!FinishNothing, FinishNothing, PoolUse!Captured, Captured,
                PoolUse!NoStats, NoStats
<1>5. FinishRequest(c) => PoolUse!FinishRequest(c)
    BY <1>1 DEF PoolUse!FinishRequest, FinishRequest, PoolUse!IsFirst, IsFirst,
           PoolUse!UpdateFirst, UpdateFirst, PoolUse!Settled, Settled,
           PoolUse!ErrAfter, ErrAfter, PoolUse!SlotAfter, SlotAfter
<1> QED
    BY <1>2, <1>3, <1>4, <1>5

LEMMA SameBackground == Background => PoolUse!Background
BY DEF PoolUse!Background, Background, PoolUse!SetBackendState, SetBackendState,
       PoolUse!Reconfigure, Reconfigure, PoolUse!HealthSnapshot, HealthSnapshot,
       PoolUse!HealthProbe, HealthProbe, PoolUse!Tick, Tick, PoolUse!IsFirst, IsFirst,
       PoolUse!UpdateFirst, UpdateFirst, PoolUse!UpdateAll, UpdateAll,
       PoolUse!Present, Present, PoolUse!AfterAdmin, AfterAdmin,
       PoolUse!AfterProbe, AfterProbe, PoolUse!Clone, Clone, PoolUse!Carried, Carried,
       PoolUse!NewEntry, NewEntry, PoolUse!IsLast, IsLast

LEMMA SameInit == Init => PoolUse!Init
BY DEF PoolUse!Init, Init, PoolUse!NewEntry, NewEntry, PoolUse!Idle, Idle,
       PoolUse!NoStats, NoStats

-----------------------------------------------------------------------------
(* How many failures can be under way *)

\* finitely many goroutines, and routes that have a retry count
FiniteHandlers == IsFiniteSet(Call) /\ IsFiniteSet(Retries) /\ Retries # {}

LEMMA MostTriesBound ==
    ASSUME FiniteHandlers
    PROVE  /\ MostTries \in Nat \ {0}
           /\ \A k \in Retries : k \in Nat /\ k < MostTries
<1>1. \E k \in Retries : \A j \in Retries : j <= k
    BY LargestNumber, HandlerAssumption DEF FiniteHandlers
<1> DEFINE most == CHOOSE k \in Retries : \A j \in Retries : j <= k
<1>2. most \in Retries /\ \A j \in Retries : j <= most
    BY <1>1
<1>3. MostTries = 1 + most
    BY DEF MostTries
<1>4. \A k \in Retries : k \in Nat
    BY HandlerAssumption
<1> HIDE DEF most
<1>5. most \in Nat /\ \A k \in Retries : k \in Nat /\ k <= most
    BY <1>2, <1>4
<1> QED
    BY <1>3, <1>5

\* the stages in which all attempts that are left are still to be settled
Attempting == {"reading", "limiting", "throttled", "choosing", "picked", "round trip",
               "closing", "failing"}

TriesLeft(q) == EffectiveRetries(q) - q.attempt + 1

\* the call's own failure was decided on, and is still to be counted
OwesOne(q, call) ==
    \/ q.stage \in {"closing", "failing"}
    \/ q.stage \in {"deciding", "copying"} /\ call.phase = "sent" /\ q.response # "ok"
    \/ q.stage = "settling" /\ call.failed

\* The failures a request may still count against an address without asking
\* MayFail: each attempt, once its context is over, and else the one that
\* was decided on.
Owed(q, call, address) ==
    IF q.ctx # "live" /\ q.stage \in Attempting THEN TriesLeft(q)
    ELSE IF OwesOne(q, call) /\ call.address = address THEN 1 ELSE 0


\* the same for all requests, as they stand in rq and cs
OwedInAll(rq, cs, address) ==
    SumOver([r \in Call |-> Owed(rq[r], cs[r], address)], Call)

Owing(address) == OwedInAll(requests, calls, address)

Margin == MostTries * Cardinality(Call)

\* The error counts stay below the bound of PoolUse, with what is owed added.
ErrBounded ==
    \A i \in DOMAIN pool :
        pool[i].consecutiveErr + Owing(pool[i].address) <= MaxErr + Margin

Lawful ==
    \A r \in Call : /\ requests[r].retries < MostTries
                    /\ requests[r].stage = "idle" => requests[r].ctx = "live"

EInv == HInv /\ Lawful /\ ErrBounded

\* what of the invariant bounds the failures of a request
Sound(q) == q \in Request /\ Counts(q) /\ q.retries < MostTries

LEMMA SoundRequests ==
    ASSUME HInv, Lawful
    PROVE  \A r \in Call : Sound(requests[r])
BY DEF HInv, Lawful, Sound

LEMMA OwedType ==
    ASSUME FiniteHandlers, NEW q, Sound(q), NEW call, NEW address
    PROVE  /\ Owed(q, call, address) \in Nat
           /\ Owed(q, call, address) <= MostTries
           /\ q.ctx # "live" /\ q.stage \in Attempting => 1 <= Owed(q, call, address)
<1>1. q \in Request /\ Counts(q) /\ q.retries < MostTries
    BY DEF Sound
<1>2. MostTries \in Nat /\ 1 <= MostTries
    BY MostTriesBound
<1>3. q.stage \in Attempting => TriesLeft(q) \in Nat /\ 1 <= TriesLeft(q) /\ TriesLeft(q) <= MostTries
  <2>1. q.retries \in Nat /\ q.attempt \in Nat /\ q.safe \in BOOLEAN
      BY <1>1 DEF Request
  <2> SUFFICES ASSUME q.stage \in Attempting
               PROVE  TriesLeft(q) \in Nat /\ 1 <= TriesLeft(q) /\ TriesLeft(q) <= MostTries
      OBVIOUS
  <2>2. EffectiveRetries(q) \in Nat /\ EffectiveRetries(q) <= q.retries
      BY <2>1 DEF EffectiveRetries
  <2>3. q.attempt <= EffectiveRetries(q)
    <3>1. CASE q.stage \in Admission
        BY <1>1, <2>2, <3>1 DEF Counts
    <3>2. CASE q.stage \in Forwarding
        BY <1>1, <2>1, <3>2 DEF Counts, EffectiveRetries
    <3> QED
        BY <3>1, <3>2 DEF Attempting, Admission, Forwarding
  <2> QED
      BY <1>1, <1>2, <2>1, <2>2, <2>3 DEF TriesLeft
<1> QED
    BY <1>2, <1>3 DEF Owed

\* What all requests owe is at most the margin.
LEMMA OwedInAllType ==
    ASSUME FiniteHandlers, NEW rq, NEW cs, \A r \in Call : Sound(rq[r]), NEW address
    PROVE  /\ OwedInAll(rq, cs, address) \in Nat
           /\ OwedInAll(rq, cs, address) <= Margin
           /\ Margin \in Nat
<1> DEFINE f == [r \in Call |-> Owed(rq[r], cs[r], address)]
<1>1. \A r \in Call : f[r] \in Nat /\ f[r] <= MostTries
    BY OwedType
<1>2. MostTries \in Nat /\ Cardinality(Call) \in Nat /\ IsFiniteSet(Call)
    BY MostTriesBound, FS_CardinalityType DEF FiniteHandlers
<1> HIDE DEF f
<1>3. SumOver(f, Call) \in Nat /\ SumOver(f, Call) <= MostTries * Cardinality(Call)
    BY <1>1, <1>2, SumType, SumBound
<1>4. MostTries * Cardinality(Call) \in Nat
    BY <1>2
<1> QED
    BY <1>3, <1>4 DEF OwedInAll, Margin, f

\* If no request comes to owe more, all of them do not, and less if one owes less.
LEMMA OwedInAllFalls ==
    ASSUME FiniteHandlers, NEW rq, NEW cs, NEW rq2, NEW cs2,
           \A r \in Call : Sound(rq[r]), \A r \in Call : Sound(rq2[r]), NEW address,
           \A r \in Call : Owed(rq2[r], cs2[r], address) <= Owed(rq[r], cs[r], address)
    PROVE  /\ OwedInAll(rq2, cs2, address) <= OwedInAll(rq, cs, address)
           /\ \A r \in Call :
                 Owed(rq2[r], cs2[r], address) + 1 <= Owed(rq[r], cs[r], address)
                    => OwedInAll(rq2, cs2, address) + 1 <= OwedInAll(rq, cs, address)
<1> DEFINE f == [r \in Call |-> Owed(rq[r], cs[r], address)]
           g == [r \in Call |-> Owed(rq2[r], cs2[r], address)]
<1>1. f \in [Call -> Nat] /\ g \in [Call -> Nat]
    BY OwedType
<1>2. \A r \in Call : g[r] <= f[r] /\ g[r] \in Nat /\ f[r] \in Nat
    BY <1>1
<1>3. IsFiniteSet(Call)
    BY DEF FiniteHandlers
<1>4. \A r \in Call : g[r] = Owed(rq2[r], cs2[r], address) /\ f[r] = Owed(rq[r], cs[r], address)
    OBVIOUS
<1> HIDE DEF f, g
<1>5. SumOver(g, Call) <= SumOver(f, Call)
    BY <1>2, <1>3, SumMonotone
<1>6. ASSUME NEW r \in Call, g[r] + 1 <= f[r]
      PROVE  SumOver(g, Call) + 1 <= SumOver(f, Call)
    BY <1>1, <1>2, <1>3, <1>6, SumLess
<1>7. ASSUME NEW r \in Call, Owed(rq2[r], cs2[r], address) + 1 <= Owed(rq[r], cs[r], address)
      PROVE  SumOver(g, Call) + 1 <= SumOver(f, Call)
    BY <1>4, <1>6, <1>7
<1> QED
    BY <1>5, <1>7 DEF OwedInAll, f, g

LEMMA OwedCounted ==
    ASSUME FiniteHandlers, HInv, Lawful, NEW address, NEW r \in Call,
           1 <= Owed(requests[r], calls[r], address)
    PROVE  1 <= Owing(address)
<1> DEFINE f == [d \in Call |-> Owed(requests[d], calls[d], address)]
           g == [d \in Call |-> 0]
<1>1. f \in [Call -> Nat] /\ g \in [Call -> Nat]
    BY SoundRequests, OwedType
<1>2. g[r] + 1 <= f[r] /\ \A d \in Call : g[d] <= f[d] /\ g[d] = 0
    BY <1>1
<1>3. IsFiniteSet(Call)
    BY DEF FiniteHandlers
<1> HIDE DEF f, g
<1>4. SumOver(g, Call) + 1 <= SumOver(f, Call)
    BY <1>1, <1>2, <1>3, SumLess
<1>5. SumOver(g, Call) = 0
    BY <1>2, SumZero
<1> QED
    BY <1>4, <1>5 DEF Owing, OwedInAll, f

-----------------------------------------------------------------------------
(* The bound is kept *)

\* no entry comes to have more errors in a row
ErrsKept ==
    /\ DOMAIN pool' = DOMAIN pool
    /\ \A i \in DOMAIN pool : /\ pool'[i].address = pool[i].address
                              /\ pool'[i].consecutiveErr <= pool[i].consecutiveErr

LEMMA EntryErrs ==
    ASSUME NEW p \in Seq(Entry), NEW i \in DOMAIN p
    PROVE  p[i] \in Entry /\ p[i].consecutiveErr \in Nat
<1>1. p[i] \in Entry
    OBVIOUS
<1> QED
    BY <1>1 DEF Entry

\* a change of one field leaves address and errors alone
LEMMA FieldsAlone ==
    ASSUME NEW e \in Entry, NEW slot, NEW active
    PROVE  /\ [e EXCEPT !.active = active].address = e.address
           /\ [e EXCEPT !.active = active].consecutiveErr = e.consecutiveErr
           /\ [e EXCEPT !.halfOpenInFlight = slot].address = e.address
           /\ [e EXCEPT !.halfOpenInFlight = slot].consecutiveErr = e.consecutiveErr
BY DEF Entry

LEMMA PoolKeepsErrs ==
    ASSUME TypeOK, NEW r \in Call
    PROVE  /\ \A allowed, latency : NextFor(r, allowed, latency) => ErrsKept
           /\ StartRequest(r) => ErrsKept
           /\ \A failed : FinishStats(r, failed) => ErrsKept
           /\ FinishNothing(r) => ErrsKept
           /\ PoolUnchanged => ErrsKept
<1>0. \A i \in DOMAIN pool : pool[i] \in Entry /\ pool[i].consecutiveErr \in Nat
    BY EntryErrs DEF TypeOK
<1>1. UNCHANGED pool => ErrsKept
    BY <1>0 DEF ErrsKept
<1>2. ASSUME NEW allowed, NEW latency, NextFor(r, allowed, latency) PROVE ErrsKept
  <2> DEFINE Taken(i, halfOpen) ==
                 [j \in DOMAIN pool |->
                       CASE j = i /\ halfOpen ->
                              [Refreshed(pool[j]) EXCEPT !.halfOpenInFlight = TRUE]
                         [] j \in Candidates(allowed) /\ ~ (j = i /\ halfOpen) ->
                              Refreshed(pool[j])
                         [] OTHER -> pool[j]]
  <2>1. PICK i : pool' = Taken(i, Refreshed(pool[i]).breakerState = "half-open")
      BY <1>2 DEF NextFor
  <2>2. ASSUME NEW e \in Entry
        PROVE  /\ Refreshed(e) \in Entry
               /\ Refreshed(e).address = e.address
               /\ Refreshed(e).consecutiveErr = e.consecutiveErr
    <3>1. CASE e.breakerState = "open" /\ e.cooldown = 0
        BY <3>1 DEF Refreshed, Entry, BreakerStates
    <3>2. CASE ~ (e.breakerState = "open" /\ e.cooldown = 0)
        BY <3>2 DEF Refreshed
    <3> QED
        BY <3>1, <3>2
  <2>3. DOMAIN pool' = DOMAIN pool
      BY <2>1
  <2>4. ASSUME NEW j \in DOMAIN pool
        PROVE  \/ pool'[j] = [Refreshed(pool[j]) EXCEPT !.halfOpenInFlight = TRUE]
               \/ pool'[j] = Refreshed(pool[j])
               \/ pool'[j] = pool[j]
      BY <2>1
  <2>5. \A j \in DOMAIN pool : /\ pool'[j].address = pool[j].address
                               /\ pool'[j].consecutiveErr = pool[j].consecutiveErr
    <3> TAKE j \in DOMAIN pool
    <3>1. pool[j] \in Entry
        BY <1>0
    <3>2. /\ Refreshed(pool[j]) \in Entry
          /\ Refreshed(pool[j]).address = pool[j].address
          /\ Refreshed(pool[j]).consecutiveErr = pool[j].consecutiveErr
        BY <2>2, <3>1
    <3>3. /\ [Refreshed(pool[j]) EXCEPT !.halfOpenInFlight = TRUE].address
                = Refreshed(pool[j]).address
          /\ [Refreshed(pool[j]) EXCEPT !.halfOpenInFlight = TRUE].consecutiveErr
                = Refreshed(pool[j]).consecutiveErr
        BY <3>2, FieldsAlone
    <3> QED
        BY <2>4, <3>2, <3>3
  <2> QED
      BY <1>0, <2>3, <2>5 DEF ErrsKept
<1>3. ASSUME StartRequest(r) PROVE ErrsKept
  <2>1. CASE UNCHANGED pool
      BY <1>1, <2>1
  <2>2. CASE pool' = UpdateFirst(calls[r].address, LAMBDA e : [e EXCEPT !.active = @ + 1])
    <3>1. \A j \in DOMAIN pool :
             /\ [pool[j] EXCEPT !.active = @ + 1].address = pool[j].address
             /\ [pool[j] EXCEPT !.active = @ + 1].consecutiveErr = pool[j].consecutiveErr
        BY <1>0, FieldsAlone
    <3>2. DOMAIN pool' = DOMAIN pool
        BY <2>2 DEF UpdateFirst
    <3>3. \A j \in DOMAIN pool : pool'[j] \in {pool[j], [pool[j] EXCEPT !.active = @ + 1]}
        BY <2>2 DEF UpdateFirst
    <3>4. \A j \in DOMAIN pool : /\ pool'[j].address = pool[j].address
                                 /\ pool'[j].consecutiveErr = pool[j].consecutiveErr
        BY <3>1, <3>3
    <3> QED
        BY <1>0, <3>2, <3>4 DEF ErrsKept
  <2> QED
      BY <1>3, <2>1, <2>2 DEF StartRequest
<1>4. ASSUME NEW failed, FinishStats(r, failed) PROVE ErrsKept
  <2>1. \A j \in DOMAIN pool :
           /\ [pool[j] EXCEPT !.active = @ - 1].address = pool[j].address
           /\ [pool[j] EXCEPT !.active = @ - 1].consecutiveErr = pool[j].consecutiveErr
      BY <1>0, FieldsAlone
  <2>2. DOMAIN pool' = DOMAIN pool
      BY <1>4 DEF FinishStats, Uncounted
  <2>3. \A j \in DOMAIN pool : pool'[j] \in {pool[j], [pool[j] EXCEPT !.active = @ - 1]}
      BY <1>4 DEF FinishStats, Uncounted
  <2>4. \A j \in DOMAIN pool : /\ pool'[j].address = pool[j].address
                               /\ pool'[j].consecutiveErr = pool[j].consecutiveErr
      BY <2>1, <2>3
  <2> QED
      BY <1>0, <2>2, <2>4 DEF ErrsKept
<1>5. (FinishNothing(r) => UNCHANGED pool) /\ (PoolUnchanged => UNCHANGED pool)
    BY DEF FinishNothing, PoolUnchanged, vars
<1> QED
    BY <1>1, <1>2, <1>3, <1>4, <1>5

\* finishRequest counts one error more at most, and only the failure of its call.
LEMMA SettleErrs ==
    ASSUME TypeOK, NEW r \in Call, FinishRequest(r)
    PROVE  /\ DOMAIN pool' = DOMAIN pool
           /\ \A i \in DOMAIN pool :
                 /\ pool'[i].address = pool[i].address
                 /\ \/ pool'[i].consecutiveErr <= pool[i].consecutiveErr
                    \/ /\ calls[r].failed /\ calls[r].address = pool[i].address
                       /\ pool'[i].consecutiveErr = pool[i].consecutiveErr + 1
<1>0. \A i \in DOMAIN pool : pool[i] \in Entry /\ pool[i].consecutiveErr \in Nat
    BY EntryErrs DEF TypeOK
<1> DEFINE failed == calls[r].failed
<1>1. pool' = UpdateFirst(calls[r].address, LAMBDA e : Settled(e, failed))
    BY DEF FinishRequest
<1>2. \A e \in Entry : /\ Settled(e, failed).address = e.address
                       /\ Settled(e, failed).consecutiveErr = ErrAfter(e, failed)
    BY DEF Settled, Entry
<1>3. DOMAIN pool' = DOMAIN pool
    BY <1>1 DEF UpdateFirst
<1>4. \A i \in DOMAIN pool : \/ pool'[i] = pool[i]
                             \/ /\ pool'[i] = Settled(pool[i], failed)
                                /\ calls[r].address = pool[i].address
    BY <1>1 DEF UpdateFirst, IsFirst
<1> HIDE DEF failed
<1>5. ASSUME NEW i \in DOMAIN pool
      PROVE  /\ pool'[i].address = pool[i].address
             /\ \/ pool'[i].consecutiveErr <= pool[i].consecutiveErr
                \/ /\ failed /\ calls[r].address = pool[i].address
                   /\ pool'[i].consecutiveErr = pool[i].consecutiveErr + 1
  <2>1. CASE pool'[i] = pool[i]
      BY <1>0, <2>1
  <2>2. CASE pool'[i] = Settled(pool[i], failed) /\ calls[r].address = pool[i].address
    <3>1. pool'[i].address = pool[i].address /\ pool'[i].consecutiveErr = ErrAfter(pool[i], failed)
        BY <1>0, <1>2, <2>2
    <3> QED
        BY <1>0, <2>2, <3>1 DEF ErrAfter
  <2> QED
      BY <1>4, <2>1, <2>2
<1> QED
    BY <1>3, <1>5 DEF failed

\* A step of one goroutine that counts no error, and lets it owe more only where
\* MayFail was asked.
LEMMA BoundKept ==
    ASSUME FiniteHandlers, EInv, HInv', Lawful', ErrsKept, NEW r \in Call,
           \A d \in Call : d # r => requests'[d] = requests[d] /\ calls'[d] = calls[d],
           \A address : \/ MayFail(address)
                        \/ Owed(requests'[r], calls'[r], address)
                              <= Owed(requests[r], calls[r], address)
    PROVE  ErrBounded'
<1>1. (\A d \in Call : Sound(requests[d])) /\ (\A d \in Call : Sound(requests'[d]))
  <2>1. \A d \in Call : Sound(requests[d])
      BY SoundRequests DEF EInv
  <2>2. \A d \in Call : Sound(requests'[d])
      BY DEF HInv, Lawful, Sound
  <2> QED
      BY <2>1, <2>2
<1>2. ASSUME NEW i \in DOMAIN pool
      PROVE  pool'[i].consecutiveErr + OwedInAll(requests', calls', pool'[i].address)
                <= MaxErr + Margin
  <2> DEFINE a == pool[i].address
             err == pool[i].consecutiveErr
             err2 == pool'[i].consecutiveErr
  <2>1. err2 <= err /\ pool'[i].address = a
      BY DEF ErrsKept
  <2>2. err \in Nat /\ err2 \in Nat
    <3>1. DOMAIN pool' = DOMAIN pool
        BY DEF ErrsKept
    <3>2. err \in Nat
        BY EntryErrs DEF EInv, HInv, IInv, TypeOK
    <3>3. err2 \in Nat
        BY <3>1, EntryErrs DEF HInv, IInv, TypeOK
    <3> QED
        BY <3>2, <3>3
  <2>3. err + OwedInAll(requests, calls, a) <= MaxErr + Margin
      BY DEF EInv, ErrBounded, Owing
  <2>4. /\ OwedInAll(requests, calls, a) \in Nat
        /\ OwedInAll(requests', calls', a) \in Nat
        /\ OwedInAll(requests', calls', a) <= Margin /\ Margin \in Nat
      BY <1>1, OwedInAllType
  <2>0. MaxErr \in Nat
      BY NumberAssumption
  <2> SUFFICES err2 + OwedInAll(requests', calls', a) <= MaxErr + Margin
      BY <2>1
  <2>5. CASE MayFail(a)
    <3>1. err <= MaxErr
        BY <2>2, <2>5, NumberAssumption DEF MayFail
    <3> HIDE DEF a, err, err2
    <3> QED
        BY <2>0, <2>1, <2>2, <2>4, <3>1
  <2>6. CASE Owed(requests'[r], calls'[r], a) <= Owed(requests[r], calls[r], a)
    <3>1. \A d \in Call : Owed(requests'[d], calls'[d], a) <= Owed(requests[d], calls[d], a)
      <4> TAKE d \in Call
      <4>1. CASE d = r
          BY <2>6, <4>1
      <4>2. CASE d # r
        <5>1. Owed(requests[d], calls[d], a) \in Nat
            BY <1>1, OwedType
        <5> QED
            BY <4>2, <5>1
      <4> QED
          BY <4>1, <4>2
    <3>2. OwedInAll(requests', calls', a) <= OwedInAll(requests, calls, a)
        BY <1>1, <3>1, OwedInAllFalls
    <3> HIDE DEF a, err, err2
    <3> QED
        BY <2>0, <2>1, <2>2, <2>3, <2>4, <3>2
  <2> QED
      BY <2>5, <2>6
<1> QED
    BY <1>2 DEF ErrsKept, ErrBounded, Owing

\* A call that settles pays with what its goroutine owes.
LEMMA BoundSettled ==
    ASSUME FiniteHandlers, EInv, HInv', Lawful', NEW r \in Call, FinishRequest(r),
           \A d \in Call : d # r => requests'[d] = requests[d] /\ calls'[d] = calls[d],
           \A address : /\ Owed(requests'[r], calls'[r], address)
                              <= Owed(requests[r], calls[r], address)
                        /\ calls[r].failed /\ calls[r].address = address
                             => Owed(requests'[r], calls'[r], address) + 1
                                    <= Owed(requests[r], calls[r], address)
    PROVE  ErrBounded'
<1>0. TypeOK
    BY DEF EInv, HInv, IInv
<1>1. (\A d \in Call : Sound(requests[d])) /\ (\A d \in Call : Sound(requests'[d]))
  <2>1. \A d \in Call : Sound(requests[d])
      BY SoundRequests DEF EInv
  <2>2. \A d \in Call : Sound(requests'[d])
      BY DEF HInv, Lawful, Sound
  <2> QED
      BY <2>1, <2>2
<1>2. DOMAIN pool' = DOMAIN pool
    BY <1>0, SettleErrs
<1>3. ASSUME NEW i \in DOMAIN pool
      PROVE  pool'[i].consecutiveErr + OwedInAll(requests', calls', pool'[i].address)
                <= MaxErr + Margin
  <2> DEFINE a == pool[i].address
             err == pool[i].consecutiveErr
             err2 == pool'[i].consecutiveErr
  <2>1. /\ pool'[i].address = a
        /\ \/ err2 <= err
           \/ /\ calls[r].failed /\ calls[r].address = a
              /\ err2 = err + 1
    <3>1. \A j \in DOMAIN pool :
                 /\ pool'[j].address = pool[j].address
                 /\ \/ pool'[j].consecutiveErr <= pool[j].consecutiveErr
                    \/ /\ calls[r].failed /\ calls[r].address = pool[j].address
                       /\ pool'[j].consecutiveErr = pool[j].consecutiveErr + 1
        BY <1>0, SettleErrs
    <3> QED
        BY <3>1
  <2>2. err \in Nat /\ err2 \in Nat
    <3>2. err \in Nat
        BY <1>0, EntryErrs DEF TypeOK
    <3>3. err2 \in Nat
        BY <1>2, EntryErrs DEF HInv, IInv, TypeOK
    <3> QED
        BY <3>2, <3>3
  <2>3. err + OwedInAll(requests, calls, a) <= MaxErr + Margin
      BY DEF EInv, ErrBounded, Owing
  <2>4. /\ OwedInAll(requests, calls, a) \in Nat
        /\ OwedInAll(requests', calls', a) \in Nat
        /\ Margin \in Nat
      BY <1>1, OwedInAllType
  <2>5. \A d \in Call : Owed(requests'[d], calls'[d], a) <= Owed(requests[d], calls[d], a)
    <3> TAKE d \in Call
    <3>1. CASE d # r
      <4>1. Owed(requests[d], calls[d], a) \in Nat
          BY <1>1, OwedType
      <4> QED
          BY <3>1, <4>1
    <3> QED
        BY <3>1
  <2>6. /\ OwedInAll(requests', calls', a) <= OwedInAll(requests, calls, a)
        /\ calls[r].failed /\ calls[r].address = a
              => OwedInAll(requests', calls', a) + 1 <= OwedInAll(requests, calls, a)
      BY <1>1, <2>5, OwedInAllFalls
  <2>0. MaxErr \in Nat
      BY NumberAssumption
  <2>7. err2 + OwedInAll(requests', calls', a) <= MaxErr + Margin
    <3> HIDE DEF a, err, err2
    <3> QED
      BY <2>0, <2>1, <2>2, <2>3, <2>4, <2>6
  <2> QED
      BY <2>1, <2>7
<1> QED
    BY <1>2, <1>3 DEF ErrBounded, Owing

\* What a move of its goroutine means for what a request owes.
LEMMA OwedNothing ==
    ASSUME NEW q, NEW call, NEW address,
           q.ctx = "live" \/ q.stage \notin Attempting, ~ OwesOne(q, call)
    PROVE  Owed(q, call, address) = 0
BY DEF Owed

LEMMA OwedOn ==
    ASSUME NEW q, NEW call, NEW p, NEW call2, NEW address,
           p.ctx = q.ctx, q.stage \in Attempting, p.stage \in Attempting,
           TriesLeft(p) <= TriesLeft(q),
           OwesOne(p, call2) => OwesOne(q, call) /\ call.address = call2.address
    PROVE  Owed(p, call2, address) <= Owed(q, call, address)
<1>1. CASE q.ctx # "live"
    BY <1>1 DEF Owed
<1>2. CASE q.ctx = "live"
    BY <1>2 DEF Owed
<1> QED
    BY <1>1, <1>2

\* A move of one goroutine that counts no error.
LEMMA MoveKeeps ==
    ASSUME FiniteHandlers, EInv, HInv', NEW r \in Call, NEW p, Becomes(r, p),
           p.retries < MostTries, p.stage = "idle" => p.ctx = "live", ErrsKept,
           \A d \in Call : d # r => calls'[d] = calls[d],
           \A address : \/ MayFail(address)
                        \/ Owed(p, calls'[r], address) <= Owed(requests[r], calls[r], address)
    PROVE  EInv'
<1>1. requests'[r] = p /\ \A d \in Call : d # r => requests'[d] = requests[d]
    BY DEF EInv, HInv, Becomes
<1>2. Lawful'
    BY <1>1 DEF EInv, Lawful
<1>3. ErrBounded'
    BY <1>1, <1>2, BoundKept
<1> QED
    BY <1>2, <1>3 DEF EInv

LEMMA SettleKeeps ==
    ASSUME FiniteHandlers, EInv, HInv', NEW r \in Call, NEW p, Becomes(r, p),
           p.retries < MostTries, p.stage = "idle" => p.ctx = "live", FinishRequest(r),
           \A address : /\ Owed(p, calls'[r], address) <= Owed(requests[r], calls[r], address)
                        /\ calls[r].failed /\ calls[r].address = address
                             => Owed(p, calls'[r], address) + 1
                                    <= Owed(requests[r], calls[r], address)
    PROVE  EInv'
<1>1. requests'[r] = p /\ \A d \in Call : d # r => requests'[d] = requests[d]
    BY DEF EInv, HInv, Becomes
<1>2. Lawful'
    BY <1>1 DEF EInv, Lawful
<1>3. \A d \in Call : d # r => calls'[d] = calls[d]
    BY Settles DEF EInv, HInv
<1>4. ErrBounded'
    BY <1>1, <1>2, <1>3, BoundSettled
<1> QED
    BY <1>2, <1>4 DEF EInv

\* The same where the pool is left alone, and the request comes to owe nothing.
LEMMA QuitKeeps ==
    ASSUME FiniteHandlers, EInv, HInv', NEW r \in Call, NEW p, Becomes(r, p), PoolUnchanged,
           p.retries < MostTries, p.stage = "idle" => p.ctx = "live",
           p.ctx = "live" \/ p.stage \notin Attempting, ~ OwesOne(p, calls[r])
    PROVE  EInv'
<1>1. ErrsKept
    BY PoolKeepsErrs DEF EInv, HInv, IInv
<1>2. UNCHANGED calls
    BY DEF PoolUnchanged, vars
<1>3. \A address : Owed(p, calls'[r], address) <= Owed(requests[r], calls[r], address)
  <2> TAKE address
  <2>1. Owed(requests[r], calls[r], address) \in Nat
      BY SoundRequests, OwedType DEF EInv
  <2>2. Owed(p, calls[r], address) = 0
      BY OwedNothing
  <2> QED
      BY <1>2, <2>1, <2>2
<1> QED
    BY <1>1, <1>2, <1>3, MoveKeeps

\* ... and where it goes on with the attempts it has.
LEMMA GoKeeps ==
    ASSUME FiniteHandlers, EInv, HInv', NEW r \in Call, NEW p, Becomes(r, p), ErrsKept,
           \A d \in Call : d # r => calls'[d] = calls[d],
           p.retries < MostTries, p.ctx = requests[r].ctx,
           requests[r].stage \in Attempting, p.stage \in Attempting,
           TriesLeft(p) <= TriesLeft(requests[r]),
           p.stage \notin {"closing", "failing"}
    PROVE  EInv'
<1>1. ~ OwesOne(p, calls'[r]) /\ p.stage # "idle"
    BY DEF OwesOne, Attempting
<1>2. \A address : Owed(p, calls'[r], address) <= Owed(requests[r], calls[r], address)
    BY <1>1, OwedOn
<1> QED
    BY <1>1, <1>2, MoveKeeps

LEMMA MovedFields ==
    ASSUME NEW q \in Request, NEW stage, NEW status
    PROVE  /\ LET p == [q EXCEPT !.stage = stage]
              IN  /\ p.stage = stage /\ p.ctx = q.ctx /\ p.retries = q.retries
                  /\ p.response = q.response /\ TriesLeft(p) = TriesLeft(q)
           /\ LET p == [q EXCEPT !.stage = stage, !.status = status]
              IN  /\ p.stage = stage /\ p.ctx = q.ctx /\ p.retries = q.retries
                  /\ p.response = q.response
<1>1. LET p == [q EXCEPT !.stage = stage]
      IN  /\ p.stage = stage /\ p.ctx = q.ctx /\ p.retries = q.retries
          /\ p.response = q.response /\ p.safe = q.safe /\ p.attempt = q.attempt
    BY DEF Request
<1>2. LET p == [q EXCEPT !.stage = stage, !.status = status]
      IN  /\ p.stage = stage /\ p.ctx = q.ctx /\ p.retries = q.retries
          /\ p.response = q.response
    BY DEF Request
<1> QED
    BY <1>1, <1>2 DEF TriesLeft, EffectiveRetries

LEMMA TriesLeftType ==
    ASSUME FiniteHandlers, NEW q, Sound(q)
    PROVE  /\ TriesLeft(q) \in Int /\ q.retries \in Nat /\ q.retries < MostTries
           /\ q.attempt \in Nat /\ q.safe \in BOOLEAN /\ MostTries \in Nat /\ 0 < MostTries
<1>1. q.retries \in Nat /\ q.attempt \in Nat /\ q.safe \in BOOLEAN
    BY DEF Sound, Request
<1>2. MostTries \in Nat /\ 0 < MostTries
    BY MostTriesBound
<1> QED
    BY <1>1, <1>2 DEF TriesLeft, EffectiveRetries, Sound

LEMMA AdmissionBounded ==
    ASSUME FiniteHandlers, EInv, HInv', NEW r \in Call
    PROVE  /\ \A body \in Bodies : ReadBody(r, body) => EInv'
           /\ \A answer \in Limits : Limit(r, answer) => EInv'
           /\ ThrottleOver(r) => EInv'
           /\ Decide(r) => EInv'
<1> DEFINE q == requests[r]
<1>0. q \in Request /\ Sound(q) /\ q.retries < MostTries /\ q.retries \in Nat
        /\ TriesLeft(q) \in Int
    BY SoundRequests, TriesLeftType DEF EInv, Sound
<1>1. PoolUnchanged => ErrsKept /\ UNCHANGED calls
    BY PoolKeepsErrs DEF EInv, HInv, IInv, PoolUnchanged, vars
<1>2. ASSUME NEW status, Reply(r, status), PoolUnchanged PROVE EInv'
  <2> DEFINE p == [q EXCEPT !.stage = "done", !.status = status]
  <2>1. p.stage = "done" /\ p.retries = q.retries
      BY <1>0, MovedFields
  <2>2. Becomes(r, p)
      BY <1>2 DEF Reply
  <2> HIDE DEF p, q
  <2>3. p.stage \notin Attempting /\ ~ OwesOne(p, calls[r])
      BY <2>1 DEF Attempting, OwesOne
  <2> QED
      BY <1>0, <1>2, <2>1, <2>2, <2>3, QuitKeeps
<1>3. ASSUME NEW stage \in {"limiting", "throttled"}, q.stage \in Attempting,
             Becomes(r, [q EXCEPT !.stage = stage]), PoolUnchanged
      PROVE  EInv'
  <2> DEFINE p == [q EXCEPT !.stage = stage]
  <2>1. p.stage = stage /\ p.retries = q.retries /\ p.ctx = q.ctx /\ TriesLeft(p) = TriesLeft(q)
      BY <1>0, MovedFields
  <2>2. Becomes(r, p)
      BY <1>3
  <2> HIDE DEF p, q
  <2>3. p.stage \in Attempting /\ p.stage \notin {"closing", "failing"}
      BY <2>1 DEF Attempting
  <2>4. TriesLeft(p) <= TriesLeft(q) /\ p.retries < MostTries
      BY <1>0, <2>1
  <2> QED
      BY <1>1, <1>3, <2>1, <2>2, <2>3, <2>4, GoKeeps DEF q
<1>4. ASSUME q.stage \in Attempting, Becomes(r, Routed(q)), PoolUnchanged PROVE EInv'
  <2> DEFINE p == Routed(q)
  <2>1. /\ p.stage = "choosing" /\ p.retries = EffectiveRetries(q) /\ p.ctx = q.ctx
        /\ p.safe = q.safe /\ p.attempt = q.attempt
      BY <1>0 DEF Routed, Request
  <2>2. EffectiveRetries(p) = EffectiveRetries(q) /\ EffectiveRetries(q) <= q.retries
            /\ EffectiveRetries(q) \in Nat
      BY <1>0, <2>1 DEF EffectiveRetries
  <2>3. TriesLeft(p) = TriesLeft(q)
      BY <2>1, <2>2 DEF TriesLeft
  <2>4. p.retries < MostTries
      BY <1>0, <2>1, <2>2, MostTriesBound
  <2> HIDE DEF p, q
  <2>5. p.stage \in Attempting /\ p.stage \notin {"closing", "failing"}
            /\ TriesLeft(p) <= TriesLeft(q)
      BY <1>0, <2>1, <2>3 DEF Attempting
  <2>6. Becomes(r, p)
      BY <1>4 DEF p
  <2> QED
      BY <1>0, <1>1, <1>4, <2>1, <2>4, <2>5, <2>6, GoKeeps DEF q
<1>5. ASSUME NEW body \in Bodies, ReadBody(r, body) PROVE EInv'
  <2>1. q.stage \in Attempting /\ PoolUnchanged /\ body \in {"ok", "too large", "unreadable"}
      BY <1>5, HandlerAssumption DEF ReadBody, At, Attempting
  <2>2. \/ Reply(r, "413") \/ Reply(r, "400") \/ Becomes(r, [q EXCEPT !.stage = "limiting"])
      BY <1>5, <2>1 DEF ReadBody
  <2> QED
      BY <1>2, <1>3, <2>1, <2>2
<1>6. ASSUME NEW answer \in Limits, Limit(r, answer) PROVE EInv'
  <2>1. q.stage \in Attempting /\ PoolUnchanged
            /\ answer \in {"allow", "throttle", "block", "error"}
      BY <1>6, HandlerAssumption DEF Limit, At, Attempting
  <2>2. \/ Reply(r, "503") \/ Reply(r, "429")
        \/ Becomes(r, [q EXCEPT !.stage = "throttled"]) \/ Becomes(r, Routed(q))
      BY <1>6, <2>1 DEF Limit
  <2> QED
      BY <1>2, <1>3, <1>4, <2>1, <2>2
<1>7. ASSUME ThrottleOver(r) PROVE EInv'
  <2>1. q.stage \in Attempting /\ PoolUnchanged
      BY <1>7 DEF ThrottleOver, At, Attempting
  <2>2. Reply(r, "408") \/ Becomes(r, Routed(q))
      BY <1>7 DEF ThrottleOver
  <2> QED
      BY <1>2, <1>4, <2>1, <2>2
<1>8. ASSUME Decide(r) PROVE EInv'
  <2>1. q.stage = "deciding" /\ PoolUnchanged
      BY <1>8 DEF Decide, At
  <2>2. CASE Reply(r, ErrorStatus(q))
      BY <1>2, <2>1, <2>2
  <2>3. CASE Becomes(r, [q EXCEPT !.stage = "copying"])
    <3> DEFINE p == [q EXCEPT !.stage = "copying"]
    <3>1. p.stage = "copying" /\ p.retries = q.retries /\ p.response = q.response
        BY <1>0, MovedFields
    <3>2. Becomes(r, p)
        BY <2>3
    <3> HIDE DEF p, q
    <3>3. OwesOne(p, calls[r]) = OwesOne(q, calls[r])
        BY <2>1, <3>1 DEF OwesOne
    <3>4. p.stage \notin Attempting /\ q.stage \notin Attempting
        BY <2>1, <3>1 DEF Attempting
    <3>5. \A address : Owed(p, calls'[r], address) = Owed(q, calls[r], address)
                        /\ Owed(q, calls[r], address) \in Nat
        BY <1>0, <1>1, <2>1, <3>3, <3>4, OwedType DEF Owed
    <3>6. \A address : Owed(p, calls'[r], address) <= Owed(requests[r], calls[r], address)
        BY <3>5 DEF q
    <3> QED
        BY <1>0, <1>1, <2>1, <3>1, <3>2, <3>6, MoveKeeps
  <2> QED
      BY <1>8, <2>2, <2>3 DEF Decide
<1> QED
    BY <1>5, <1>6, <1>7, <1>8

LEMMA ClientBounded ==
    ASSUME FiniteHandlers, EInv, HInv', NEW r \in Call, ClientStep(r)
    PROVE  EInv'
<1> DEFINE q == requests[r]
<1>0. q \in Request /\ q.retries < MostTries /\ (q.stage = "idle" => q.ctx = "live")
    BY SoundRequests DEF EInv, Sound, Lawful
<1>1. ASSUME NEW safe \in BOOLEAN, NEW allowed \in AllowedSets, NEW retries \in Retries,
             Arrive(r, safe, allowed, retries)
      PROVE  EInv'
  <2> DEFINE p == [q EXCEPT !.stage = "reading", !.safe = safe,
                            !.allowed = allowed, !.retries = retries]
  <2>1. p.stage = "reading" /\ p.retries = retries /\ p.ctx = q.ctx
      BY <1>0 DEF Request
  <2>2. q.ctx = "live" /\ Becomes(r, p) /\ PoolUnchanged
      BY <1>0, <1>1 DEF Arrive, At
  <2>3. retries < MostTries
      BY MostTriesBound
  <2> HIDE DEF p, q
  <2>4. ~ OwesOne(p, calls[r])
      BY <2>1 DEF OwesOne
  <2> QED
      BY <2>1, <2>2, <2>3, <2>4, QuitKeeps
<1>2. ASSUME NEW ending \in Endings, EndContext(r, ending) PROVE EInv'
  <2> DEFINE p == [q EXCEPT !.ctx = ending]
  <2>1. p.stage = q.stage /\ p.retries = q.retries
      BY <1>0 DEF Request
  <2>2. q.stage # "idle" /\ Becomes(r, p) /\ PoolUnchanged /\ \A a \in Address : MayFail(a)
      BY <1>2 DEF EndContext
  <2>3. \A a : MayFail(a)
    <3> TAKE a
    <3>1. CASE a \in Address
        BY <2>2, <3>1
    <3>2. CASE a \notin Address
      <4>1. \A i \in DOMAIN pool : pool[i] \in Entry
          BY EntryErrs DEF EInv, HInv, IInv, TypeOK
      <4>2. \A i \in DOMAIN pool : pool[i].address \in Address
          BY <4>1 DEF Entry
      <4> QED
          BY <3>2, <4>2 DEF MayFail
    <3> QED
        BY <3>1, <3>2
  <2>4. ErrsKept /\ UNCHANGED calls
      BY <2>2, PoolKeepsErrs DEF EInv, HInv, IInv, PoolUnchanged, vars
  <2> HIDE DEF p
  <2> QED
      BY <1>0, <2>1, <2>2, <2>3, <2>4, MoveKeeps
<1>3. ASSUME Leave(r) PROVE EInv'
  <2>1. Becomes(r, FreshRequest) /\ PoolUnchanged
      BY <1>3 DEF Leave
  <2>2. FreshRequest.retries = 0 /\ FreshRequest.ctx = "live" /\ FreshRequest.stage = "idle"
      BY DEF FreshRequest
  <2>3. 0 < MostTries /\ ~ OwesOne(FreshRequest, calls[r])
      BY <2>2, MostTriesBound DEF OwesOne
  <2> QED
      BY <2>1, <2>2, <2>3, QuitKeeps
<1> QED
    BY <1>1, <1>2, <1>3 DEF ClientStep

LEMMA PicksBounded ==
    ASSUME FiniteHandlers, EInv, HInv', NEW r \in Call
    PROVE  /\ \A latency : PickBackend(r, latency) => EInv'
           /\ NoBackend(r) => EInv'
           /\ Send(r) => EInv'
<1> DEFINE q == requests[r]
<1>0. q \in Request /\ q.retries < MostTries /\ TriesLeft(q) \in Int
    BY SoundRequests, TriesLeftType DEF EInv, Sound
<1>1. TypeOK /\ IInv
    BY DEF EInv, HInv, IInv
<1>2. ASSUME NEW latency, PickBackend(r, latency) PROVE EInv'
  <2> DEFINE p == [q EXCEPT !.stage = "picked", !.backend = calls'[r].address]
  <2>1. /\ p.stage = "picked" /\ p.retries = q.retries /\ p.ctx = q.ctx
        /\ p.safe = q.safe /\ p.attempt = q.attempt
      BY <1>0 DEF Request
  <2>2. q.stage = "choosing" /\ Becomes(r, p) /\ NextFor(r, q.allowed, latency)
      BY <1>2 DEF PickBackend, At
  <2>3. ErrsKept /\ \A d \in Call : d # r => calls'[d] = calls[d]
      BY <1>1, <2>2, PoolKeepsErrs, Selects
  <2> HIDE DEF p, q
  <2>4. TriesLeft(p) = TriesLeft(q)
      BY <2>1 DEF TriesLeft, EffectiveRetries
  <2>5. TriesLeft(p) <= TriesLeft(q) /\ p.retries < MostTries
      BY <1>0, <2>1, <2>4
  <2>6. p.stage \in Attempting /\ p.stage \notin {"closing", "failing"} /\ q.stage \in Attempting
      BY <2>1, <2>2 DEF Attempting
  <2> QED
      BY <2>1, <2>2, <2>3, <2>5, <2>6, GoKeeps DEF q
<1>3. ASSUME NoBackend(r) PROVE EInv'
  <2> DEFINE p == [q EXCEPT !.stage = "deciding", !.backend = NoAddress]
  <2>1. p.stage = "deciding" /\ p.retries = q.retries
      BY <1>0 DEF Request
  <2>2. q.stage = "choosing" /\ Becomes(r, p) /\ PoolUnchanged
      BY <1>3 DEF NoBackend, At
  <2>5. Holds(q, calls[r])
      BY DEF EInv, HInv
  <2>3. calls[r].phase = "idle"
      BY <2>2, <2>5 DEF Holds, Idle
  <2> HIDE DEF p, q
  <2>4. ~ OwesOne(p, calls[r]) /\ p.stage \notin Attempting
      BY <2>1, <2>3 DEF OwesOne, Attempting
  <2> QED
      BY <1>0, <2>1, <2>2, <2>4, QuitKeeps
<1>4. ASSUME Send(r) PROVE EInv'
  <2> DEFINE p == [q EXCEPT !.stage = "round trip", !.tries = @ + 1]
  <2>1. /\ p.stage = "round trip" /\ p.retries = q.retries /\ p.ctx = q.ctx
        /\ p.safe = q.safe /\ p.attempt = q.attempt
      BY <1>0 DEF Request
  <2>2. q.stage = "picked" /\ Becomes(r, p) /\ StartRequest(r)
      BY <1>4 DEF Send, At
  <2>3. ErrsKept /\ \A d \in Call : d # r => calls'[d] = calls[d]
      BY <1>1, <2>2, PoolKeepsErrs, Starts
  <2> HIDE DEF p, q
  <2>4. TriesLeft(p) = TriesLeft(q)
      BY <2>1 DEF TriesLeft, EffectiveRetries
  <2>5. TriesLeft(p) <= TriesLeft(q)
      BY <1>0, <2>4
  <2>7. p.retries < MostTries
      BY <1>0, <2>1
  <2>6. p.stage \in Attempting /\ p.stage \notin {"closing", "failing"} /\ q.stage \in Attempting
      BY <2>1, <2>2 DEF Attempting
  <2> QED
      BY <2>1, <2>2, <2>3, <2>5, <2>6, <2>7, GoKeeps DEF q
<1> QED
    BY <1>2, <1>3, <1>4

\* the stages that the loop's test follows
Attempted == {"round trip", "closing", "failing"}

\* Behind an attempt nothing is owed for it any more.
LEMMA AttemptPaid ==
    ASSUME FiniteHandlers, NEW q, NEW call, NEW address,
           Sound(q), q.stage \in Attempted
    PROVE  /\ AfterAttempt(q).retries < MostTries /\ AfterAttempt(q).stage # "idle"
           /\ Owed(AfterAttempt(q), Idle, address) <= Owed(q, call, address)
           /\ OwesOne(q, call) /\ call.address = address
                => Owed(AfterAttempt(q), Idle, address) + 1 <= Owed(q, call, address)
<1> DEFINE p == AfterAttempt(q)
<1>0. q.attempt \in Nat /\ q.retries \in Nat /\ q.safe \in BOOLEAN
    BY TriesLeftType
<1>4. q.retries < MostTries
    BY TriesLeftType
<1>5. q \in Request
    BY DEF Sound
<1>1. /\ Owed(q, call, address) \in Nat
      /\ q.ctx # "live" => 1 <= Owed(q, call, address)
      /\ q.ctx # "live" => Owed(q, call, address) = TriesLeft(q)
      /\ OwesOne(q, call) /\ call.address = address => 1 <= Owed(q, call, address)
  <2>1. q.stage \in Attempting
      BY DEF Attempted, Attempting
  <2>2. /\ Owed(q, call, address) \in Nat
        /\ q.ctx # "live" => 1 <= Owed(q, call, address)
      BY <2>1, OwedType
  <2>3. q.ctx # "live" => Owed(q, call, address) = TriesLeft(q)
      BY <2>1 DEF Owed
  <2>4. q.ctx = "live" /\ OwesOne(q, call) /\ call.address = address
            => Owed(q, call, address) = 1
      BY DEF Owed
  <2>5. OwesOne(q, call) /\ call.address = address => 1 <= Owed(q, call, address)
      BY <2>2, <2>4
  <2> QED
      BY <2>2, <2>3, <2>5
<1>2. CASE q.attempt < q.retries
  <2>1. p = [q EXCEPT !.stage = "choosing", !.attempt = @ + 1]
      BY <1>2 DEF AfterAttempt
  <2> HIDE DEF p
  <2>2. /\ p.stage = "choosing" /\ p.attempt = q.attempt + 1
        /\ p.retries = q.retries /\ p.safe = q.safe /\ p.ctx = q.ctx
      BY <1>5, <2>1 DEF Request
  <2>7. EffectiveRetries(p) = EffectiveRetries(q) /\ EffectiveRetries(q) \in Nat
      BY <1>0, <2>2 DEF EffectiveRetries
  <2>3. TriesLeft(p) + 1 = TriesLeft(q) /\ TriesLeft(p) \in Int
      BY <1>0, <2>2, <2>7 DEF TriesLeft
  <2>4. ~ OwesOne(p, Idle) /\ p.stage \in Attempting
      BY <2>2 DEF OwesOne, Attempting
  <2>5. q.ctx # "live" => Owed(p, Idle, address) + 1 <= Owed(q, call, address)
    <3>1. q.ctx # "live" => Owed(p, Idle, address) = TriesLeft(p)
        BY <2>2, <2>4 DEF Owed
    <3> QED
        BY <1>1, <2>3, <3>1
  <2>6. q.ctx = "live" => Owed(p, Idle, address) = 0
      BY <2>2, <2>4 DEF Owed
  <2>8. /\ p.retries < MostTries /\ p.stage # "idle"
        /\ Owed(p, Idle, address) \in Int
      BY <1>4, <2>2, <2>3, <2>4 DEF Owed
  <2>9. /\ Owed(p, Idle, address) <= Owed(q, call, address)
        /\ OwesOne(q, call) /\ call.address = address
             => Owed(p, Idle, address) + 1 <= Owed(q, call, address)
    <3>1. CASE q.ctx # "live"
        BY <1>1, <2>5, <2>8, <3>1
    <3>2. CASE q.ctx = "live"
        BY <1>1, <2>6, <3>2
    <3> QED
        BY <3>1, <3>2
  <2> QED
      BY <2>8, <2>9 DEF p
<1>3. CASE ~ q.attempt < q.retries
  <2>1. p = [q EXCEPT !.stage = "deciding"]
      BY <1>3 DEF AfterAttempt
  <2> HIDE DEF p
  <2>2. p.stage = "deciding" /\ p.retries = q.retries
      BY <1>5, <2>1 DEF Request
  <2>3. ~ OwesOne(p, Idle) /\ p.stage \notin Attempting
      BY <2>2 DEF OwesOne, Attempting, Idle
  <2>4. Owed(p, Idle, address) = 0
      BY <2>3, OwedNothing
  <2>5. p.retries < MostTries /\ p.stage # "idle"
      BY <1>4, <2>2
  <2>6. /\ Owed(p, Idle, address) <= Owed(q, call, address)
        /\ OwesOne(q, call) /\ call.address = address
             => Owed(p, Idle, address) + 1 <= Owed(q, call, address)
      BY <1>1, <2>4
  <2> QED
      BY <2>5, <2>6 DEF p
<1> QED
    BY <1>2, <1>3

\* What the finish closure makes of the call.
LEMMA FinishCalls ==
    ASSUME IInv, NEW r \in Call, NEW failed \in BOOLEAN
    PROVE  /\ FinishStats(r, failed) => /\ calls'[r].phase = "settling"
                                        /\ calls'[r].failed = failed
                                        /\ calls'[r].address = calls[r].address
           /\ FinishNothing(r) => calls'[r] = Idle
<1>1. calls \in [Call -> CallRecord] /\ calls[r] \in CallRecord
    BY DEF IInv, TypeOK
<1>2. FinishStats(r, failed)
        => calls' = [calls EXCEPT ![r] = [calls[r] EXCEPT !.phase = "settling", !.failed = failed]]
    BY <1>1 DEF FinishStats
<1>3. FinishNothing(r) => calls' = [calls EXCEPT ![r] = Idle]
    BY DEF FinishNothing
<1> QED
    BY <1>1, <1>2, <1>3 DEF CallRecord

LEMMA FailsBounded ==
    ASSUME FiniteHandlers, EInv, HInv', NEW r \in Call, RoundTripFails(r)
    PROVE  EInv'
<1> DEFINE o == requests[r]
           q == [o EXCEPT !.response = "none", !.err = TRUE]
           p == [q EXCEPT !.stage = "failing"]
<1>1. TypeOK /\ IInv /\ Sound(o) /\ o \in Request /\ Counts(o) /\ Holds(o, calls[r])
    BY SoundRequests DEF EInv, HInv, IInv, Sound
<1>2. /\ o.stage \in Attempted
      /\ o.stage \in Attempting
      /\ ~ OwesOne(o, calls[r])
      /\ calls[r].address = o.backend
      /\ Counts(q)
    BY <1>1 DEF RoundTripFails, At, Attempted, Attempting, OwesOne, Holds, Counts, Request,
                EffectiveRetries, Forwarding, Admission
<1>3. /\ q \in Request /\ q.stage = o.stage /\ q.ctx = o.ctx /\ q.retries = o.retries
      /\ q.backend = o.backend /\ q.safe = o.safe /\ q.attempt = o.attempt
    BY <1>1 DEF Request
<1>4. q.ctx # "live" \/ MayFail(q.backend)
    BY DEF RoundTripFails
<1>5. \/ FinishStats(r, TRUE) /\ Becomes(r, p)
      \/ FinishNothing(r) /\ Becomes(r, AfterAttempt(q))
    BY DEF RoundTripFails, RunFinish
<1>6. /\ p.stage = "failing" /\ p.ctx = q.ctx /\ p.retries = q.retries
      /\ TriesLeft(p) = TriesLeft(q)
  <2> HIDE DEF q
  <2> QED
      BY <1>3, MovedFields
<1> HIDE DEF p, q, o
<1>7. TriesLeft(q) = TriesLeft(o)
    BY <1>3 DEF TriesLeft, EffectiveRetries
<1>8. Sound(q)
    BY <1>1, <1>2, <1>3 DEF Sound
<1>9. \A address : Owed(q, calls[r], address) = Owed(o, calls[r], address)
                   /\ Owed(o, calls[r], address) \in Nat
  <2>1. ~ OwesOne(q, calls[r])
      BY <1>2, <1>3 DEF OwesOne, Attempted, Attempting
  <2>2. \A address : Owed(o, calls[r], address) \in Nat
      BY <1>1, OwedType
  <2> QED
      BY <1>2, <1>3, <1>7, <2>1, <2>2 DEF Owed
<1>10. ErrsKept /\ \A d \in Call : d # r => calls'[d] = calls[d]
  <2>1. ErrsKept
      BY <1>1, <1>5, PoolKeepsErrs
  <2>2. calls \in [Call -> CallRecord]
      BY <1>1 DEF TypeOK
  <2>3. \A d \in Call : d # r => calls'[d] = calls[d]
      BY <1>5, <2>2 DEF FinishStats, FinishNothing
  <2> QED
      BY <2>1, <2>3
<1>11. CASE FinishStats(r, TRUE) /\ Becomes(r, p)
  <2>1. calls'[r].address = o.backend
      BY <1>1, <1>2, <1>11, FinishCalls
  <2>2. ASSUME NEW address
        PROVE  MayFail(address) \/ Owed(p, calls'[r], address) <= Owed(o, calls[r], address)
    <3>1. CASE q.ctx # "live"
      <4>1. p.stage \in Attempting
          BY <1>6 DEF Attempting
      <4>2. Owed(p, calls'[r], address) = TriesLeft(o) /\ Owed(o, calls[r], address) = TriesLeft(o)
          BY <1>2, <1>3, <1>6, <1>7, <3>1, <4>1 DEF Owed
      <4> QED
          BY <1>9, <4>2
    <3>2. CASE MayFail(q.backend) /\ q.ctx = "live"
      <4>1. CASE address = o.backend
          BY <1>3, <3>2, <4>1
      <4>2. CASE address # o.backend
        <5>1. Owed(p, calls'[r], address) = 0
            BY <1>6, <2>1, <3>2, <4>2 DEF Owed
        <5> QED
            BY <1>9, <5>1
      <4> QED
          BY <4>1, <4>2
    <3> QED
        BY <1>4, <3>1, <3>2
  <2>3. p.retries < MostTries /\ p.stage # "idle"
      BY <1>3, <1>6, <1>8 DEF Sound
  <2> QED
      BY <1>10, <1>11, <2>2, <2>3, MoveKeeps DEF o
<1>12. CASE FinishNothing(r) /\ Becomes(r, AfterAttempt(q))
  <2>1. calls'[r] = Idle
      BY <1>1, <1>12, FinishCalls
  <2>2. q.stage \in Attempted
      BY <1>2, <1>3
  <2>3. AfterAttempt(q).retries < MostTries /\ AfterAttempt(q).stage # "idle"
      BY <1>8, <2>2, AttemptPaid
  <2>4. \A address : Owed(AfterAttempt(q), calls'[r], address) <= Owed(o, calls[r], address)
      BY <1>8, <1>9, <2>1, <2>2, AttemptPaid
  <2> QED
      BY <1>10, <1>12, <2>3, <2>4, MoveKeeps DEF o
<1> QED
    BY <1>5, <1>11, <1>12

LEMMA AnswersBounded ==
    ASSUME FiniteHandlers, EInv, HInv', NEW r \in Call,
           NEW response \in Responses, NEW size \in Sizes, RoundTripAnswers(r, response, size)
    PROVE  EInv'
<1> DEFINE o == requests[r]
           q == [o EXCEPT !.response = response, !.size = size, !.err = FALSE]
           stage == IF Retried(response) /\ q.attempt < q.retries THEN "closing" ELSE "deciding"
           p == [q EXCEPT !.stage = stage]
<1>1. TypeOK /\ IInv /\ Sound(o) /\ o \in Request /\ Holds(o, calls[r])
    BY SoundRequests DEF EInv, HInv, IInv, Sound
<1>2. calls[r].address = o.backend /\ o.ctx = "live"
    BY <1>1 DEF RoundTripAnswers, At, Holds, Request
<1>3. /\ q \in Request /\ q.ctx = o.ctx /\ q.retries = o.retries
      /\ q.response = response /\ q.backend = o.backend
    BY <1>1 DEF Request
<1>4. response # "ok" => MayFail(o.backend)
    BY <1>3 DEF RoundTripAnswers
<1>5. Becomes(r, p) /\ PoolUnchanged
    BY DEF RoundTripAnswers, RetryStage
<1>6. /\ stage = "closing" => response # "ok"
      /\ stage = "closing" \/ stage = "deciding"
    BY DEF Retried
<1> HIDE DEF q, stage
<1>7. p.stage = stage /\ p.ctx = "live" /\ p.retries = o.retries /\ p.response = response
    BY <1>2, <1>3, MovedFields
<1> HIDE DEF o, p
<1>8. ErrsKept /\ UNCHANGED calls
    BY <1>1, <1>5, PoolKeepsErrs DEF PoolUnchanged, vars
<1>9. ASSUME NEW address
      PROVE  MayFail(address) \/ Owed(p, calls'[r], address) <= Owed(o, calls[r], address)
  <2>1. Owed(o, calls[r], address) \in Nat
      BY <1>1, OwedType
  <2>2. CASE response # "ok" /\ address = o.backend
      BY <1>4, <2>2
  <2>3. CASE response = "ok" \/ address # o.backend
    <3>1. Owed(p, calls'[r], address) = 0
        BY <1>2, <1>6, <1>7, <1>8, <2>3 DEF Owed, OwesOne
    <3> QED
        BY <2>1, <3>1
  <2> QED
      BY <2>2, <2>3
<1>10. p.retries < MostTries /\ p.stage # "idle"
    BY <1>1, <1>6, <1>7 DEF Sound
<1> QED
    BY <1>5, <1>8, <1>9, <1>10, MoveKeeps DEF o

LEMMA RetryBounded ==
    ASSUME FiniteHandlers, EInv, HInv', NEW r \in Call
    PROVE  /\ CloseBody(r) => EInv'
           /\ SettleAttempt(r) => EInv'
<1> DEFINE q == requests[r]
           p == [q EXCEPT !.stage = "failing"]
<1>1. TypeOK /\ IInv /\ Sound(q) /\ q \in Request
    BY SoundRequests DEF EInv, HInv, IInv, Sound
<1>2. ASSUME CloseBody(r) PROVE EInv'
  <2>1. q.stage = "closing"
      BY <1>2 DEF CloseBody, At
  <2>2. \/ FinishStats(r, TRUE) /\ Becomes(r, p)
        \/ FinishNothing(r) /\ Becomes(r, AfterAttempt(q))
      BY <1>2 DEF CloseBody, RunFinish
  <2>3. /\ p.stage = "failing" /\ p.ctx = q.ctx /\ p.retries = q.retries
        /\ TriesLeft(p) = TriesLeft(q)
      BY <1>1, MovedFields
  <2> HIDE DEF p, q
  <2>4. ErrsKept /\ \A d \in Call : d # r => calls'[d] = calls[d]
    <3>1. ErrsKept
        BY <1>1, <2>2, PoolKeepsErrs
    <3>2. calls \in [Call -> CallRecord]
        BY <1>1 DEF TypeOK
    <3>3. \A d \in Call : d # r => calls'[d] = calls[d]
        BY <2>2, <3>2 DEF FinishStats, FinishNothing
    <3> QED
        BY <3>1, <3>3
  <2>5. CASE FinishStats(r, TRUE) /\ Becomes(r, p)
    <3>1. calls'[r].address = calls[r].address
        BY <1>1, <2>5, FinishCalls
    <3>2. p.stage \in Attempting /\ q.stage \in Attempting /\ OwesOne(q, calls[r])
        BY <2>1, <2>3 DEF Attempting, OwesOne
    <3>3. TriesLeft(p) <= TriesLeft(q) /\ p.retries < MostTries /\ p.stage # "idle"
      <4>1. TriesLeft(q) \in Int /\ q.retries < MostTries
          BY <1>1, TriesLeftType
      <4> QED
          BY <2>3, <4>1
    <3>4. \A address : Owed(p, calls'[r], address) <= Owed(q, calls[r], address)
        BY <2>3, <3>1, <3>2, <3>3, OwedOn
    <3> QED
        BY <2>4, <2>5, <3>3, <3>4, MoveKeeps DEF q
  <2>6. CASE FinishNothing(r) /\ Becomes(r, AfterAttempt(q))
    <3>1. calls'[r] = Idle
        BY <1>1, <2>6, FinishCalls
    <3>2. q.stage \in Attempted
        BY <2>1 DEF Attempted
    <3>3. AfterAttempt(q).retries < MostTries /\ AfterAttempt(q).stage # "idle"
        BY <1>1, <3>2, AttemptPaid
    <3>4. \A address : Owed(AfterAttempt(q), calls'[r], address) <= Owed(q, calls[r], address)
        BY <1>1, <3>1, <3>2, AttemptPaid
    <3> QED
        BY <2>4, <2>6, <3>3, <3>4, MoveKeeps DEF q
  <2> QED
      BY <2>2, <2>5, <2>6
<1>3. ASSUME SettleAttempt(r) PROVE EInv'
  <2>1. q.stage = "failing" /\ FinishRequest(r) /\ Becomes(r, AfterAttempt(q))
      BY <1>3 DEF SettleAttempt, At
  <2> HIDE DEF q
  <2>2. calls'[r] = Idle
      BY <1>1, <2>1, Settles
  <2>3. q.stage \in Attempted /\ OwesOne(q, calls[r])
      BY <2>1 DEF Attempted, OwesOne
  <2>4. AfterAttempt(q).retries < MostTries /\ AfterAttempt(q).stage # "idle"
      BY <1>1, <2>3, AttemptPaid
  <2>5. \A address : /\ Owed(AfterAttempt(q), calls'[r], address) <= Owed(q, calls[r], address)
                     /\ calls[r].address = address
                          => Owed(AfterAttempt(q), calls'[r], address) + 1
                                <= Owed(q, calls[r], address)
      BY <1>1, <2>2, <2>3, AttemptPaid
  <2> QED
      BY <2>1, <2>4, <2>5, SettleKeeps DEF q
<1> QED
    BY <1>2, <1>3

LEMMA CopyBounded ==
    ASSUME FiniteHandlers, EInv, HInv', NEW r \in Call
    PROVE  /\ CopyResponse(r) => EInv'
           /\ SettleResponse(r) => EInv'
<1> DEFINE o == requests[r]
<1>1. TypeOK /\ IInv /\ Sound(o) /\ o \in Request /\ o.retries < MostTries
    BY SoundRequests DEF EInv, HInv, IInv, Sound
<1>2. ASSUME CopyResponse(r) PROVE EInv'
  <2> DEFINE status == IF requests[r].size = "too large" THEN "502" ELSE requests[r].response
             q == [o EXCEPT !.status = status]
             s == [q EXCEPT !.stage = "settling"]
             p == [q EXCEPT !.stage = "done"]
  <2>1. o.stage = "copying"
      BY <1>2 DEF CopyResponse, At
  <2>2. /\ s.stage = "settling" /\ s.retries = o.retries
        /\ p.stage = "done" /\ p.retries = o.retries
        /\ q.response = o.response
      BY <1>1 DEF Request
  <2>3. \/ /\ calls[r].phase = "sent"
           /\ FinishStats(r, o.response # "ok") /\ Becomes(r, s)
        \/ /\ FinishNothing(r) \/ PoolUnchanged
           /\ Becomes(r, p)
    <3>1. \/ /\ calls[r].phase = "sent"
             /\ \/ FinishStats(r, q.response # "ok") /\ Becomes(r, s)
                \/ FinishNothing(r) /\ Becomes(r, p)
          \/ PoolUnchanged /\ Becomes(r, p)
        BY <1>2 DEF CopyResponse, RunFinish, BodyOpen
    <3> HIDE DEF s, p, q, o
    <3> QED
        BY <2>2, <3>1
  <2> HIDE DEF s, p, q, status, o
  <2>4. ErrsKept /\ \A d \in Call : d # r => calls'[d] = calls[d]
    <3>1. ErrsKept
        BY <1>1, <2>3, PoolKeepsErrs
    <3>2. calls \in [Call -> CallRecord]
        BY <1>1 DEF TypeOK
    <3>3. \A d \in Call : d # r => calls'[d] = calls[d]
        BY <2>3, <3>2 DEF FinishStats, FinishNothing, PoolUnchanged, vars
    <3> QED
        BY <3>1, <3>3
  <2>5. \A address : Owed(o, calls[r], address) \in Nat
      BY <1>1, OwedType
  <2>6. CASE /\ calls[r].phase = "sent"
             /\ FinishStats(r, o.response # "ok") /\ Becomes(r, s)
    <3>1. calls'[r].failed = (o.response # "ok") /\ calls'[r].address = calls[r].address
        BY <1>1, <2>6, FinishCalls
    <3>2. s.stage \notin Attempting /\ o.stage \notin Attempting
        BY <2>1, <2>2 DEF Attempting
    <3>3. OwesOne(s, calls'[r]) => OwesOne(o, calls[r])
        BY <2>1, <2>2, <2>6, <3>1 DEF OwesOne
    <3>4. \A address : Owed(s, calls'[r], address) <= Owed(o, calls[r], address)
      <4> TAKE address
      <4>1. CASE OwesOne(s, calls'[r]) /\ calls'[r].address = address
          BY <3>1, <3>2, <3>3, <4>1 DEF Owed
      <4>2. CASE ~ (OwesOne(s, calls'[r]) /\ calls'[r].address = address)
        <5>1. Owed(s, calls'[r], address) = 0
            BY <3>2, <4>2 DEF Owed
        <5> QED
            BY <2>5, <5>1
      <4> QED
          BY <4>1, <4>2
    <3>5. s.retries < MostTries /\ s.stage # "idle"
        BY <1>1, <2>2
    <3> QED
        BY <2>4, <2>6, <3>4, <3>5, MoveKeeps DEF o
  <2>7. CASE Becomes(r, p)
    <3>1. \A address : Owed(p, calls'[r], address) = 0
        BY <2>2 DEF Owed, Attempting, OwesOne
    <3>2. \A address : Owed(p, calls'[r], address) <= Owed(o, calls[r], address)
        BY <2>5, <3>1
    <3>3. p.retries < MostTries /\ p.stage # "idle"
        BY <1>1, <2>2
    <3> QED
        BY <2>4, <2>7, <3>2, <3>3, MoveKeeps DEF o
  <2> QED
      BY <2>3, <2>6, <2>7
<1>3. ASSUME SettleResponse(r) PROVE EInv'
  <2> DEFINE p == [o EXCEPT !.stage = "done"]
  <2>1. o.stage = "settling" /\ FinishRequest(r) /\ Becomes(r, p)
      BY <1>3 DEF SettleResponse, At
  <2>2. p.stage = "done" /\ p.retries = o.retries
      BY <1>1, MovedFields
  <2> HIDE DEF p, o
  <2>3. ASSUME NEW address
        PROVE  /\ Owed(p, calls'[r], address) <= Owed(o, calls[r], address)
               /\ calls[r].failed /\ calls[r].address = address
                    => Owed(p, calls'[r], address) + 1 <= Owed(o, calls[r], address)
    <3>1. Owed(p, calls'[r], address) = 0
        BY <2>2 DEF Owed, Attempting, OwesOne
    <3>2. Owed(o, calls[r], address) \in Nat
        BY <1>1, OwedType
    <3>3. calls[r].failed /\ calls[r].address = address => Owed(o, calls[r], address) = 1
        BY <2>1 DEF Owed, Attempting, OwesOne
    <3> QED
        BY <3>1, <3>2, <3>3
  <2>4. p.retries < MostTries /\ p.stage # "idle"
      BY <1>1, <2>2
  <2> QED
      BY <2>1, <2>3, <2>4, SettleKeeps DEF o
<1> QED
    BY <1>2, <1>3

\* A reload carries error counts over with their addresses, or starts them at zero;
\* operators, health checks and time leave them alone.
LEMMA BackgroundErrs ==
    ASSUME TypeOK, Background
    PROVE  \A i \in DOMAIN pool' :
              \/ pool'[i].consecutiveErr = 0
              \/ \E j \in DOMAIN pool : /\ pool'[i].address = pool[j].address
                                        /\ pool'[i].consecutiveErr = pool[j].consecutiveErr
<1> DEFINE Kept == \A i \in DOMAIN pool' :
              \/ pool'[i].consecutiveErr = 0
              \/ \E j \in DOMAIN pool : /\ pool'[i].address = pool[j].address
                                        /\ pool'[i].consecutiveErr = pool[j].consecutiveErr
<1>0. \A i \in DOMAIN pool : pool[i] \in Entry
    BY EntryErrs DEF TypeOK
<1>1. ASSUME NEW address, NEW action, SetBackendState(address, action) PROVE Kept
  <2>1. pool' = UpdateFirst(address, LAMBDA e : AfterAdmin(e, action))
      BY <1>1 DEF SetBackendState
  <2>2. DOMAIN pool' = DOMAIN pool
      BY <2>1 DEF UpdateFirst
  <2>3. \A i \in DOMAIN pool : pool'[i] = pool[i] \/ pool'[i] = AfterAdmin(pool[i], action)
      BY <2>1 DEF UpdateFirst
  <2>4. ASSUME NEW e \in Entry
        PROVE  /\ AfterAdmin(e, action).address = e.address
               /\ AfterAdmin(e, action).consecutiveErr = e.consecutiveErr
      BY DEF AfterAdmin, Entry
  <2>5. \A i \in DOMAIN pool : /\ pool'[i].address = pool[i].address
                               /\ pool'[i].consecutiveErr = pool[i].consecutiveErr
      BY <1>0, <2>3, <2>4
  <2> QED
      BY <2>2, <2>5
<1>2. ASSUME NEW list, Reconfigure(list) PROVE Kept
  <2>1. \A k \in DOMAIN list : pool'[k] \in Carried(list[k])
      BY <1>2 DEF Reconfigure
  <2>2. DOMAIN pool' = DOMAIN list
      BY <1>2 DEF Reconfigure
  <2>3. ASSUME NEW k \in DOMAIN list
        PROVE  \/ pool'[k].consecutiveErr = 0
               \/ \E j \in DOMAIN pool : /\ pool'[k].address = pool[j].address
                                         /\ pool'[k].consecutiveErr = pool[j].consecutiveErr
    <3>1. pool'[k] = NewEntry(list[k], 0) \/ \E j \in DOMAIN pool : pool'[k] = pool[j]
        BY <2>1 DEF Carried, Clone
    <3>2. NewEntry(list[k], 0).consecutiveErr = 0
        BY DEF NewEntry
    <3> QED
        BY <3>1, <3>2
  <2> QED
      BY <2>2, <2>3
<1>3. ASSUME HealthSnapshot PROVE Kept
    BY <1>3 DEF HealthSnapshot
<1>4. ASSUME NEW ok, HealthProbe(ok) PROVE Kept
  <2>1. pool' = UpdateAll(Head(sweep), LAMBDA e : AfterProbe(e, ok))
      BY <1>4 DEF HealthProbe
  <2>2. DOMAIN pool' = DOMAIN pool
      BY <2>1 DEF UpdateAll
  <2>3. \A i \in DOMAIN pool : pool'[i] = pool[i] \/ pool'[i] = AfterProbe(pool[i], ok)
      BY <2>1 DEF UpdateAll
  <2>4. ASSUME NEW e \in Entry
        PROVE  /\ AfterProbe(e, ok).address = e.address
               /\ AfterProbe(e, ok).consecutiveErr = e.consecutiveErr
      BY DEF AfterProbe, Entry
  <2>5. \A i \in DOMAIN pool : /\ pool'[i].address = pool[i].address
                               /\ pool'[i].consecutiveErr = pool[i].consecutiveErr
      BY <1>0, <2>3, <2>4
  <2> QED
      BY <2>2, <2>5
<1>5. ASSUME Tick PROVE Kept
  <2>2. DOMAIN pool' = DOMAIN pool
      BY <1>5 DEF Tick
  <2>3. \A i \in DOMAIN pool : pool'[i] = pool[i] \/ pool'[i] = [pool[i] EXCEPT !.cooldown = @ - 1]
      BY <1>5 DEF Tick
  <2>4. ASSUME NEW e \in Entry
        PROVE  /\ [e EXCEPT !.cooldown = @ - 1].address = e.address
               /\ [e EXCEPT !.cooldown = @ - 1].consecutiveErr = e.consecutiveErr
      BY DEF Entry
  <2>5. \A i \in DOMAIN pool : /\ pool'[i].address = pool[i].address
                               /\ pool'[i].consecutiveErr = pool[i].consecutiveErr
    <3> TAKE i \in DOMAIN pool
    <3>1. pool[i] \in Entry
        BY <1>0
    <3> QED
        BY <2>3, <2>4, <3>1
  <2> QED
      BY <2>2, <2>5
<1> HIDE DEF Kept
<1> QED
    BY <1>1, <1>2, <1>3, <1>4, <1>5 DEF Background, Kept

LEMMA BackgroundBounded ==
    ASSUME FiniteHandlers, EInv, HInv', Background, UNCHANGED requests
    PROVE  EInv'
<1>1. UNCHANGED calls
    BY DEF Background, SetBackendState, Reconfigure, HealthSnapshot, HealthProbe, Tick
<1>2. Lawful'
    BY DEF EInv, Lawful
<1>3. \A address : /\ OwedInAll(requests', calls', address) = OwedInAll(requests, calls, address)
                   /\ OwedInAll(requests, calls, address) \in Nat
                   /\ OwedInAll(requests, calls, address) <= Margin /\ Margin \in Nat
  <2>1. \A d \in Call : Sound(requests[d])
      BY SoundRequests DEF EInv
  <2> QED
      BY <1>1, <2>1, OwedInAllType
<1>4. ASSUME NEW i \in DOMAIN pool'
      PROVE  pool'[i].consecutiveErr + OwedInAll(requests, calls, pool'[i].address)
                <= MaxErr + Margin
  <2>1. CASE pool'[i].consecutiveErr = 0
    <3>1. MaxErr \in Nat
        BY NumberAssumption
    <3> QED
        BY <1>3, <2>1, <3>1
  <2>2. CASE \E j \in DOMAIN pool : /\ pool'[i].address = pool[j].address
                                    /\ pool'[i].consecutiveErr = pool[j].consecutiveErr
      BY <2>2 DEF EInv, ErrBounded, Owing
  <2>3. TypeOK
      BY DEF EInv, HInv, IInv
  <2> QED
      BY <2>1, <2>2, <2>3, BackgroundErrs
<1>5. ErrBounded'
    BY <1>3, <1>4 DEF ErrBounded, Owing
<1> QED
    BY <1>2, <1>5 DEF EInv

LEMMA BoundedInit ==
    ASSUME FiniteHandlers, HandlerInit
    PROVE  EInv
<1>1. HInv
    BY InitHolds
<1>2. \A r \in Call : requests[r] = FreshRequest
    BY DEF HandlerInit
<1>3. FreshRequest.retries = 0 /\ FreshRequest.ctx = "live" /\ FreshRequest.stage = "idle"
    BY DEF FreshRequest
<1>4. Lawful
    BY <1>2, <1>3, MostTriesBound DEF Lawful
<1>5. ASSUME NEW i \in DOMAIN pool
      PROVE  pool[i].consecutiveErr + Owing(pool[i].address) <= MaxErr + Margin
  <2>1. pool[i].consecutiveErr = 0
      BY DEF HandlerInit, Init, NewEntry
  <2>2. /\ Owing(pool[i].address) \in Nat
        /\ Owing(pool[i].address) <= Margin /\ Margin \in Nat
      BY <1>1, <1>4, SoundRequests, OwedInAllType DEF Owing
  <2>3. MaxErr \in Nat
      BY NumberAssumption
  <2> QED
      BY <2>1, <2>2, <2>3
<1> QED
    BY <1>1, <1>4, <1>5 DEF EInv, ErrBounded

LEMMA BoundedStep ==
    ASSUME FiniteHandlers, EInv, [HandlerNext]_handlerVars
    PROVE  EInv'
<1>1. HInv'
    BY HandlerStepHolds DEF EInv
<1>2. ASSUME NEW r \in Call, Progress(r) PROVE EInv'
  <2>1. ASSUME \/ \E body \in Bodies : ReadBody(r, body)
               \/ \E answer \in Limits : Limit(r, answer)
               \/ ThrottleOver(r)
               \/ Decide(r)
        PROVE  EInv'
      BY <1>1, <2>1, AdmissionBounded
  <2>2. ASSUME \/ \E latency \in [DOMAIN pool -> Latencies] : PickBackend(r, latency)
               \/ NoBackend(r)
               \/ Send(r)
        PROVE  EInv'
      BY <1>1, <2>2, PicksBounded
  <2>3. ASSUME \/ RoundTripFails(r)
               \/ \E response \in Responses, size \in Sizes : RoundTripAnswers(r, response, size)
        PROVE  EInv'
      BY <1>1, <2>3, FailsBounded, AnswersBounded
  <2>4. ASSUME CloseBody(r) \/ SettleAttempt(r) PROVE EInv'
      BY <1>1, <2>4, RetryBounded
  <2>5. ASSUME CopyResponse(r) \/ SettleResponse(r) PROVE EInv'
      BY <1>1, <2>5, CopyBounded
  <2> QED
      BY <1>2, <2>1, <2>2, <2>3, <2>4, <2>5 DEF Progress
<1>3. ASSUME NEW r \in Call, ClientStep(r) PROVE EInv'
    BY <1>1, <1>3, ClientBounded
<1>4. CASE Background /\ UNCHANGED requests
    BY <1>1, <1>4, BackgroundBounded
<1>5. CASE UNCHANGED handlerVars
  <2>1. UNCHANGED <<pool, calls, requests>>
      BY <1>5 DEF handlerVars, vars
  <2> QED
      BY <1>1, <2>1 DEF EInv, Lawful, ErrBounded, Owing
<1> QED
    BY <1>2, <1>3, <1>4, <1>5 DEF HandlerNext

-----------------------------------------------------------------------------
(* The step simulation *)

\* A failure that is still owed stays below the bound of PoolUse.
LEMMA WideEnough ==
    ASSUME FiniteHandlers, EInv, NEW r \in Call,
           \/ MayFail(calls[r].address)
           \/ 1 <= Owed(requests[r], calls[r], calls[r].address)
    PROVE  PoolUse!MayFail(calls[r].address)
<1> DEFINE a == calls[r].address
<1> SUFFICES ASSUME NEW i \in DOMAIN pool, pool[i].address = a
             PROVE  pool[i].consecutiveErr < MaxErr + Margin
    BY DEF PoolUse!MayFail, Margin
<1>1. TypeOK /\ HInv /\ Lawful /\ \A d \in Call : Sound(requests[d])
    BY SoundRequests DEF EInv, HInv, IInv
<1>2. pool[i].consecutiveErr \in Nat
    BY <1>1, EntryErrs DEF TypeOK
<1>3. Owing(a) \in Nat /\ Margin \in Nat
    BY <1>1, OwedInAllType DEF Owing
<1>4. MaxErr \in Nat
    BY NumberAssumption
<1>5. CASE MayFail(a)
  <2>1. pool[i].consecutiveErr < MaxErr
      BY <1>5 DEF MayFail
  <2> QED
      BY <1>2, <1>3, <1>4, <2>1
<1>6. CASE 1 <= Owed(requests[r], calls[r], a)
  <2>1. 1 <= Owing(a)
      BY <1>1, <1>6, OwedCounted
  <2>2. pool[i].consecutiveErr + Owing(a) <= MaxErr + Margin
      BY DEF EInv, ErrBounded
  <2> HIDE DEF a
  <2> QED
      BY <1>2, <1>3, <1>4, <2>1, <2>2
<1> QED
    BY <1>5, <1>6

LEMMA FinishSimulated ==
    ASSUME FiniteHandlers, EInv, NEW r \in Call, NEW failed \in BOOLEAN, NEW s, NEW n,
           RunFinish(r, failed, s, n),
           failed => \/ MayFail(calls[r].address)
                     \/ 1 <= Owed(requests[r], calls[r], calls[r].address)
    PROVE  PoolUse!CallStep(r)
<1>1. failed => PoolUse!MayFail(calls[r].address)
    BY WideEnough
<1>2. CASE FinishStats(r, failed)
  <2>1. PoolUse!FinishStats(r, failed)
      BY <1>2, SameCallSteps
  <2> QED
      BY <1>1, <2>1 DEF PoolUse!CallStep, PoolUse!Finish
<1>3. CASE FinishNothing(r)
    BY <1>3, SameCallSteps DEF PoolUse!CallStep
<1> QED
    BY <1>2, <1>3 DEF RunFinish

\* An attempt that fails from the round trip on, and a copied response that was
\* a failure, are failures the pool of PoolUse may still count.
LEMMA FinishesSimulated ==
    ASSUME FiniteHandlers, EInv, NEW r \in Call
    PROVE  /\ RoundTripFails(r) => PoolUse!CallStep(r)
           /\ CloseBody(r) => PoolUse!CallStep(r)
           /\ CopyResponse(r) => PoolUse!CallStep(r) \/ PoolUnchanged
<1> DEFINE q == requests[r]
           a == calls[r].address
<1>1. Holds(q, calls[r]) /\ Sound(q)
    BY SoundRequests DEF EInv, HInv
<1>2. q.ctx # "live" /\ q.stage \in Attempting => 1 <= Owed(q, calls[r], a)
    BY <1>1, OwedType
<1>3. q.ctx = "live" /\ OwesOne(q, calls[r]) => 1 <= Owed(q, calls[r], a)
  <2>1. q.ctx = "live" /\ OwesOne(q, calls[r]) => Owed(q, calls[r], a) = 1
      BY DEF Owed
  <2> QED
      BY <2>1
<1>4. ASSUME RoundTripFails(r) PROVE PoolUse!CallStep(r)
  <2>1. /\ q.stage \in Attempting
        /\ q.ctx = "live" => MayFail(a)
    <3>1. At(r, "round trip") /\ (q.ctx # "live" \/ MayFail(q.backend))
        BY <1>1, <1>4 DEF RoundTripFails, EInv, HInv, Request
    <3> QED
        BY <1>1, <3>1 DEF At, Holds, Attempting
  <2>2. PICK s, n : RunFinish(r, TRUE, s, n)
      BY <1>4 DEF RoundTripFails
  <2> QED
      BY <1>2, <2>1, <2>2, FinishSimulated
<1>5. ASSUME CloseBody(r) PROVE PoolUse!CallStep(r)
  <2>1. q.stage \in Attempting /\ OwesOne(q, calls[r])
      BY <1>5 DEF CloseBody, At, Attempting, OwesOne
  <2>2. PICK s, n : RunFinish(r, TRUE, s, n)
      BY <1>5 DEF CloseBody
  <2> QED
      BY <1>2, <1>3, <2>1, <2>2, FinishSimulated
<1>6. ASSUME CopyResponse(r), ~ PoolUnchanged PROVE PoolUse!CallStep(r)
  <2> DEFINE failed == q.response # "ok"
  <2>1. q.stage = "copying" /\ calls[r].phase = "sent"
      BY <1>6 DEF CopyResponse, At, BodyOpen
  <2>2. PICK s, n : RunFinish(r, failed, s, n)
    <3>1. q \in Request
        BY <1>1 DEF Sound
    <3>2. \A status : [q EXCEPT !.status = status].response = q.response
        BY <3>1 DEF Request
    <3> QED
        BY <1>6, <3>2 DEF CopyResponse
  <2>3. failed => OwesOne(q, calls[r]) /\ q.stage \notin Attempting
      BY <2>1 DEF OwesOne, Attempting
  <2>4. failed => 1 <= Owed(q, calls[r], a)
    <3>1. failed => Owed(q, calls[r], a) = 1
        BY <2>3 DEF Owed
    <3> QED
        BY <3>1
  <2> HIDE DEF failed
  <2>5. failed \in BOOLEAN
      BY DEF failed
  <2> QED
      BY <2>2, <2>4, <2>5, FinishSimulated
<1> QED
    BY <1>4, <1>5, <1>6

\* A step of a goroutine is a step of its call, or leaves the pool alone.
LEMMA ProgressSimulated ==
    ASSUME FiniteHandlers, EInv, NEW r \in Call, Progress(r)
    PROVE  PoolUse!CallStep(r) \/ PoolUnchanged
<1> DEFINE q == requests[r]
<1>1. q.allowed \in AllowedSets \cup {{}}
    BY DEF EInv, HInv, Request
<1>2. ASSUME NEW latency \in [DOMAIN pool -> Latencies], PickBackend(r, latency)
      PROVE  PoolUse!CallStep(r)
  <2>1. PoolUse!NextFor(r, q.allowed, latency)
      BY <1>2, SameSelection DEF PickBackend
  <2>2. q.allowed # {}
    <3>1. NextFor(r, q.allowed, latency)
        BY <1>2 DEF PickBackend
    <3> QED
        BY <3>1 DEF NextFor, Tied, Candidates, Considered
  <2>3. q.allowed \in AllowedSets
      BY <1>1, <2>2
  <2> QED
      BY <2>1, <2>3 DEF PoolUse!CallStep
<1>3. ASSUME Send(r) \/ SettleAttempt(r) \/ SettleResponse(r) PROVE PoolUse!CallStep(r)
  <2>1. PoolUse!StartRequest(r) \/ PoolUse!FinishRequest(r)
      BY <1>3, SameCallSteps DEF Send, SettleAttempt, SettleResponse
  <2> QED
      BY <2>1 DEF PoolUse!CallStep
<1>4. ASSUME NEW body \in Bodies, ReadBody(r, body) PROVE PoolUnchanged
    BY <1>4 DEF ReadBody
<1>5. ASSUME NEW answer \in Limits, Limit(r, answer) PROVE PoolUnchanged
    BY <1>5 DEF Limit
<1>6. ASSUME NEW response \in Responses, NEW size \in Sizes, RoundTripAnswers(r, response, size)
      PROVE  PoolUnchanged
    BY <1>6 DEF RoundTripAnswers
<1>7. ThrottleOver(r) \/ NoBackend(r) \/ Decide(r) => PoolUnchanged
    BY DEF ThrottleOver, NoBackend, Decide
<1> QED
    BY <1>2, <1>3, <1>4, <1>5, <1>6, <1>7, FinishesSimulated DEF Progress

LEMMA StepSimulated ==
    ASSUME FiniteHandlers, EInv, [HandlerNext]_handlerVars
    PROVE  [PoolUse!Next]_vars
<1>1. ASSUME NEW r \in Call, Progress(r) PROVE PoolUse!Next \/ UNCHANGED vars
    BY <1>1, ProgressSimulated DEF PoolUse!Next, PoolUnchanged
<1>2. ASSUME NEW r \in Call, ClientStep(r) PROVE UNCHANGED vars
    BY <1>2 DEF ClientStep, Arrive, EndContext, Leave, PoolUnchanged
<1>3. Background => PoolUse!Next
    BY SameBackground DEF PoolUse!Next
<1>4. UNCHANGED handlerVars => UNCHANGED vars
    BY DEF handlerVars
<1> QED
    BY <1>1, <1>2, <1>3, <1>4 DEF HandlerNext

-----------------------------------------------------------------------------
(* What is proved of the pool holds under the handlers *)

\* Whatever a request does to the pool is a step of its call, or none.
LEMMA HandlerMoves ==
    ASSUME HInv, [HandlerNext]_handlerVars
    PROVE  [Moves]_vars
<1>1. ASSUME NEW r \in Call, NEW latency \in [DOMAIN pool -> Latencies], PickBackend(r, latency)
      PROVE  CallMoves(r)
  <2>1. NextFor(r, requests[r].allowed, latency)
      BY <1>1 DEF PickBackend
  <2>2. requests[r].allowed \in AllowedSets \cup {{}}
      BY DEF HInv, Request
  <2>3. requests[r].allowed # {}
      BY <2>1 DEF NextFor, Tied, Candidates, Considered
  <2> QED
      BY <2>1, <2>2, <2>3 DEF CallMoves
<1>2. ASSUME NEW r \in Call, Send(r) \/ SettleAttempt(r) \/ SettleResponse(r)
      PROVE  CallMoves(r)
    BY <1>2 DEF Send, SettleAttempt, SettleResponse, CallMoves
<1>3. ASSUME NEW r \in Call, RoundTripFails(r) \/ CloseBody(r) \/ CopyResponse(r)
      PROVE  CallMoves(r) \/ PoolUnchanged
  <2>1. ASSUME NEW failed \in BOOLEAN, NEW s, NEW n, RunFinish(r, failed, s, n)
        PROVE  CallMoves(r)
      BY <2>1 DEF RunFinish, CallMoves
  <2>2. RoundTripFails(r) => \E s, n : RunFinish(r, TRUE, s, n)
      BY DEF RoundTripFails
  <2>3. CloseBody(r) => \E s, n : RunFinish(r, TRUE, s, n)
      BY DEF CloseBody
  <2>4. CopyResponse(r) => \/ PoolUnchanged
                           \/ \E failed \in BOOLEAN : \E s, n : RunFinish(r, failed, s, n)
      BY DEF CopyResponse
  <2> QED
      BY <1>3, <2>1, <2>2, <2>3, <2>4
<1>4. ASSUME NEW r \in Call, Progress(r) PROVE CallMoves(r) \/ PoolUnchanged
  <2>1. ASSUME NEW body \in Bodies, ReadBody(r, body) PROVE PoolUnchanged
      BY <2>1 DEF ReadBody
  <2>2. ASSUME NEW answer \in Limits, Limit(r, answer) PROVE PoolUnchanged
      BY <2>2 DEF Limit
  <2>3. ASSUME NEW response \in Responses, NEW size \in Sizes,
               RoundTripAnswers(r, response, size)
        PROVE  PoolUnchanged
      BY <2>3 DEF RoundTripAnswers
  <2>4. ThrottleOver(r) \/ NoBackend(r) \/ Decide(r) => PoolUnchanged
      BY DEF ThrottleOver, NoBackend, Decide
  <2> QED
      BY <1>1, <1>2, <1>3, <1>4, <2>1, <2>2, <2>3, <2>4 DEF Progress
<1>5. ASSUME NEW r \in Call, ClientStep(r) PROVE PoolUnchanged
    BY <1>5 DEF ClientStep, Arrive, EndContext, Leave
<1>6. UNCHANGED handlerVars => UNCHANGED vars
    BY DEF handlerVars
<1> QED
    BY <1>4, <1>5, <1>6 DEF HandlerNext, Moves, PoolUnchanged

-----------------------------------------------------------------------------
(* Responses without a backend *)

\* the stages between a selection that found a backend and the next one
InHand == {"picked", "round trip", "closing", "failing"}

LastRefused(q) == q.response = "gateway error" /\ q.tries \in 1..q.retries

Called(q) ==
    \/ q.stage \in {"round trip", "closing", "failing"}
    \/ q.stage \in Forwarding /\ ~ q.err /\ q.response # "none"

\* A response comes from a call; a request that holds one but no backend holds
\* the gateway error of its last call, and has sent fewer calls than it may.
Traced(q) ==
    /\ q.stage \in InHand => q.backend # NoAddress
    /\ Called(q) => 1 <= q.tries
    /\ q.stage \in {"deciding", "copying"} /\ q.backend = NoAddress
          => q.err \/ q.response = "none" \/ LastRefused(q)
    /\ q.stage \in {"settling", "done"} /\ q.backend = NoAddress /\ q.status \in Responses
          => q.status = "gateway error" /\ LastRefused(q)

TracedAll == \A r \in Call : Traced(requests[r])

LEMMA TracedMove ==
    ASSUME HInv, TracedAll, NEW r \in Call, NEW p, Becomes(r, p), Traced(p)
    PROVE  TracedAll'
BY DEF HInv, TracedAll, Becomes

LEMMA TracedReply ==
    ASSUME HInv, TracedAll, NEW r \in Call, NEW status, Reply(r, status),
           status \notin Responses
    PROVE  TracedAll'
<1> DEFINE p == [requests[r] EXCEPT !.stage = "done", !.status = status]
<1>1. p.stage = "done" /\ p.status = status
    BY DEF HInv, Request
<1>2. Becomes(r, p)
    BY DEF Reply
<1> HIDE DEF p
<1>3. Traced(p)
    BY <1>1 DEF Traced, InHand, Called, Forwarding
<1> QED
    BY <1>2, <1>3, TracedMove

\* the answers that http.Error gives are no responses of a backend
LEMMA OwnAnswers ==
    /\ "400" \notin Responses /\ "408" \notin Responses /\ "413" \notin Responses
    /\ "429" \notin Responses /\ "502" \notin Responses /\ "503" \notin Responses
    /\ "504" \notin Responses
BY HandlerAssumption

LEMMA TracedAdmission ==
    ASSUME HInv, TracedAll, NEW r \in Call
    PROVE  /\ \A body \in Bodies : ReadBody(r, body) => TracedAll'
           /\ \A answer \in Limits : Limit(r, answer) => TracedAll'
           /\ ThrottleOver(r) => TracedAll'
           /\ Decide(r) => TracedAll'
<1> DEFINE q == requests[r]
<1>0. q \in Request /\ Counts(q) /\ Traced(q)
    BY DEF HInv, TracedAll
<1>1. ASSUME NEW stage \in {"limiting", "throttled"}, Becomes(r, [q EXCEPT !.stage = stage])
      PROVE  TracedAll'
  <2>1. [q EXCEPT !.stage = stage].stage = stage
      BY <1>0 DEF Request
  <2>2. Traced([q EXCEPT !.stage = stage])
      BY <2>1 DEF Traced, InHand, Called, Forwarding
  <2> QED
      BY <1>1, <2>2, TracedMove
<1>2. ASSUME q.stage \in {"limiting", "throttled"}, Becomes(r, Routed(q))
      PROVE  TracedAll'
  <2>1. Routed(q).stage = "choosing" /\ Routed(q).response = q.response
      BY <1>0 DEF Routed, Request
  <2>2. q.response = "none"
      BY <1>0, <1>2 DEF Counts, Admission
  <2>3. Traced(Routed(q))
      BY <2>1, <2>2 DEF Traced, InHand, Called
  <2> QED
      BY <1>2, <2>3, TracedMove
<1>3. ASSUME NEW body \in Bodies, ReadBody(r, body) PROVE TracedAll'
  <2>1. \/ Reply(r, "413")
        \/ Reply(r, "400")
        \/ Becomes(r, [q EXCEPT !.stage = "limiting"])
      BY <1>3, HandlerAssumption DEF ReadBody
  <2> QED
      BY <1>1, <2>1, OwnAnswers, TracedReply
<1>4. ASSUME NEW answer \in Limits, Limit(r, answer) PROVE TracedAll'
  <2>1. \/ Reply(r, "503")
        \/ Reply(r, "429")
        \/ Becomes(r, [q EXCEPT !.stage = "throttled"])
        \/ Becomes(r, Routed(q)) /\ q.stage = "limiting"
      BY <1>4, HandlerAssumption DEF Limit, At
  <2> QED
      BY <1>1, <1>2, <2>1, OwnAnswers, TracedReply
<1>5. ASSUME ThrottleOver(r) PROVE TracedAll'
    BY <1>2, <1>5, OwnAnswers, TracedReply DEF ThrottleOver, At
<1>6. ASSUME Decide(r) PROVE TracedAll'
  <2>1. q.stage = "deciding"
      BY <1>6 DEF Decide, At
  <2>2. CASE Reply(r, ErrorStatus(q))
      BY <2>2, OwnAnswers, TracedReply DEF ErrorStatus
  <2>3. CASE Becomes(r, [q EXCEPT !.stage = "copying"])
    <3> DEFINE p == [q EXCEPT !.stage = "copying"]
    <3>1. /\ p.stage = "copying" /\ p.backend = q.backend /\ p.err = q.err
          /\ p.response = q.response /\ p.tries = q.tries /\ p.retries = q.retries
        BY <1>0 DEF Request
    <3> HIDE DEF p
    <3>2. Traced(p)
        BY <1>0, <2>1, <3>1 DEF Traced, InHand, Called, Forwarding, LastRefused
    <3> QED
        BY <2>3, <3>2, TracedMove DEF p
  <2> QED
      BY <1>6, <2>2, <2>3 DEF Decide
<1> QED
    BY <1>3, <1>4, <1>5, <1>6

LEMMA TracedAfterAttempt ==
    ASSUME HInv, TracedAll, NEW r \in Call, NEW q \in Request, Becomes(r, AfterAttempt(q)),
           q.backend # NoAddress, 1 <= q.tries
    PROVE  TracedAll'
<1> DEFINE p == AfterAttempt(q)
<1>1. \/ /\ p = [q EXCEPT !.stage = "choosing", !.attempt = @ + 1]
      \/ /\ p = [q EXCEPT !.stage = "deciding"]
    BY DEF AfterAttempt
<1>2. /\ p.stage = "choosing" \/ p.stage = "deciding"
      /\ p.backend = q.backend /\ p.tries = q.tries
    BY <1>1 DEF Request
<1> HIDE DEF p
<1>3. Traced(p)
    BY <1>2 DEF Traced, InHand
<1> QED
    BY <1>3, TracedMove DEF p

LEMMA TracedSelection ==
    ASSUME HInv, TracedAll, NEW r \in Call
    PROVE  /\ \A latency : PickBackend(r, latency) => TracedAll'
           /\ NoBackend(r) => TracedAll'
           /\ Send(r) => TracedAll'
<1> DEFINE q == requests[r]
<1>0. q \in Request /\ Counts(q) /\ Traced(q) /\ Holds(q, calls[r])
    BY DEF HInv, TracedAll
<1>1. ASSUME NEW latency, PickBackend(r, latency) PROVE TracedAll'
  <2> DEFINE p == [q EXCEPT !.stage = "picked", !.backend = calls'[r].address]
  <2>1. calls'[r].address \in Address /\ calls'[r].address # NoAddress
    <3>1. PICK i \in DOMAIN pool : calls'[r] = [Idle EXCEPT !.phase = "picked",
                                           !.address = pool[i].address,
                                           !.probe = Refreshed(pool[i]).breakerState = "half-open"]
        BY <1>1 DEF PickBackend, NextFor, Tied, Candidates, Considered, HInv, IInv, TypeOK
    <3>2. calls'[r].address = pool[i].address
        BY <3>1 DEF Idle
    <3>3. pool[i] \in Entry
        BY DEF HInv, IInv, TypeOK
    <3> QED
        BY <3>2, <3>3, AddressAssumption DEF Entry
  <2>2. p.stage = "picked" /\ p.backend # NoAddress /\ p.tries = q.tries
        /\ p.err = q.err /\ p.response = q.response
      BY <1>0, <2>1 DEF Request
  <2>3. q.stage = "choosing" /\ Becomes(r, p)
      BY <1>1 DEF PickBackend, At
  <2> HIDE DEF p
  <2>4. Traced(p)
      BY <1>0, <2>2, <2>3 DEF Traced, Called, Forwarding
  <2> QED
      BY <2>3, <2>4, TracedMove
<1>2. ASSUME NoBackend(r) PROVE TracedAll'
  <2> DEFINE p == [q EXCEPT !.stage = "deciding", !.backend = NoAddress]
  <2>1. /\ p.stage = "deciding" /\ p.tries = q.tries /\ p.retries = q.retries
        /\ p.err = q.err /\ p.response = q.response
      BY <1>0 DEF Request
  <2>2. q.stage = "choosing" /\ Becomes(r, p)
      BY <1>2 DEF NoBackend, At
  <2> HIDE DEF p
  <2>3. q.tries \in Nat /\ q.retries \in Nat /\ q.attempt \in Nat
      BY <1>0, Numbers
  <2>4. q.tries <= q.attempt /\ q.attempt <= q.retries
      BY <1>0, <2>2 DEF Counts, Forwarding
  <2>5. q.tries <= q.retries
    <3> HIDE DEF q
    <3> QED
        BY <2>3, <2>4
  <2>6. Closed(q)
      BY <1>0, <2>2 DEF Holds
  <2>7. ~ q.err /\ q.response # "none" => 1 <= q.tries /\ LastRefused(q)
    <3>1. ~ q.err /\ q.response # "none" => 1 <= q.tries
        BY <1>0, <2>2 DEF Traced, Called, Forwarding
    <3>2. 1 <= q.tries => q.tries \in 1..q.retries
      <4> HIDE DEF q
      <4> QED
          BY <2>3, <2>5
    <3> QED
        BY <2>6, <3>1, <3>2 DEF LastRefused, Closed
  <2>8. Traced(p)
      BY <2>1, <2>7 DEF Traced, InHand, Called, LastRefused
  <2> QED
      BY <2>2, <2>8, TracedMove
<1>3. ASSUME Send(r) PROVE TracedAll'
  <2> DEFINE p == [q EXCEPT !.stage = "round trip", !.tries = @ + 1]
  <2>1. p.stage = "round trip" /\ p.backend = q.backend /\ p.tries = q.tries + 1
      BY <1>0 DEF Request
  <2>2. q.stage = "picked" /\ Becomes(r, p)
      BY <1>3 DEF Send, At
  <2> HIDE DEF p
  <2>3. 1 <= p.tries
    <3>1. q.tries \in Nat
        BY <1>0, Numbers
    <3>2. p.tries = q.tries + 1
        BY <2>1
    <3> HIDE DEF q
    <3> QED
        BY <3>1, <3>2
  <2>4. Traced(p)
      BY <1>0, <2>1, <2>2, <2>3 DEF Traced, InHand
  <2> QED
      BY <2>2, <2>4, TracedMove
<1> QED
    BY <1>1, <1>2, <1>3

LEMMA TracedAttempt ==
    ASSUME HInv, TracedAll, NEW r \in Call
    PROVE  /\ RoundTripFails(r) => TracedAll'
           /\ \A response \in Responses, size \in Sizes :
                 RoundTripAnswers(r, response, size) => TracedAll'
           /\ CloseBody(r) => TracedAll'
           /\ SettleAttempt(r) => TracedAll'
<1> DEFINE q == requests[r]
<1>0. q \in Request /\ Traced(q)
    BY DEF HInv, TracedAll
<1>1. ASSUME NEW o \in Request, NEW stage, o.backend # NoAddress, 1 <= o.tries,
             stage \in InHand \/ stage = "deciding", Becomes(r, [o EXCEPT !.stage = stage])
      PROVE  TracedAll'
  <2> DEFINE p == [o EXCEPT !.stage = stage]
  <2>1. p.stage = stage /\ p.backend = o.backend /\ p.tries = o.tries
      BY DEF Request
  <2> HIDE DEF p
  <2>2. Traced(p)
      BY <1>1, <2>1 DEF Traced, InHand
  <2> QED
      BY <1>1, <2>2, TracedMove DEF p
<1>2. At(r, "round trip") => q.backend # NoAddress /\ 1 <= q.tries
    BY <1>0 DEF At, Traced, InHand, Called
<1>3. ASSUME RoundTripFails(r) PROVE TracedAll'
  <2> DEFINE o == [q EXCEPT !.response = "none", !.err = TRUE]
  <2>1. o \in Request /\ o.backend = q.backend /\ o.tries = q.tries
      BY <1>0 DEF Request
  <2>2. Becomes(r, [o EXCEPT !.stage = "failing"]) \/ Becomes(r, AfterAttempt(o))
      BY <1>3 DEF RoundTripFails, RunFinish
  <2>3. o.backend # NoAddress /\ 1 <= o.tries
      BY <1>2, <1>3, <2>1 DEF RoundTripFails
  <2>4. "failing" \in InHand
      BY DEF InHand
  <2> HIDE DEF o
  <2> QED
      BY <1>1, <2>1, <2>2, <2>3, <2>4, TracedAfterAttempt
<1>4. ASSUME NEW response \in Responses, NEW size \in Sizes, RoundTripAnswers(r, response, size)
      PROVE  TracedAll'
  <2> DEFINE o == [q EXCEPT !.response = response, !.size = size, !.err = FALSE]
  <2>1. o \in Request /\ o.backend = q.backend /\ o.tries = q.tries
      BY <1>0 DEF Request
  <2>2. \/ Becomes(r, [o EXCEPT !.stage = "closing"])
        \/ Becomes(r, [o EXCEPT !.stage = "deciding"])
      BY <1>4 DEF RoundTripAnswers, RetryStage
  <2>3. o.backend # NoAddress /\ 1 <= o.tries
      BY <1>2, <1>4, <2>1 DEF RoundTripAnswers
  <2>4. "closing" \in InHand
      BY DEF InHand
  <2> HIDE DEF o
  <2> QED
      BY <1>1, <2>1, <2>2, <2>3, <2>4
<1>5. ASSUME CloseBody(r) PROVE TracedAll'
  <2>1. Becomes(r, [q EXCEPT !.stage = "failing"]) \/ Becomes(r, AfterAttempt(q))
      BY <1>5 DEF CloseBody, RunFinish
  <2>2. q.backend # NoAddress /\ 1 <= q.tries /\ "failing" \in InHand
      BY <1>0, <1>5 DEF CloseBody, At, Traced, InHand, Called
  <2> HIDE DEF q
  <2> QED
      BY <1>0, <1>1, <2>1, <2>2, TracedAfterAttempt
<1>6. ASSUME SettleAttempt(r) PROVE TracedAll'
  <2>1. Becomes(r, AfterAttempt(q))
      BY <1>6 DEF SettleAttempt
  <2>2. q.backend # NoAddress /\ 1 <= q.tries
      BY <1>0, <1>6 DEF SettleAttempt, At, Traced, InHand, Called
  <2> HIDE DEF q
  <2> QED
      BY <1>0, <2>1, <2>2, TracedAfterAttempt
<1> QED
    BY <1>3, <1>4, <1>5, <1>6

LEMMA TracedCopy ==
    ASSUME HInv, TracedAll, NEW r \in Call
    PROVE  /\ CopyResponse(r) => TracedAll'
           /\ SettleResponse(r) => TracedAll'
<1> DEFINE q == requests[r]
<1>0. q \in Request /\ Traced(q) /\ Holds(q, calls[r])
    BY DEF HInv, TracedAll
<1>1. ASSUME CopyResponse(r) PROVE TracedAll'
  <2> DEFINE status == IF q.size = "too large" THEN "502" ELSE q.response
             p(stage) == [[q EXCEPT !.status = status] EXCEPT !.stage = stage]
  <2>1. q.stage = "copying" /\ (Becomes(r, p("settling")) \/ Becomes(r, p("done")))
      BY <1>1 DEF CopyResponse, RunFinish, At
  <2>2. \A stage \in {"settling", "done"} :
           /\ p(stage).stage = stage /\ p(stage).status = status
           /\ p(stage).backend = q.backend /\ p(stage).response = q.response
           /\ p(stage).tries = q.tries /\ p(stage).retries = q.retries
           /\ p(stage).err = q.err
      BY <1>0 DEF Request
  <2>3. status \in Responses => status = q.response
      BY OwnAnswers
  <2>4. ~ q.err /\ q.response # "none"
      BY <1>0, <2>1 DEF Holds
  <2>5. q.backend = NoAddress => LastRefused(q) /\ q.response = "gateway error"
      BY <1>0, <2>1, <2>4 DEF Traced, LastRefused
  <2>6. 1 <= q.tries
      BY <1>0, <2>1, <2>4 DEF Traced, Called, Forwarding
  <2> HIDE DEF p, status
  <2>7. \A stage \in {"settling", "done"} : Traced(p(stage))
      BY <2>2, <2>3, <2>5, <2>6 DEF Traced, InHand, Called, LastRefused
  <2> QED
      BY <2>1, <2>7, TracedMove
<1>2. ASSUME SettleResponse(r) PROVE TracedAll'
  <2> DEFINE p == [q EXCEPT !.stage = "done"]
  <2>1. q.stage = "settling" /\ Becomes(r, p)
      BY <1>2 DEF SettleResponse, At
  <2>2. /\ p.stage = "done" /\ p.status = q.status
        /\ p.backend = q.backend /\ p.response = q.response
        /\ p.tries = q.tries /\ p.retries = q.retries
      BY <1>0 DEF Request
  <2> HIDE DEF p
  <2>3. Traced(p)
      BY <1>0, <2>1, <2>2 DEF Traced, InHand, Called, Forwarding, LastRefused
  <2> QED
      BY <2>1, <2>3, TracedMove
<1> QED
    BY <1>1, <1>2

LEMMA TracedClient ==
    ASSUME HInv, TracedAll, NEW r \in Call, ClientStep(r)
    PROVE  TracedAll'
<1> DEFINE q == requests[r]
<1>0. q \in Request /\ Traced(q)
    BY DEF HInv, TracedAll
<1>1. ASSUME NEW safe, NEW allowed, NEW retries, Arrive(r, safe, allowed, retries)
      PROVE  TracedAll'
  <2> DEFINE p == [q EXCEPT !.stage = "reading", !.safe = safe,
                            !.allowed = allowed, !.retries = retries]
  <2>1. p.stage = "reading" /\ Becomes(r, p)
      BY <1>0, <1>1 DEF Arrive, Request
  <2> HIDE DEF p
  <2>2. Traced(p)
      BY <2>1 DEF Traced, InHand, Called, Forwarding
  <2> QED
      BY <2>1, <2>2, TracedMove
<1>2. ASSUME NEW ending, EndContext(r, ending) PROVE TracedAll'
  <2> DEFINE p == [q EXCEPT !.ctx = ending]
  <2>1. /\ p.stage = q.stage /\ p.status = q.status /\ p.err = q.err
        /\ p.backend = q.backend /\ p.response = q.response
        /\ p.tries = q.tries /\ p.retries = q.retries
      BY <1>0 DEF Request
  <2>2. Becomes(r, p)
      BY <1>2 DEF EndContext
  <2> HIDE DEF p
  <2>3. Traced(p)
      BY <1>0, <2>1 DEF Traced, Called, LastRefused
  <2> QED
      BY <2>2, <2>3, TracedMove
<1>3. ASSUME Leave(r) PROVE TracedAll'
  <2>1. Becomes(r, FreshRequest) /\ FreshRequest.stage = "idle"
      BY <1>3 DEF Leave, FreshRequest
  <2>2. Traced(FreshRequest)
      BY <2>1 DEF Traced, InHand, Called, Forwarding
  <2> QED
      BY <2>1, <2>2, TracedMove
<1> QED
    BY <1>1, <1>2, <1>3 DEF ClientStep

LEMMA TracedStep ==
    ASSUME HInv, TracedAll, [HandlerNext]_handlerVars
    PROVE  TracedAll'
<1>1. ASSUME NEW r \in Call, Progress(r) PROVE TracedAll'
    BY <1>1, TracedAdmission, TracedSelection, TracedAttempt, TracedCopy DEF Progress
<1>2. ASSUME NEW r \in Call, ClientStep(r) PROVE TracedAll'
    BY <1>2, TracedClient
<1>3. UNCHANGED requests => TracedAll'
    BY DEF TracedAll
<1> QED
    BY <1>1, <1>2, <1>3 DEF HandlerNext, handlerVars

-----------------------------------------------------------------------------
(* The theorems *)

\* The locals of every request and the pool keep their types, whatever the
\* retries, the limiter's answers and the responses.
THEOREM HandlerTypeCorrect == HandlerSpec => []HandlerTypeOK
<1>1. HInv => HandlerTypeOK
    BY DEF HInv, IInv, HandlerTypeOK, Request
<1> QED
    BY <1>1, HandlerInductive, PTL

\* On every path of the loop and of the copy, each call that was started is
\* settled by the time the request no longer forwards, for any number of
\* requests and retries and with reloads in between.
THEOREM NothingIsLeft == HandlerSpec => []NothingLeft
<1>1. HInv => NothingLeft
    BY DEF HInv, NothingLeft, Holds
<1> QED
    BY <1>1, HandlerInductive, PTL

\* A request sends one call more than its route's retries at most, and one at
\* most unless it is GET or HEAD.
THEOREM TriesAlwaysBounded == HandlerSpec => []TriesBounded
<1>1. HInv => TriesBounded
    BY DEF HInv, TriesBounded, Counts, EffectiveRetries
<1> QED
    BY <1>1, HandlerInductive, PTL

\* A response that is copied, other than a gateway error that was closed for a
\* retry, has its body open and comes from the backend that is logged.
THEOREM AnswerIsAlwaysOpen == HandlerSpec => []AnswerIsOpen
<1>1. HInv => AnswerIsOpen
    BY DEF HInv, AnswerIsOpen, Holds, Closed, At, BodyOpen
<1> QED
    BY <1>1, HandlerInductive, PTL

\* What is proved of the pool's breakers under calls that come and go freely
\* holds under the handlers too, whose calls follow the retry loop.
THEOREM HandlersKeepBreakers == HandlerSpec => [](BreakerConsistent /\ ProbeOwned)
<1>1. HInv => BreakerConsistent /\ ProbeOwned
    BY DEF HInv, IInv
<1> QED
    BY <1>1, HandlerInductive, PTL

\* For any retries and any reloads: where the last selection found no backend, a
\* response reaches the client only as the gateway error of a request that was
\* sent before and had a retry left.
THEOREM ResponseAlwaysNeedsRetry == HandlerSpec => []ResponseNeedsRetry
<1>1. HandlerInit => TracedAll
  <2>1. FreshRequest.stage = "idle"
      BY DEF FreshRequest
  <2> QED
      BY <2>1 DEF HandlerInit, TracedAll, Traced, InHand, Called, Forwarding
<1>2. HInv /\ TracedAll /\ [HandlerNext]_handlerVars => TracedAll'
    BY TracedStep
<1>3. TracedAll => ResponseNeedsRetry
    BY DEF TracedAll, Traced, ResponseNeedsRetry, At, LastRefused
<1> QED
    BY <1>1, <1>2, <1>3, HandlerInductive, PTL DEF HandlerSpec


\* Every response that reaches a client has one of the two sources.
THEOREM AnswerAlwaysHasSource == HandlerSpec => []AnswerHasSource
BY AnswerIsAlwaysOpen, ResponseAlwaysNeedsRetry, PTL DEF AnswerHasSource

\* Without retries, "no eligible backend: 503" (docs/architecture.md:44) holds for
\* every request: what the run HandlerClosedBody refutes takes a retry.
THEOREM WithoutRetriesAlways503 ==
    IsFiniteSet(Call) /\ Retries = {0} => (HandlerSpec => []NoBackendIs503)
<1> SUFFICES ASSUME IsFiniteSet(Call), Retries = {0}
             PROVE  HandlerSpec => []NoBackendIs503
    OBVIOUS
<1>1. FiniteHandlers
    BY FS_Singleton DEF FiniteHandlers
<1>2. MostTries = 1
    BY DEF MostTries
<1>3. HandlerInit => EInv
    BY <1>1, BoundedInit
<1>4. EInv /\ [HandlerNext]_handlerVars => EInv'
    BY <1>1, BoundedStep
<1>5. EInv /\ ResponseNeedsRetry => NoBackendIs503
  <2> SUFFICES ASSUME EInv, ResponseNeedsRetry, NEW r \in Call,
                      At(r, "done"), requests[r].backend = NoAddress,
                      requests[r].status \in Responses
               PROVE  FALSE
      BY DEF NoBackendIs503
  <2>1. requests[r].tries \in 1..requests[r].retries
      BY DEF ResponseNeedsRetry
  <2>2. requests[r].retries < 1 /\ requests[r].retries \in Nat
      BY <1>2 DEF EInv, HInv, Lawful, Request
  <2> QED
      BY <2>1, <2>2
<1> QED
    BY <1>3, <1>4, <1>5, ResponseAlwaysNeedsRetry, PTL DEF HandlerSpec

\* Under any finite number of handlers, on every path of theirs and over any
\* number of reloads, no running call is missing from the gauge, and until the
\* first reload none is counted that has ended.
THEOREM HandlersAreCounted ==
    IsFiniteSet(Call)
        => (HandlerSpec => [](ActiveCovers /\ (generation = 0 => GaugeExact)))
<1> SUFFICES ASSUME IsFiniteSet(Call)
             PROVE  HandlerSpec => [](ActiveCovers /\ (generation = 0 => GaugeExact))
    OBVIOUS
<1>1. HandlerInit => GaugeInv /\ Exact
    BY GaugeInit, ExactInit DEF HandlerInit
<1>2. HInv /\ (GaugeInv /\ Exact) /\ [HandlerNext]_handlerVars => (GaugeInv /\ Exact)'
    BY HandlerMoves, GaugeStep, ExactStep
<1>3. GaugeInv /\ Exact => ActiveCovers /\ (generation = 0 => GaugeExact)
    BY ExactIsGauge DEF GaugeInv
<1> QED
    BY <1>1, <1>2, <1>3, HandlerInductive, PTL DEF HandlerSpec

\* Where no address is listed twice, no handler's retry, whenever it comes, goes
\* to a backend that an operator took out of service, and only operators put
\* backends in and out of service.
THEOREM HandlersObeyOperator == NoRepeats => (HandlerSpec => OperatorDecides)
<1> SUFFICES ASSUME NoRepeats PROVE HandlerSpec => OperatorDecides
    OBVIOUS
<1>1. HandlerInit => Distinct
    BY DEF HandlerInit, Init, NewEntry, Distinct, NoRepeats
<1>2. HInv /\ Distinct /\ [HandlerNext]_handlerVars => Distinct' /\ [Decided]_vars
  <2>1. ASSUME UNCHANGED vars, Distinct PROVE Distinct'
      BY <2>1 DEF vars, Distinct
  <2> QED
      BY <2>1, HandlerMoves, StepDecided DEF HInv
<1> QED
    BY <1>1, <1>2, HandlerInductive, PTL DEF HandlerSpec, OperatorDecides, Decided

\* Every history of the handlers is one of the pool, for any number of requests:
\* whatever a path through the retry loop and the copy does to the pool is a
\* legal step of the call of its goroutine.
THEOREM HandlersUseThePool == FiniteHandlers => (HandlerSpec => PoolUse!Spec)
<1> SUFFICES ASSUME FiniteHandlers PROVE HandlerSpec => PoolUse!Spec
    OBVIOUS
<1>1. HandlerInit => EInv /\ PoolUse!Init
    BY BoundedInit, SameInit DEF HandlerInit
<1>2. EInv /\ [HandlerNext]_handlerVars => EInv' /\ [PoolUse!Next]_(PoolUse!vars)
    BY BoundedStep, StepSimulated DEF PoolUse!vars, vars
<1> QED
    BY <1>1, <1>2, PTL DEF HandlerSpec, PoolUse!Spec
=============================================================================
