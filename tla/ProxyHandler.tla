----------------------------- MODULE ProxyHandler -----------------------------
(***************************************************************************)
(* proxyHandler of main.go: what the goroutine of one HTTP request does,   *)
(* from the body limit and the rate limiter through the retry loop to the  *)
(* copied response, together with the backend pool it works on.  Every     *)
(* step of a request is a step of BackendPool for the call of the same     *)
(* goroutine, or leaves the pool alone.                                    *)
(***************************************************************************)
EXTENDS BackendPool

CONSTANTS
    Retries,     \* retry counts routes are configured with
    Limits,      \* answers of the rate limiter this run considers
    Bodies,      \* what reading the request body can give
    Responses,   \* classes of upstream responses
    Sizes,       \* upstream bodies, by their Content-Length
    Endings      \* how a request context can end

ASSUME HandlerAssumption ==
    /\ Retries \subseteq Nat
    /\ Limits \subseteq {"allow", "throttle", "block", "error"}
    /\ Bodies \subseteq {"ok", "too large", "unreadable"}
    /\ Responses \subseteq {"ok", "server error", "gateway error"}
    /\ Sizes \subseteq {"fits", "too large"}
    /\ Endings \subseteq {"cancelled", "deadline"}

VARIABLE requests   \* the local variables of each request's goroutine

handlerVars == <<vars, requests>>

-----------------------------------------------------------------------------
(* Data *)

\* Where the goroutine is: before a request, reading its body, asking the
\* limiter, in a throttle delay, at the head of the retry loop, between nextFor
\* and startRequest, in RoundTrip, closing the body of a gateway error, in the
\* finishRequest of a lost attempt, behind the loop, copying the response, in
\* the finishRequest of the copied one, and finished.
Stages == {"idle", "reading", "limiting", "throttled", "choosing", "picked",
           "round trip", "closing", "failing", "deciding", "copying", "settling",
           "done"}

Forwarding == {"choosing", "picked", "round trip", "closing", "failing",
               "deciding", "copying", "settling"}

\* status is what the client got.  tries is history: the calls sent for this
\* request.
FreshRequest ==
    [stage |-> "idle", safe |-> TRUE, allowed |-> {}, retries |-> 0, attempt |-> 0,
     ctx |-> "live", response |-> "none", size |-> "fits", err |-> FALSE,
     backend |-> NoAddress, status |-> "none", tries |-> 0]

At(r, stage) == requests[r].stage = stage

\* the goroutine's own step: its locals become q
Becomes(r, q) == requests' = [requests EXCEPT ![r] = q]

PoolUnchanged == UNCHANGED vars

\* http.Error(w, ..., entry.Status) and return
Reply(r, status) ==
    Becomes(r, [requests[r] EXCEPT !.stage = "done", !.status = status])

-----------------------------------------------------------------------------
(* Admission *)

Arrive(r, safe, allowed, retries) ==
    /\ At(r, "idle")
    /\ Becomes(r, [requests[r] EXCEPT !.stage = "reading", !.safe = safe,
                                     !.allowed = allowed, !.retries = retries])
    /\ PoolUnchanged

ReadBody(r, body) ==
    /\ At(r, "reading")
    /\ CASE body = "too large"  -> Reply(r, "413")
         [] body = "unreadable" -> Reply(r, "400")
         [] body = "ok"         -> Becomes(r, [requests[r] EXCEPT !.stage = "limiting"])
    /\ PoolUnchanged

\* only GET and HEAD keep the route's retries
\* mutant: every method keeps them
RetriesForAll(q) == q.retries
EffectiveRetries(q) == IF q.safe THEN q.retries ELSE 0

Routed(q) == [q EXCEPT !.stage = "choosing", !.retries = EffectiveRetries(q)]

\* resolveRateLimitConfig and Evaluate, then the route
Limit(r, answer) ==
    /\ At(r, "limiting")
    /\ CASE answer = "error"    -> Reply(r, "503")
         [] answer = "block"    -> Reply(r, "429")
         [] answer = "throttle" -> Becomes(r, [requests[r] EXCEPT !.stage = "throttled"])
         [] answer = "allow"    -> Becomes(r, Routed(requests[r]))
    /\ PoolUnchanged

\* the select between the delay's timer and the request context
ThrottleOver(r) ==
    /\ At(r, "throttled")
    /\ \/ Becomes(r, Routed(requests[r]))
       \/ requests[r].ctx # "live" /\ Reply(r, "408")
    /\ PoolUnchanged

\* The client goes away, or the deadline set for the upstream attempts passes.
\* bound: no context ends while an error count is at MaxErr
EndContext(r, ending) ==
    /\ requests[r].stage \notin {"idle", "done"}
    /\ requests[r].ctx = "live"
    /\ ending = "deadline" => requests[r].stage \in Forwarding
    /\ \A address \in Address : MayFail(address)
    /\ Becomes(r, [requests[r] EXCEPT !.ctx = ending])
    /\ PoolUnchanged

-----------------------------------------------------------------------------
(* The retry loop *)

PickBackend(r, latency) ==
    /\ At(r, "choosing")
    /\ NextFor(r, requests[r].allowed, latency)
    /\ Becomes(r, [requests[r] EXCEPT !.stage = "picked", !.backend = calls'[r].address])

\* mutant: the goroutine waits while the pool has a backend of the route, in service
\* or not
NoBackendListed(r) ==
    /\ At(r, "choosing")
    /\ \A i \in DOMAIN pool : pool[i].address \notin requests[r].allowed
    /\ Becomes(r, [requests[r] EXCEPT !.stage = "deciding", !.backend = NoAddress])
    /\ PoolUnchanged

\* nextFor returned ""
NoBackend(r) ==
    /\ At(r, "choosing")
    /\ Candidates(requests[r].allowed) = {}
    /\ Becomes(r, [requests[r] EXCEPT !.stage = "deciding", !.backend = NoAddress])
    /\ PoolUnchanged

Send(r) ==
    /\ At(r, "picked")
    /\ StartRequest(r)
    /\ Becomes(r, [requests[r] EXCEPT !.stage = "round trip", !.tries = @ + 1])

\* the loop's increment and test
AfterAttempt(q) ==
    IF q.attempt < q.retries
    THEN [q EXCEPT !.stage = "choosing", !.attempt = @ + 1]
    ELSE [q EXCEPT !.stage = "deciding"]

\* the finish closure, from RoundTrip's error, a read to the end or a Close;
\* next takes over, behind finishRequest if the closure does anything
RunFinish(r, failed, settling, next) ==
    \/ FinishStats(r, failed) /\ Becomes(r, settling)
    \/ FinishNothing(r) /\ Becomes(r, next)

\* RoundTrip returns an error: the upstream's fault, or the context has ended
RoundTripFails(r) ==
    LET q == [requests[r] EXCEPT !.response = "none", !.err = TRUE]
    IN  /\ At(r, "round trip")
        /\ q.ctx # "live" \/ MayFail(q.backend)
        /\ RunFinish(r, TRUE, [q EXCEPT !.stage = "failing"], AfterAttempt(q))

\* RoundTrip returns a response: a last one, or a gateway error to be retried
\* mutant: a gateway error that is retried is left open
RetryStageOpen(q) == "choosing"
RetryStage(q) == "closing"

\* mutant: every server error is retried
RetriedAll5xx(response) == response # "ok"
Retried(response) == response = "gateway error"

RoundTripAnswers(r, response, size) ==
    LET q == [requests[r] EXCEPT !.response = response, !.size = size, !.err = FALSE]
    IN  /\ At(r, "round trip")
        /\ q.ctx = "live"
        /\ response # "ok" => MayFail(q.backend)
        /\ Becomes(r, IF Retried(response) /\ q.attempt < q.retries
                      THEN [q EXCEPT !.stage = RetryStage(q)]
                      ELSE [q EXCEPT !.stage = "deciding"])
        /\ PoolUnchanged

CloseBody(r) ==
    /\ At(r, "closing")
    /\ RunFinish(r, TRUE, [requests[r] EXCEPT !.stage = "failing"],
                         AfterAttempt(requests[r]))

SettleAttempt(r) ==
    /\ At(r, "failing")
    /\ FinishRequest(r)
    /\ Becomes(r, AfterAttempt(requests[r]))

-----------------------------------------------------------------------------
(* The answer *)

ErrorStatus(q) ==
    IF q.ctx = "deadline" THEN "504"
    ELSE IF q.backend = NoAddress THEN "503" ELSE "502"

Decide(r) ==
    LET q == requests[r]
    IN  /\ At(r, "deciding")
        /\ IF q.err \/ q.response = "none"
           THEN Reply(r, ErrorStatus(q))
           ELSE Becomes(r, [q EXCEPT !.stage = "copying"])
        /\ PoolUnchanged

\* mutant: an oversized body is not closed
BodyOpenUnlessLarge(r) == calls[r].phase = "sent" /\ requests[r].size # "too large"
\* the trackedResponseBody still has its closure to run
BodyOpen(r) == calls[r].phase = "sent"

\* What copyResponse sends, and the closure at the end of the copy or of the
\* function.  How much of the body was copied by then is left out.
CopyResponse(r) ==
    LET q == [requests[r] EXCEPT !.status =
                 IF requests[r].size = "too large" THEN "502" ELSE requests[r].response]
    IN  /\ At(r, "copying")
        /\ \/ /\ BodyOpen(r)
              /\ RunFinish(r, q.response # "ok", [q EXCEPT !.stage = "settling"],
                                                 [q EXCEPT !.stage = "done"])
           \/ /\ ~ BodyOpen(r)
              /\ Becomes(r, [q EXCEPT !.stage = "done"])
              /\ PoolUnchanged

SettleResponse(r) ==
    /\ At(r, "settling")
    /\ FinishRequest(r)
    /\ Becomes(r, [requests[r] EXCEPT !.stage = "done"])

\* recordRequest ran; the connection may bring another request
Leave(r) ==
    /\ At(r, "done")
    /\ Becomes(r, FreshRequest)
    /\ PoolUnchanged

-----------------------------------------------------------------------------
(* The specification *)

HandlerInit ==
    /\ Init
    /\ requests = [r \in Call |-> FreshRequest]

Progress(r) ==
    \/ \E body \in Bodies : ReadBody(r, body)
    \/ \E answer \in Limits : Limit(r, answer)
    \/ ThrottleOver(r)
    \/ \E latency \in [DOMAIN pool -> Latencies] : PickBackend(r, latency)
    \/ NoBackend(r)
    \/ Send(r)
    \/ RoundTripFails(r)
    \/ \E response \in Responses, size \in Sizes : RoundTripAnswers(r, response, size)
    \/ CloseBody(r)
    \/ SettleAttempt(r)
    \/ Decide(r)
    \/ CopyResponse(r)
    \/ SettleResponse(r)

ClientStep(r) ==
    \/ \E safe \in BOOLEAN, allowed \in AllowedSets, retries \in Retries :
          Arrive(r, safe, allowed, retries)
    \/ \E ending \in Endings : EndContext(r, ending)
    \/ Leave(r)

HandlerNext ==
    \/ \E r \in Call : Progress(r) \/ ClientStep(r)
    \/ Background /\ UNCHANGED requests

HandlerSpec == HandlerInit /\ [][HandlerNext]_handlerVars

\* The server's ReadTimeout ends the reading, a timer the delay, the attempts'
\* deadline the round trips and, with WriteTimeout, the copy; the rest runs.
FairHandlerSpec == HandlerSpec /\ \A r \in Call : WF_handlerVars(Progress(r))

-----------------------------------------------------------------------------
(* Properties *)

HandlerTypeOK ==
    /\ TypeOK
    /\ \A r \in Call :
        LET q == requests[r]
        IN  /\ q.stage \in Stages
            /\ q.ctx \in Endings \cup {"live"}
            /\ q.response \in Responses \cup {"none"}
            /\ q.size \in Sizes \cup {"fits"}
            /\ q.backend \in Address \cup {NoAddress}

\* A request that no longer forwards holds nothing of the pool: whichever way the
\* loop and the copy went, each call it started was settled exactly once
\* (main.go:466-486, 531-580, 588-605).
NothingLeft ==
    \A r \in Call : requests[r].stage \notin Forwarding => calls[r] = Idle

\* One request costs the upstreams at most one call more than the route's
\* retries, and exactly one at most if it is not GET or HEAD, whatever fails and
\* whatever reloads happen ("Only GET and HEAD are retried",
\* docs/architecture.md:22; main.go:445-455, 466-486).
TriesBounded ==
    \A r \in Call :
        requests[r].tries <= (IF requests[r].safe THEN requests[r].retries ELSE 0) + 1

\* A response other than a gateway error reaches copyResponse with its body
\* still open, and it is from the backend that is logged with it.
AnswerIsOpen ==
    \A r \in Call :
        At(r, "copying") /\ requests[r].response # "gateway error"
            => /\ BodyOpen(r)
               /\ requests[r].backend = calls[r].address

\* "no eligible backend: 503 Service Unavailable" (docs/architecture.md:44): a
\* request whose last nextFor found no backend is not answered with a response.
NoBackendIs503 ==
    \A r \in Call :
        At(r, "done") /\ requests[r].backend = NoAddress
            => requests[r].status \notin Responses

\* What the code does keep of that: such a request can get a response only if it
\* was retried, and then it is the gateway error that its last call was answered
\* with (main.go:466-486).
ResponseNeedsRetry ==
    \A r \in Call :
        LET q == requests[r]
        IN  At(r, "done") /\ q.backend = NoAddress /\ q.status \in Responses
                => q.status = "gateway error" /\ q.tries \in 1..q.retries

\* What the client is sent as a backend's response comes from where the code says:
\* while it is copied from the call that is logged with it, or else from the one
\* that was retried last (main.go:466-486, 487-499).
AnswerHasSource == AnswerIsOpen /\ ResponseNeedsRetry

\* Every request is answered.
EveryRequestAnswered ==
    \A r \in Call : At(r, "reading") ~> At(r, "done")

\* the calls that the route with the most retries may send for one request
MostTries == 1 + CHOOSE k \in Retries : \A j \in Retries : j <= k

\* The handlers use the pool as BackendPool says, and they owe it what its
\* fairness asks for: every call they pick is sent and settled.  The bound on
\* errors is wider here by the failures that can be under way at the bound: a
\* request whose context is over fails in every attempt that is left to it.
PoolUse == INSTANCE BackendPool WITH MaxErr <- MaxErr + MostTries * Cardinality(Call)

PoolImplemented == PoolUse!LiveSpec
=============================================================================
