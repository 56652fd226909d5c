------------------------------ MODULE Lifecycle ------------------------------
(***************************************************************************)
(* runProxy of main.go from the first line to the last: loading, start-up  *)
(* with each of its failures, serving in HTTP or TCP mode, and the stop    *)
(* after a signal with its two time limits of 30 seconds.  Around it, the  *)
(* goroutines whose connections it counts: net/http's, through the hook    *)
(* trackConnectionState, and those of handleTCPProxyConnection, with the   *)
(* half-closes of a relayed connection.  What a request does is            *)
(* ProxyHandler's matter, a reload RuntimeReload's.                        *)
(***************************************************************************)
EXTENDS Configuration, FiniteSets

CONSTANTS
    Inputs,      \* what the program may be started with
    Requests,    \* requests the policies are asked about
    Conn         \* connections of clients

ASSUME InputAssumption ==
    \A i \in Inputs :
        /\ i.file.exists \in BOOLEAN   \* config.yaml is there
        /\ i.inproc \in BOOLEAN        \* INPROC_BACKENDS
        /\ i.certs \in BOOLEAN         \* certificate and key can be read
        /\ i.taken \in BOOLEAN         \* the port is in use by another process
        \* the numbers of rate_limit are kept apart; only the file has policies
        /\ \A n \in DOMAIN i.file.rate : i.file.rate[n] \in Int
        /\ \A n \in DOMAIN i.env.rate : i.env.rate[n] \in Int
        /\ "rate" \notin DOMAIN i.file.settings \cup DOMAIN i.env.settings
        /\ "policies" \notin DOMAIN i.env.settings
        /\ "policies" \in DOMAIN i.file.settings =>
              \A k \in DOMAIN i.file.settings.policies :
                  /\ k \in Nat \ {0}
                  /\ "rate" \in DOMAIN i.file.settings.policies[k]
                  /\ i.file.settings.policies[k].rate \in Rate

ASSUME ConnsFinite == IsFiniteSet(Conn)

VARIABLES
    input,        \* the file, the environment and the machine; never changes
    phase,        \* where runProxy is
    outcome,      \* why it leaves
    cfg,          \* loadedCfg
    accepting,    \* the loop that accepts connections runs
    conns,        \* each connection, and the goroutine that serves it
    activeConns,  \* the counter of the same name
    ctx,          \* the time limit for Shutdown: unset, running, over
    deadline,     \* the time limit for the drain: unset, running, over
    statsBusy     \* the stats server is serving a request

processVars == <<input, phase, outcome, cfg, accepting, conns, activeConns,
                 ctx, deadline, statsBusy>>

connVars == <<accepting, conns, activeConns>>

-----------------------------------------------------------------------------
(* Data *)

Phases == {"loading", "tracing", "pinging", "listening", "serving", "aborting",
           "stopping", "stopping stats", "draining", "flushing", "exited"}

Outcomes == {"none", "config", "trace", "redis", "listen", "stopped"}

Limit == {"unset", "running", "over"}

NoConfig == Default

\* absent: not yet connected; accepted: its goroutine has not counted it yet; new,
\* active and idle are net/http's states; closing: its goroutine returns
ConnStages == {"absent", "accepted", "new", "active", "idle", "dialing", "relaying",
               "closing", "gone"}

\* client and server are what the two ends of a relayed connection still send;
\* up and down are the goroutines that copy to the server and to the client
Ends == {"open", "ended", "broken"}

Connection == [stage : ConnStages, client : Ends, server : Ends,
               up : {"copying", "done"}, down : {"copying", "done"}]

Absent == [stage |-> "absent", client |-> "open", server |-> "open",
           up |-> "copying", down |-> "copying"]

\* what trackConnectionState and handleTCPProxyConnection have counted
Counted == {"new", "active", "idle", "dialing", "relaying", "closing"}

LifecycleTypeOK ==
    /\ phase \in Phases
    /\ outcome \in Outcomes
    /\ cfg.mode \in {"http", "tcp"}
    /\ accepting \in BOOLEAN
    /\ conns \in [Conn -> Connection]
    /\ activeConns \in Nat
    /\ ctx \in Limit
    /\ deadline \in Limit
    /\ statsBusy \in BOOLEAN

-----------------------------------------------------------------------------
(* Start *)

\* runProxy goes on to the next phase
Proceed(from, to) ==
    /\ phase = from
    /\ phase' = to

Leaves(from, to, why) ==
    /\ Proceed(from, to)
    /\ outcome' = why

LoadConfig ==
    LET c == Candidate(input.file, input.env)
    IN  /\ \/ /\ Valid(c, input.inproc)
              /\ Proceed("loading", "tracing")
              /\ cfg' = c
              /\ UNCHANGED outcome
           \* the file cannot be read or decoded, or Validate refuses
           \/ /\ input.file.exists \/ ~ Valid(c, input.inproc)
              /\ Leaves("loading", "exited", "config")
              /\ UNCHANGED cfg
        /\ UNCHANGED <<input, connVars, ctx, deadline, statsBusy>>

\* setupTracing, which can fail if there is an exporter to set up
SetupTracing ==
    /\ \/ Proceed("tracing", "pinging") /\ UNCHANGED outcome
       \/ cfg.tracing /\ Leaves("tracing", "exited", "trace")
    /\ UNCHANGED <<input, cfg, connVars, ctx, deadline, statsBusy>>

\* the ping of Redis; then the pool, the health checker and the stats server start
PingRedis ==
    /\ \/ Proceed("pinging", "listening") /\ UNCHANGED outcome
       \/ cfg.limits /\ cfg.redis # "" /\ Leaves("pinging", "flushing", "redis")
    /\ UNCHANGED <<input, cfg, connVars, ctx, deadline, statsBusy>>

CanListen == cfg.port = "colon" /\ ~ input.taken /\ (cfg.tls => input.certs)

StartListener ==
    /\ \/ /\ CanListen
          /\ Proceed("listening", "serving")
          /\ accepting' = TRUE
          /\ UNCHANGED outcome
       \/ /\ ~ CanListen
          /\ Leaves("listening", "aborting", "listen")
          /\ UNCHANGED accepting
    /\ UNCHANGED <<input, cfg, conns, activeConns, ctx, deadline, statsBusy>>

\* statsServer.Shutdown without a time limit
Abort ==
    /\ Proceed("aborting", "flushing")
    /\ ~ statsBusy
    /\ UNCHANGED <<input, outcome, cfg, connVars, ctx, deadline, statsBusy>>

-----------------------------------------------------------------------------
(* Stop *)

\* the signal; SetKeepAlivesEnabled(false) and the listener closed
\* a signal before this phase kills the process without more ado
Signal ==
    /\ Proceed("serving", "stopping")
    /\ ctx' = "running"
    /\ UNCHANGED <<input, outcome, cfg, connVars, deadline, statsBusy>>

\* until the signal, or the error of Accept
ListenerOpen == phase = "serving"

\* the accept loop ends: the listener is closed, or Accept fails, in HTTP mode with
\* an error that is not temporary, in TCP mode with any error
AcceptFails ==
    /\ accepting
    /\ phase # "exited"
    /\ accepting' = FALSE
    /\ UNCHANGED <<input, phase, outcome, cfg, conns, activeConns, ctx, deadline, statsBusy>>

\* httpServer.Shutdown returns, or the wait for tcpDone ends
ServingStopped ==
    /\ ~ accepting
    /\ cfg.mode = "http" => \A c \in Conn : conns[c].stage \in {"absent", "closing", "gone"}

StopServing ==
    /\ Proceed("stopping", "stopping stats")
    /\ ServingStopped \/ ctx = "over"
    /\ UNCHANGED <<input, outcome, cfg, connVars, ctx, deadline, statsBusy>>

\* statsServer.Shutdown(ctx) and pool.close; the drain's time starts
\* mutant: the time limit is not passed
StatsStoppedUnbounded == ~ statsBusy
StatsStopped == ~ statsBusy \/ ctx = "over"

StopStats ==
    /\ Proceed("stopping stats", "draining")
    /\ StatsStopped
    /\ deadline' = "running"
    /\ UNCHANGED <<input, outcome, cfg, connVars, ctx, statsBusy>>

\* one turn of the drain loop that ends it
\* mutant: the last connection is not waited for
DrainedButOne == activeConns <= 1
Drained == activeConns = 0

StopDraining ==
    /\ Leaves("draining", "flushing", "stopped")
    /\ Drained \/ deadline = "over"
    /\ UNCHANGED <<input, cfg, connVars, ctx, deadline, statsBusy>>

\* the deferred shutdown of tracing, at most 5 seconds
Flush ==
    /\ Proceed("flushing", "exited")
    /\ UNCHANGED <<input, outcome, cfg, connVars, ctx, deadline, statsBusy>>

CtxExpires ==
    /\ ctx = "running"
    /\ phase # "exited"
    /\ ctx' = "over"
    /\ UNCHANGED <<input, phase, outcome, cfg, connVars, deadline, statsBusy>>

DeadlinePasses ==
    /\ deadline = "running"
    /\ phase = "draining"
    /\ deadline' = "over"
    /\ UNCHANGED <<input, phase, outcome, cfg, connVars, ctx, statsBusy>>

\* A client of the stats server; a client may take as long as it wants, since that
\* server has no timeouts.
StatsServing == phase \in {"listening", "serving", "stopping"} /\ cfg.statsPort = "colon"

StatsRequest ==
    /\ IF statsBusy THEN phase # "exited" ELSE StatsServing
    /\ statsBusy' = ~ statsBusy
    /\ UNCHANGED <<input, phase, outcome, cfg, connVars, ctx, deadline>>

-----------------------------------------------------------------------------
(* Connections *)

Moves(c, connection) == conns' = [conns EXCEPT ![c] = connection]

At(c, stage) == conns[c].stage = stage

\* mutant: a closed connection is counted on
Kept == activeConns
\* mutant: it is uncounted without a look at the counter, by two hooks
DecrementedTwice == activeConns - 2
\* the decrement never goes below zero
Decremented == IF activeConns > 0 THEN activeConns - 1 ELSE 0

\* In HTTP mode the hook counts before the connection has a goroutine of its own;
\* in TCP mode the goroutine counts.
Accept(c) ==
    /\ At(c, "absent")
    /\ accepting
    /\ ListenerOpen
    /\ \/ /\ cfg.mode = "http"
          /\ Moves(c, [Absent EXCEPT !.stage = "new"])
          /\ activeConns' = activeConns + 1
       \/ /\ cfg.mode = "tcp"
          /\ Moves(c, [Absent EXCEPT !.stage = "accepted"])
          /\ UNCHANGED activeConns
    /\ UNCHANGED <<input, phase, outcome, cfg, accepting, ctx, deadline, statsBusy>>

\* a step of the goroutine of a connection that leaves the counter alone
Serves(c, connection) ==
    /\ phase # "exited"
    /\ Moves(c, connection)
    /\ UNCHANGED <<input, phase, outcome, cfg, accepting, activeConns, ctx, deadline, statsBusy>>

Stage(c, stage) == [conns[c] EXCEPT !.stage = stage]

\* the goroutine of an HTTP connection reads a request
ReadRequest(c) ==
    /\ conns[c].stage \in {"new", "idle"}
    /\ Serves(c, Stage(c, "active"))

\* ... answers it, and keeps the connection unless keep-alives are off by now
Answer(c) ==
    /\ At(c, "active")
    /\ Serves(c, Stage(c, IF phase = "serving" THEN "idle" ELSE "closing"))

\* the client goes, a timeout closes the connection, or Shutdown closes it while idle
CloseHTTP(c) ==
    /\ conns[c].stage \in {"new", "active", "idle"}
    /\ Serves(c, Stage(c, "closing"))

\* the deferred decrement of a TCP connection, and the hook's for StateClosed
Uncount(c) ==
    /\ At(c, "closing")
    /\ phase # "exited"
    /\ Moves(c, [Absent EXCEPT !.stage = "gone"])
    /\ activeConns' = Decremented
    /\ UNCHANGED <<input, phase, outcome, cfg, accepting, ctx, deadline, statsBusy>>

\* handleTCPProxyConnection counts itself
Count(c) ==
    /\ At(c, "accepted")
    /\ phase # "exited"
    /\ Moves(c, Stage(c, "dialing"))
    /\ activeConns' = activeConns + 1
    /\ UNCHANGED <<input, phase, outcome, cfg, accepting, ctx, deadline, statsBusy>>

Dial(c) ==
    /\ At(c, "dialing")
    /\ Serves(c, Stage(c, "relaying")) \/ Serves(c, Stage(c, "closing"))

\* an end of the connection has sent all it had, or breaks
ClientEnds(c, how) ==
    /\ At(c, "relaying")
    /\ conns[c].client = "open"
    /\ Serves(c, [conns[c] EXCEPT !.client = how])

ServerEnds(c, how) ==
    /\ At(c, "relaying")
    /\ conns[c].server = "open"
    /\ Serves(c, [conns[c] EXCEPT !.server = how])

\* io.Copy returns when its source ended or broke, or its sink broke; CloseWrite
\* then tells the sink
CopyUp(c) ==
    /\ At(c, "relaying")
    /\ conns[c].up = "copying"
    /\ conns[c].client # "open" \/ conns[c].server = "broken"
    /\ Serves(c, [conns[c] EXCEPT !.up = "done"])

CopyDown(c) ==
    /\ At(c, "relaying")
    /\ conns[c].down = "copying"
    /\ conns[c].server # "open" \/ conns[c].client = "broken"
    /\ Serves(c, [conns[c] EXCEPT !.down = "done"])

\* wg.Wait
\* mutant: the first of the two goroutines is enough
EitherCopied(c) == conns[c].up = "done" \/ conns[c].down = "done"
BothCopied(c) == conns[c].up = "done" /\ conns[c].down = "done"

EndRelay(c) ==
    /\ At(c, "relaying")
    /\ BothCopied(c)
    /\ Serves(c, Stage(c, "closing"))

\* What an end of the connection is told by CloseWrite.  With TLS the client is
\* not a *net.TCPConn, and is told nothing.
\* mutant: the client is never told
NeverTold(c) == FALSE
ClientTold(c) == conns[c].down = "done" /\ ~ cfg.tls
ServerTold(c) == conns[c].up = "done"

-----------------------------------------------------------------------------
(* The specification *)

Init ==
    /\ input \in Inputs
    /\ phase = "loading"
    /\ outcome = "none"
    /\ cfg = NoConfig
    /\ accepting = FALSE
    /\ conns = [c \in Conn |-> Absent]
    /\ activeConns = 0
    /\ ctx = "unset"
    /\ deadline = "unset"
    /\ statsBusy = FALSE

RunProxy ==
    \/ LoadConfig \/ SetupTracing \/ PingRedis \/ StartListener \/ Abort
    \/ Signal \/ StopServing \/ StopStats \/ StopDraining \/ Flush

Timers == CtxExpires \/ DeadlinePasses

Goroutine(c) ==
    \/ Answer(c) \/ Uncount(c) \/ Count(c) \/ Dial(c)
    \/ CopyUp(c) \/ CopyDown(c) \/ EndRelay(c)

Outside(c) ==
    \/ Accept(c)
    \/ ReadRequest(c)
    \/ CloseHTTP(c)
    \/ \E how \in {"ended", "broken"} : ClientEnds(c, how) \/ ServerEnds(c, how)

Next ==
    \/ RunProxy
    \/ Timers
    \/ AcceptFails
    \/ StatsRequest
    \/ \E c \in Conn : Goroutine(c) \/ Outside(c)

Spec == Init /\ [][Next]_processVars

\* what the goroutine of a connection does without waiting for a client or a
\* backend: io.Copy goes on reading when only its sink is broken
Owed(c) ==
    \/ Uncount(c) \/ Count(c) \/ Dial(c) \/ EndRelay(c)
    \/ CopyUp(c) /\ conns[c].client # "open"
    \/ CopyDown(c) /\ conns[c].server # "open"

\* runProxy, its timers, the accept loop and these goroutines run on; the signal,
\* clients, backends and handlers are free to do nothing
Runs ==
    /\ WF_processVars(StopServing)
    /\ WF_processVars(StopStats)
    /\ WF_processVars(StopDraining)
    /\ WF_processVars(Flush)
    /\ WF_processVars(CtxExpires)
    /\ WF_processVars(DeadlinePasses)
    /\ WF_processVars(AcceptFails /\ ~ ListenerOpen)
    /\ \A c \in Conn : WF_processVars(Owed(c))

\* an end that is told that the other has nothing more to send finishes too
Polite ==
    \A c \in Conn :
        /\ WF_processVars(ClientTold(c) /\ ClientEnds(c, "ended"))
        /\ WF_processVars(ServerTold(c) /\ ServerEnds(c, "ended"))

FairSpec == Spec /\ Runs /\ Polite

-----------------------------------------------------------------------------
(* Properties of configurations *)

\* cfg has just been accepted; it stays as it is
Loaded == phase = "tracing"

\* An accepted configuration gives both limiters numbers they can work with, in the
\* base and in every policy: a burst of less than one request would refuse all, a
\* rate of zero never refill, a limit of zero block everybody.  Validate does not
\* look at the numbers of policies (config.go:171-297, 443-496).
AcceptedSound ==
    Loaded =>
        /\ SoundRate(cfg.rate)
        /\ \A i \in DOMAIN cfg.policies : SoundRate(cfg.policies[i].rate)

\* A request under a policy meets the numbers that the file gives this policy, and
\* the base's for those it does not give, also where the environment changed
\* the base: defaults and overrides are applied up to three times, the last time for
\* each request, and never hide an inherited number (config.go:443-452, main.go:1261-1281).
PoliciesInherit ==
    Loaded =>
        \A q \in Requests, i \in DOMAIN cfg.policies :
            FirstPolicy(i, cfg, q) =>
                \A limits \in Resolved(cfg, q) :
                    LET own == input.file.settings.policies[i].rate
                    IN  \A n \in Numbers :
                            LET meant == IF own[n] > 0 THEN own[n] ELSE cfg.rate[n]
                            IN  limits.rate[n] = IF n = "burst" THEN AtLeast(Scale, meant) ELSE meant

\* Requests that share a bucket are held to the same limits, unless a policy took
\* the name "default" of the base limits (rate_limiter.go:218, main.go:1263).
BucketsApart ==
    Loaded =>
        \A q, r \in Requests :
            (BucketOf(cfg, q) = BucketOf(cfg, r)
                /\ \A i \in DOMAIN cfg.policies : cfg.policies[i].name # "default")
            => Resolved(cfg, q) = Resolved(cfg, r)

-----------------------------------------------------------------------------
(* Properties of the process *)

\* The counter is the number of the connections that were counted and not yet
\* uncounted: the guard against going below zero never hides an error
\* (main.go:306-317, 337-347).
CountExact == activeConns = Cardinality({c \in Conn : conns[c].stage \in Counted})

\* The drain ends before its time only when no connection is left, save a TCP
\* connection that was accepted and has not counted itself (main.go:258-270, 338-341).
DrainComplete ==
    [][(phase = "draining" /\ phase' # "draining" /\ deadline # "over")
         => \A c \in Conn :
               \/ conns[c].stage \in {"absent", "gone"}
               \/ cfg.mode = "tcp" /\ At(c, "accepted")]_processVars

\* A relayed connection is taken down only when each end has sent all it had, or
\* one of them broke: a half-closed connection keeps its other half
\* (main.go:354-371).
RelayComplete ==
    [][\A c \in Conn :
          (At(c, "relaying") /\ conns'[c].stage # "relaying") =>
              \/ conns[c].client = "ended" /\ conns[c].server = "ended"
              \/ "broken" \in {conns[c].client, conns[c].server}]_processVars

\* After the signal the program ends, whatever clients of either server do.
ShutdownEnds == (phase = "stopping") ~> (phase = "exited")

\* The end of one side of a relayed connection takes the connection down, and with
\* it its count, provided each side answers an end it is told of with its own, and
\* the client's side is not TLS, where it is not told (main.go:359-369).
RelayEnds ==
    \A c \in Conn :
        (At(c, "relaying") /\ {conns[c].client, conns[c].server} # {"open"} /\ ~ cfg.tls)
            ~> (At(c, "gone") \/ phase = "exited")
=============================================================================
