--------------------------- MODULE Lifecycle_proofs ---------------------------
(***************************************************************************)
(* What loading makes of every file and environment, and what the counter  *)
(* and the relays of Lifecycle keep for any number of connections.         *)
(***************************************************************************)
EXTENDS Lifecycle, Configuration_proofs, FiniteSetTheorems

-----------------------------------------------------------------------------
(* Loading *)

\* a configuration whose numbers can be filled up
Sane(c) ==
    /\ {"rate", "policies", "header", "mode"} \subseteq DOMAIN c
    /\ c.rate \in Rate
    /\ \A k \in DOMAIN c.policies :
          "rate" \in DOMAIN c.policies[k] /\ c.policies[k].rate \in Rate

\* rates and policies of d are those of c after applyRateLimitDefaults
FilledUp(d, c) ==
    /\ Full(d.rate)
    /\ DOMAIN d.policies = DOMAIN c.policies
    /\ \A k \in DOMAIN c.policies : d.policies[k].rate = Meant(d.rate, c.policies[k].rate)

\* Numbers written over a rate leave a rate.
LEMMA OverRate ==
    ASSUME NEW f, \A n \in DOMAIN f : f[n] \in Int, NEW rate \in Rate
    PROVE  Over(f, rate) \in Rate
BY DEF Over, Rate

\* applyRateLimitDefaults makes every rate full, and each policy what it means.
LEMMA DefaultsFillUp ==
    ASSUME NEW c, Sane(c)
    PROVE  /\ Sane(WithDefaults(c))
           /\ FilledUp(WithDefaults(c), c)
<1> DEFINE d == WithDefaults(c)
<1>1. c.rate \in Rate /\ Full(Filled(c.rate))
    BY FilledIsFull DEF Sane
<1>2. /\ DOMAIN d = DOMAIN c
      /\ d.rate = Filled(c.rate)
      /\ d.policies = [k \in DOMAIN c.policies |->
                          [c.policies[k] EXCEPT !.rate = PolicyFilled(c, c.policies[k])]]
    BY DEF Sane, WithDefaults
<1>3. ASSUME NEW k \in DOMAIN c.policies
      PROVE  /\ d.policies[k].rate = Meant(Filled(c.rate), c.policies[k].rate)
             /\ Full(d.policies[k].rate)
             /\ "rate" \in DOMAIN d.policies[k]
    <2>1. "rate" \in DOMAIN c.policies[k] /\ c.policies[k].rate \in Rate
        BY DEF Sane
    <2>2. d.policies[k] = [c.policies[k] EXCEPT !.rate = PolicyFilled(c, c.policies[k])]
        BY <1>2
    <2>3. d.policies[k].rate = PolicyFilled(c, c.policies[k]) /\ "rate" \in DOMAIN d.policies[k]
        BY <2>1, <2>2
    <2>4. /\ PolicyFilled(c, c.policies[k]) = Meant(Filled(c.rate), c.policies[k].rate)
          /\ Full(PolicyFilled(c, c.policies[k]))
        BY <1>1, <2>1, OverrideMeans DEF PolicyFilled
    <2> QED
        BY <2>3, <2>4
<1>4. DOMAIN d.policies = DOMAIN c.policies
    BY <1>2
<1>5. FilledUp(d, c)
    BY <1>1, <1>2, <1>3, <1>4 DEF FilledUp
<1>6. Sane(d)
    <2>1. {"rate", "policies", "header", "mode"} \subseteq DOMAIN d
        BY <1>2 DEF Sane
    <2> QED
        BY <1>1, <1>2, <1>3, <1>4, <2>1 DEF Sane, Full
<1> QED
    BY <1>5, <1>6

\* To fill up what is filled up already changes no rate.
LEMMA FilledUpTwice ==
    ASSUME NEW c, Sane(c), NEW d, Sane(d), FilledUp(d, c)
    PROVE  FilledUp(WithDefaults(d), c)
<1> DEFINE e == WithDefaults(d)
<1>1. FilledUp(e, d)
    BY DefaultsFillUp
<1>2. e.rate = d.rate
    <2>1. e.rate = Filled(d.rate)
        BY DEF WithDefaults, Sane
    <2> QED
        BY <2>1, FullIsFixed DEF FilledUp
<1>3. ASSUME NEW k \in DOMAIN c.policies
      PROVE  e.policies[k].rate = Meant(e.rate, c.policies[k].rate)
    <2>1. c.policies[k].rate \in Rate /\ Full(d.rate)
        BY DEF Sane, FilledUp
    <2>2. Meant(d.rate, Meant(d.rate, c.policies[k].rate)) = Meant(d.rate, c.policies[k].rate)
        BY <2>1, MeantAgain
    <2>3. e.policies[k].rate = Meant(e.rate, d.policies[k].rate)
        BY <1>1 DEF FilledUp
    <2>4. d.policies[k].rate = Meant(d.rate, c.policies[k].rate)
        BY DEF FilledUp
    <2> QED
        BY <1>2, <2>2, <2>3, <2>4
<1> QED
    BY <1>1, <1>2, <1>3 DEF FilledUp

\* The defaults are rates.
LEMMA DefaultSane == Sane(Default)
<1>1. Scale \in Nat
    BY ConfigurationAssumption
<1>2. DefaultRate = [n \in Numbers |-> DefaultRate[n]]
    BY DEF DefaultRate, Numbers
<1>3. \A n \in Numbers : DefaultRate[n] \in Int
    BY <1>1 DEF DefaultRate, Numbers
<1>4. DefaultRate \in Rate
    BY <1>2, <1>3 DEF Rate
<1> QED
    BY <1>4 DEF Sane, Default

\* What the decoder leaves has rates, and the policies of the file.
LEMMA DecodedSane ==
    ASSUME NEW i \in Inputs
    PROVE  /\ Sane(Decoded(i.file))
           /\ \A k \in DOMAIN Decoded(i.file).policies :
                 /\ k \in Nat \ {0}
                 /\ Decoded(i.file).policies[k] = i.file.settings.policies[k]
<1> DEFINE s == i.file.settings
           o == Over(s, Default)
           d == Decoded(i.file)
<1>1. /\ \A n \in DOMAIN i.file.rate : i.file.rate[n] \in Int
      /\ "rate" \notin DOMAIN s
      /\ "policies" \in DOMAIN s =>
            \A k \in DOMAIN s.policies :
                k \in Nat \ {0} /\ "rate" \in DOMAIN s.policies[k] /\ s.policies[k].rate \in Rate
    BY InputAssumption
<1>2. /\ DOMAIN o = DOMAIN Default
      /\ o.rate = Default.rate
      /\ o.policies = IF "policies" \in DOMAIN s THEN s.policies ELSE <<>>
    <2>1. {"rate", "policies"} \subseteq DOMAIN Default /\ Default.policies = <<>>
        BY DEF Default
    <2> QED
        BY <1>1, <2>1 DEF Over
<1>3. /\ DOMAIN d = DOMAIN Default
      /\ d.rate = Over(i.file.rate, Default.rate)
      /\ d.policies = o.policies
    <2>1. {"rate", "policies"} \subseteq DOMAIN Default
        BY DEF Default
    <2>2. d = [o EXCEPT !.rate = Over(i.file.rate, o.rate)]
        BY DEF Decoded
    <2> HIDE DEF d, o
    <2> QED
        BY <1>2, <2>1, <2>2
<1>4. d.rate \in Rate
    BY <1>1, <1>3, DefaultSane, OverRate DEF Sane
<1> HIDE DEF d, o
<1>5. \A k \in DOMAIN d.policies : /\ "policies" \in DOMAIN s
                                   /\ d.policies[k] = s.policies[k]
                                   /\ k \in DOMAIN s.policies
    BY <1>2, <1>3
<1>6. Sane(d)
    <2>1. {"rate", "policies", "header", "mode"} \subseteq DOMAIN d
        BY <1>3, DefaultSane DEF Sane
    <2> QED
        BY <1>1, <1>4, <1>5, <2>1 DEF Sane
<1> QED
    BY <1>1, <1>5, <1>6 DEF d

\* The environment changes the base only; its defaults fill up the policies.
LEMMA OverriddenFilledUp ==
    ASSUME NEW i \in Inputs, NEW c, Sane(c)
    PROVE  /\ Sane(Overridden(c, i.env))
           /\ FilledUp(Overridden(c, i.env), c)
<1> DEFINE set == DOMAIN i.env.settings
           r == Over(i.env.settings, c)
           e == [r EXCEPT
                   !.port = IF "port" \in set THEN NormalPort(@) ELSE @,
                   !.statsPort = IF "statsPort" \in set THEN NormalPort(@) ELSE @,
                   !.auth = @ \/ "pass" \in set,
                   !.rate = Over(i.env.rate, @),
                   !.tracing = @ \/ "endpoint" \in set \/ "ratio" \in set,
                   !.tls = @ \/ (r.cert # "" /\ r.certKey # "")]
<1>1. /\ \A n \in DOMAIN i.env.rate : i.env.rate[n] \in Int
      /\ "rate" \notin set /\ "policies" \notin set
    BY InputAssumption
<1>2. DOMAIN r = DOMAIN c /\ r.rate = c.rate /\ r.policies = c.policies
    BY <1>1 DEF Over, Sane
<1>3. Overridden(c, i.env) = WithDefaults(e)
    BY DEF Overridden
<1>4. /\ DOMAIN e = DOMAIN c
      /\ e.rate = Over(i.env.rate, c.rate)
      /\ e.policies = c.policies
    <2> HIDE DEF r, set
    <2> QED
        BY <1>2 DEF Sane
<1> HIDE DEF e
<1>5. e.rate \in Rate
    BY <1>1, <1>4, OverRate DEF Sane
<1>6. Sane(e)
    BY <1>4, <1>5 DEF Sane
<1>7. Sane(WithDefaults(e)) /\ FilledUp(WithDefaults(e), e)
    BY <1>6, DefaultsFillUp
<1> QED
    BY <1>3, <1>4, <1>7 DEF FilledUp

\* Whatever the file and the environment set, all rates of a configuration are full
\* and its policies have the numbers that the file gives them, or the base's.
LEMMA CandidateMeans ==
    ASSUME NEW i \in Inputs
    PROVE  LET c == Candidate(i.file, i.env)
           IN  /\ Full(c.rate)
               /\ \A k \in DOMAIN c.policies :
                     /\ k \in Nat \ {0}
                     /\ i.file.settings.policies[k].rate \in Rate
                     /\ c.policies[k].rate = Meant(c.rate, i.file.settings.policies[k].rate)
<1> DEFINE c == Candidate(i.file, i.env)
<1>1. CASE i.file.exists
    <2> DEFINE a == Decoded(i.file)
               b == Overridden(a, i.env)
               d == WithDefaults(b)
    <2>1. /\ Sane(a)
          /\ \A k \in DOMAIN a.policies :
                k \in Nat \ {0} /\ a.policies[k] = i.file.settings.policies[k]
        BY DecodedSane
    <2> HIDE DEF a
    <2>2. Sane(b) /\ FilledUp(b, a)
        BY <2>1, OverriddenFilledUp
    <2> HIDE DEF b
    <2>3. Sane(d) /\ FilledUp(d, a)
        BY <2>1, <2>2, DefaultsFillUp, FilledUpTwice
    <2> HIDE DEF d
    <2>4. c = Prepared(d)
        BY <1>1 DEF Candidate, a, b, d
    <2>5. c.rate = d.rate /\ c.policies = d.policies
        BY <2>3, <2>4 DEF Prepared, Sane
    <2> HIDE DEF c
    <2> QED
        BY <2>1, <2>3, <2>5 DEF FilledUp, Sane, c
<1>2. CASE ~ i.file.exists
    <2> DEFINE b == Overridden(Default, i.env)
    <2>1. Sane(b) /\ FilledUp(b, Default)
        BY DefaultSane, OverriddenFilledUp
    <2> HIDE DEF b
    <2>2. c = Prepared(b)
        BY <1>2 DEF Candidate, b
    <2>3. c.rate = b.rate /\ c.policies = b.policies
        BY <2>1, <2>2 DEF Prepared, Sane
    <2>4. DOMAIN b.policies = {}
        BY <2>1 DEF FilledUp, Default
    <2> HIDE DEF c
    <2> QED
        BY <2>1, <2>3, <2>4 DEF FilledUp, c
<1> QED
    BY <1>1, <1>2

-----------------------------------------------------------------------------
(* The inductive invariant *)

\* the connections that are counted
CountedConns == {c \in Conn : conns[c].stage \in Counted}

\* cfg is what loading accepted, and nothing is connected before it did
LoadedFrom ==
    /\ input \in Inputs
    /\ phase = "tracing" =>
          /\ cfg = Candidate(input.file, input.env)
          /\ Valid(cfg, input.inproc)
    /\ phase = "loading" => \A c \in Conn : At(c, "absent")

\* only TCP connections wait to be counted
WaitsInTCP == \A c \in Conn : At(c, "accepted") => cfg.mode = "tcp"

\* a direction is done when its source ended or one end broke
CopiedForAReason ==
    \A c \in Conn :
        /\ conns[c].up = "done" => conns[c].client # "open" \/ conns[c].server = "broken"
        /\ conns[c].down = "done" => conns[c].server # "open" \/ conns[c].client = "broken"

IInv ==
    /\ LifecycleTypeOK
    /\ LoadedFrom
    /\ WaitsInTCP
    /\ CopiedForAReason
    /\ CountExact

LEMMA CountedFinite ==
    IsFiniteSet(CountedConns) /\ Cardinality(CountedConns) \in Nat
<1>1. CountedConns \in SUBSET Conn
    BY DEF CountedConns
<1> QED
    BY <1>1, ConnsFinite, FS_Subset, FS_CardinalityType

\* One connection more among the counted is counted up.
LEMMA CountedUp ==
    ASSUME CountExact, NEW c \in Conn, NEW new,
           conns' = [conns EXCEPT ![c] = new],
           DOMAIN conns = Conn,
           conns[c].stage \notin Counted, new.stage \in Counted,
           activeConns' = activeConns + 1
    PROVE  CountExact'
<1>1. CountedConns' = CountedConns \cup {c} /\ c \notin CountedConns
    BY DEF CountedConns
<1>2. Cardinality(CountedConns') = Cardinality(CountedConns) + 1
    BY <1>1, CountedFinite, FS_AddElement
<1> QED
    BY <1>2 DEF CountExact, CountedConns

\* One less is counted down: the counter is not zero then.
LEMMA CountedDown ==
    ASSUME CountExact, NEW c \in Conn, NEW new,
           conns' = [conns EXCEPT ![c] = new],
           DOMAIN conns = Conn,
           conns[c].stage \in Counted, new.stage \notin Counted,
           activeConns' = Decremented
    PROVE  CountExact'
<1>1. CountedConns' = CountedConns \ {c} /\ c \in CountedConns
    BY DEF CountedConns
<1>2. Cardinality(CountedConns') = Cardinality(CountedConns) - 1
    BY <1>1, CountedFinite, FS_RemoveElement
<1>3. Cardinality(CountedConns) > 0
    BY <1>1, CountedFinite, FS_EmptySet
<1>4. activeConns = Cardinality(CountedConns)
    BY DEF CountExact, CountedConns
<1>5. activeConns' = Cardinality(CountedConns')
    BY <1>2, <1>3, <1>4, CountedFinite DEF Decremented
<1> QED
    BY <1>5 DEF CountExact, CountedConns

\* Any other change of one connection leaves the count.
LEMMA CountedAsBefore ==
    ASSUME CountExact, NEW c \in Conn, NEW new,
           conns' = [conns EXCEPT ![c] = new],
           DOMAIN conns = Conn,
           conns[c].stage \in Counted <=> new.stage \in Counted,
           activeConns' = activeConns
    PROVE  CountExact'
<1>1. CountedConns' = CountedConns
    BY DEF CountedConns
<1> QED
    BY <1>1 DEF CountExact, CountedConns

-----------------------------------------------------------------------------
(* Steps *)

LEMMA InitSound == Init => IInv
<1> SUFFICES ASSUME Init PROVE IInv
    OBVIOUS
<1>1. LifecycleTypeOK
    BY DEF Init, LifecycleTypeOK, Phases, Outcomes, NoConfig, Default, Connection, Absent,
           ConnStages, Ends, Limit
<1>2. LoadedFrom /\ WaitsInTCP /\ CopiedForAReason
    BY DEF Init, LoadedFrom, WaitsInTCP, CopiedForAReason, At, Absent
<1>3. CountExact
    <2>1. CountedConns = {}
        BY DEF Init, CountedConns, Counted, Absent
    <2> QED
        BY <2>1, FS_EmptySet DEF Init, CountExact, CountedConns
<1> QED
    BY <1>1, <1>2, <1>3 DEF IInv

\* The connections and the counter stay, and so does the configuration.
QuietStep ==
    /\ UNCHANGED <<input, cfg, conns, activeConns>>
    /\ phase' \notin {"loading", "tracing"} \/ phase' = phase

LEMMA QuietSound ==
    ASSUME IInv, QuietStep, LifecycleTypeOK'
    PROVE  IInv'
<1>1. LoadedFrom'
    BY DEF IInv, LoadedFrom, QuietStep, At
<1>2. WaitsInTCP' /\ CopiedForAReason'
    BY DEF IInv, WaitsInTCP, CopiedForAReason, QuietStep, At
<1>3. CountExact'
    BY DEF IInv, CountExact, QuietStep
<1> QED
    BY <1>1, <1>2, <1>3 DEF IInv

LEMMA LoadSound ==
    ASSUME IInv, LoadConfig
    PROVE  IInv'
<1> DEFINE c == Candidate(input.file, input.env)
<1>1. /\ phase = "loading"
      /\ UNCHANGED <<input, conns, activeConns, accepting, ctx, deadline, statsBusy>>
      /\ \/ Valid(c, input.inproc) /\ cfg' = c /\ phase' = "tracing" /\ outcome' = outcome
         \/ phase' = "exited" /\ cfg' = cfg /\ outcome' = "config"
    BY DEF LoadConfig, Proceed, Leaves, connVars
<1> HIDE DEF c
<1>2. cfg'.mode \in {"http", "tcp"}
    <2>1. Valid(c, input.inproc) => c.mode \in {"http", "tcp"}
        BY DEF Valid
    <2> QED
        BY <1>1, <2>1 DEF IInv, LifecycleTypeOK
<1>3. LifecycleTypeOK'
    <2>1. phase' \in Phases /\ outcome' \in Outcomes
        BY <1>1 DEF IInv, LifecycleTypeOK, Phases, Outcomes
    <2> QED
        BY <1>1, <1>2, <2>1 DEF IInv, LifecycleTypeOK
<1>4. LoadedFrom'
    BY <1>1 DEF IInv, LoadedFrom, c
<1>5. WaitsInTCP' /\ CopiedForAReason'
    BY <1>1 DEF IInv, LoadedFrom, WaitsInTCP, CopiedForAReason, At
<1>6. CountExact'
    BY <1>1 DEF IInv, CountExact
<1> QED
    BY <1>3, <1>4, <1>5, <1>6 DEF IInv

\* runProxy, its timers, the accept loop and the stats server leave connections alone.
LEMMA ProcessSound ==
    ASSUME IInv, RunProxy \/ Timers \/ AcceptFails \/ StatsRequest
    PROVE  IInv'
<1> USE DEF connVars
<1> DEFINE Sound == QuietStep /\ LifecycleTypeOK'
<1>1. CASE LoadConfig
    BY <1>1, LoadSound
<1>2. ASSUME SetupTracing PROVE Sound
    BY <1>2 DEF SetupTracing, Proceed, Leaves, QuietStep, IInv, LifecycleTypeOK, Phases, Outcomes
<1>3. ASSUME PingRedis PROVE Sound
    BY <1>3 DEF PingRedis, Proceed, Leaves, QuietStep, IInv, LifecycleTypeOK, Phases, Outcomes
<1>4. ASSUME StartListener PROVE Sound
    BY <1>4 DEF StartListener, Proceed, Leaves, QuietStep, IInv, LifecycleTypeOK, Phases, Outcomes
<1>5. ASSUME Abort PROVE Sound
    BY <1>5 DEF Abort, Proceed, QuietStep, IInv, LifecycleTypeOK, Phases
<1>6. ASSUME Signal PROVE Sound
    BY <1>6 DEF Signal, Proceed, QuietStep, IInv, LifecycleTypeOK, Phases, Limit
<1>7. ASSUME StopServing PROVE Sound
    BY <1>7 DEF StopServing, Proceed, QuietStep, IInv, LifecycleTypeOK, Phases
<1>8. ASSUME StopStats PROVE Sound
    BY <1>8 DEF StopStats, Proceed, QuietStep, IInv, LifecycleTypeOK, Phases, Limit
<1>9. ASSUME StopDraining PROVE Sound
    BY <1>9 DEF StopDraining, Proceed, Leaves, QuietStep, IInv, LifecycleTypeOK, Phases, Outcomes
<1>10. ASSUME Flush PROVE Sound
    BY <1>10 DEF Flush, Proceed, QuietStep, IInv, LifecycleTypeOK, Phases
<1>11. ASSUME CtxExpires PROVE Sound
    BY <1>11 DEF CtxExpires, QuietStep, IInv, LifecycleTypeOK, Limit
<1>12. ASSUME DeadlinePasses PROVE Sound
    BY <1>12 DEF DeadlinePasses, QuietStep, IInv, LifecycleTypeOK, Limit
<1>13. ASSUME AcceptFails PROVE Sound
    BY <1>13 DEF AcceptFails, QuietStep, IInv, LifecycleTypeOK
<1>14. ASSUME StatsRequest PROVE Sound
    BY <1>14 DEF StatsRequest, QuietStep, IInv, LifecycleTypeOK
<1>15. LoadConfig \/ Sound
    BY <1>2, <1>3, <1>4, <1>5, <1>6, <1>7, <1>8, <1>9, <1>10, <1>11, <1>12, <1>13, <1>14
       DEF RunProxy, Timers
<1> QED
    BY <1>1, <1>15, QuietSound

\* One connection changes to new, and what it needs to be sound.
ConnectionStep(c, new) ==
    /\ UNCHANGED <<input, phase, outcome, cfg, accepting, ctx, deadline, statsBusy>>
    /\ phase # "loading"
    /\ conns' = [conns EXCEPT ![c] = new]
    /\ new \in Connection
    /\ new.stage = "accepted" => cfg.mode = "tcp"
    /\ new.up = "done" => new.client # "open" \/ new.server = "broken"
    /\ new.down = "done" => new.server # "open" \/ new.client = "broken"

LEMMA ConnectionSound ==
    ASSUME IInv, NEW c \in Conn, NEW new, ConnectionStep(c, new),
           activeConns' \in Nat, CountExact'
    PROVE  IInv'
<1>1. DOMAIN conns = Conn /\ conns \in [Conn -> Connection]
    BY DEF IInv, LifecycleTypeOK
<1>2. conns'[c] = new /\ \A d \in Conn \ {c} : conns'[d] = conns[d]
    BY <1>1 DEF ConnectionStep
<1>3. LifecycleTypeOK'
    BY <1>1 DEF IInv, LifecycleTypeOK, ConnectionStep
<1>4. LoadedFrom'
    BY DEF IInv, LoadedFrom, ConnectionStep
<1>5. WaitsInTCP'
    BY <1>2 DEF IInv, WaitsInTCP, ConnectionStep, At
<1>6. CopiedForAReason'
    BY <1>2 DEF IInv, CopiedForAReason, ConnectionStep
<1> QED
    BY <1>3, <1>4, <1>5, <1>6 DEF IInv

\* What a step of a connection's goroutine or client does.
LEMMA AnyConnectionSound ==
    ASSUME IInv, NEW c \in Conn, Goroutine(c) \/ Outside(c)
    PROVE  IInv'
<1> DEFINE same == [conns[c] EXCEPT !.stage = "closing"]
<1>1. /\ conns[c] \in Connection /\ DOMAIN conns = Conn /\ activeConns \in Nat /\ CountExact
      /\ conns[c].stage = "accepted" => cfg.mode = "tcp"
      /\ conns[c].up = "done" => conns[c].client # "open" \/ conns[c].server = "broken"
      /\ conns[c].down = "done" => conns[c].server # "open" \/ conns[c].client = "broken"
    BY DEF IInv, LifecycleTypeOK, WaitsInTCP, CopiedForAReason, At
<1>2. ~ At(c, "absent") => phase # "loading"
    BY DEF IInv, LoadedFrom
<1>3. ASSUME NEW new, Serves(c, new), new \in Connection,
             conns[c].stage \in Counted, new.stage \in Counted,
             new.up = "done" => new.client # "open" \/ new.server = "broken",
             new.down = "done" => new.server # "open" \/ new.client = "broken"
      PROVE  IInv'
    <2>1. ConnectionStep(c, new)
        BY <1>2, <1>3 DEF ConnectionStep, Serves, Moves, At, Counted
    <2>2. activeConns' = activeConns
        BY <1>3 DEF Serves
    <2>3. CountExact'
        BY <1>1, <1>3, <2>2, CountedAsBefore DEF Serves, Moves
    <2> QED
        BY <1>1, <2>1, <2>2, <2>3, ConnectionSound
<1>4. ASSUME NEW stage \in {"active", "idle", "closing", "relaying"}, Serves(c, Stage(c, stage)),
             conns[c].stage \in Counted
      PROVE  IInv'
    <2> DEFINE new == Stage(c, stage)
    <2>1. /\ new \in Connection /\ new.stage = stage
          /\ new.client = conns[c].client /\ new.server = conns[c].server
          /\ new.up = conns[c].up /\ new.down = conns[c].down
        BY <1>1 DEF Stage, Connection, ConnStages
    <2>2. new.stage \in Counted
        BY <2>1 DEF Counted
    <2> HIDE DEF new
    <2>3. Serves(c, new)
        BY <1>4 DEF new
    <2> QED
        BY <1>1, <1>3, <1>4, <2>1, <2>2, <2>3
<1>5. CASE Accept(c)
    <2>1. PICK new \in {[Absent EXCEPT !.stage = "new"], [Absent EXCEPT !.stage = "accepted"]} :
             /\ conns' = [conns EXCEPT ![c] = new]
             /\ \/ new.stage = "new" /\ activeConns' = activeConns + 1
                \/ new.stage = "accepted" /\ cfg.mode = "tcp" /\ activeConns' = activeConns
        BY <1>5 DEF Accept, Moves, Absent
    <2>2. /\ new \in Connection
          /\ new.up = "copying" /\ new.down = "copying"
        BY <2>1 DEF Connection, Absent, ConnStages, Ends
    <2>3. /\ UNCHANGED <<input, phase, outcome, cfg, accepting, ctx, deadline, statsBusy>>
          /\ phase # "loading"
          /\ conns[c].stage = "absent"
        BY <1>5 DEF Accept, ListenerOpen, At
    <2>4. ConnectionStep(c, new)
        BY <2>1, <2>2, <2>3 DEF ConnectionStep
    <2>5. CountExact'
        <3>1. CASE new.stage = "new"
            BY <1>1, <2>1, <2>3, <3>1, CountedUp DEF Counted
        <3>2. CASE new.stage = "accepted"
            BY <1>1, <2>1, <2>3, <3>2, CountedAsBefore DEF Counted
        <3> QED
            BY <2>1, <3>1, <3>2
    <2>6. activeConns' \in Nat
        BY <1>1, <2>1
    <2> QED
        BY <2>4, <2>5, <2>6, ConnectionSound
<1>6. CASE ReadRequest(c)
    BY <1>4, <1>6 DEF ReadRequest, Counted
<1>7. CASE Answer(c)
    <2>1. \/ Serves(c, Stage(c, "idle"))
          \/ Serves(c, Stage(c, "closing"))
        BY <1>7 DEF Answer
    <2>2. conns[c].stage \in Counted
        BY <1>7 DEF Answer, At, Counted
    <2> QED
        BY <1>4, <2>1, <2>2
<1>8. CASE CloseHTTP(c)
    BY <1>4, <1>8 DEF CloseHTTP, Counted
<1>9. CASE Uncount(c)
    <2> DEFINE new == [Absent EXCEPT !.stage = "gone"]
    <2>1. /\ UNCHANGED <<input, phase, outcome, cfg, accepting, ctx, deadline, statsBusy>>
          /\ conns' = [conns EXCEPT ![c] = new]
          /\ conns[c].stage = "closing"
          /\ activeConns' = Decremented
        BY <1>9 DEF Uncount, Moves, At
    <2>2. /\ new \in Connection /\ new.stage = "gone"
          /\ new.up = "copying" /\ new.down = "copying"
        BY DEF Connection, Absent, ConnStages, Ends
    <2> HIDE DEF new
    <2>3. ConnectionStep(c, new)
        BY <1>2, <2>1, <2>2 DEF ConnectionStep, At
    <2>4. CountExact'
        BY <1>1, <2>1, <2>2, CountedDown DEF Counted
    <2>5. activeConns' \in Nat
        BY <1>1, <2>1 DEF Decremented
    <2> QED
        BY <2>3, <2>4, <2>5, ConnectionSound
<1>10. CASE Count(c)
    <2> DEFINE new == Stage(c, "dialing")
    <2>1. /\ UNCHANGED <<input, phase, outcome, cfg, accepting, ctx, deadline, statsBusy>>
          /\ conns' = [conns EXCEPT ![c] = new]
          /\ conns[c].stage = "accepted"
          /\ activeConns' = activeConns + 1
        BY <1>10 DEF Count, Moves, At
    <2>2. /\ new \in Connection /\ new.stage = "dialing"
          /\ new.client = conns[c].client /\ new.server = conns[c].server
          /\ new.up = conns[c].up /\ new.down = conns[c].down
        BY <1>1 DEF Stage, Connection, ConnStages
    <2> HIDE DEF new
    <2>3. ConnectionStep(c, new)
        BY <1>1, <1>2, <2>1, <2>2 DEF ConnectionStep, At
    <2>4. CountExact'
        BY <1>1, <2>1, <2>2, CountedUp DEF Counted
    <2> QED
        BY <1>1, <2>1, <2>3, <2>4, ConnectionSound
<1>11. CASE Dial(c)
    BY <1>4, <1>11 DEF Dial, At, Counted
<1>12. ASSUME NEW how \in {"ended", "broken"}, ClientEnds(c, how) PROVE IInv'
    <2> DEFINE new == [conns[c] EXCEPT !.client = how]
    <2>1. /\ new \in Connection /\ new.stage = conns[c].stage
          /\ new.client = how /\ new.server = conns[c].server
          /\ new.up = conns[c].up /\ new.down = conns[c].down
        BY <1>1 DEF Connection, Ends
    <2> HIDE DEF new
    <2>2. Serves(c, new) /\ conns[c].stage \in Counted /\ conns[c].client = "open"
        BY <1>12 DEF ClientEnds, At, Counted, new
    <2> QED
        BY <1>1, <1>3, <2>1, <2>2
<1>13. ASSUME NEW how \in {"ended", "broken"}, ServerEnds(c, how) PROVE IInv'
    <2> DEFINE new == [conns[c] EXCEPT !.server = how]
    <2>1. /\ new \in Connection /\ new.stage = conns[c].stage
          /\ new.client = conns[c].client /\ new.server = how
          /\ new.up = conns[c].up /\ new.down = conns[c].down
        BY <1>1 DEF Connection, Ends
    <2> HIDE DEF new
    <2>2. Serves(c, new) /\ conns[c].stage \in Counted /\ conns[c].server = "open"
        BY <1>13 DEF ServerEnds, At, Counted, new
    <2> QED
        BY <1>1, <1>3, <2>1, <2>2
<1>14. CASE CopyUp(c)
    <2> DEFINE new == [conns[c] EXCEPT !.up = "done"]
    <2>1. /\ new \in Connection /\ new.stage = conns[c].stage
          /\ new.client = conns[c].client /\ new.server = conns[c].server
          /\ new.down = conns[c].down
        BY <1>1 DEF Connection
    <2> HIDE DEF new
    <2>2. /\ Serves(c, new) /\ conns[c].stage \in Counted
          /\ conns[c].client # "open" \/ conns[c].server = "broken"
        BY <1>14 DEF CopyUp, At, Counted, new
    <2> QED
        BY <1>1, <1>3, <2>1, <2>2
<1>15. CASE CopyDown(c)
    <2> DEFINE new == [conns[c] EXCEPT !.down = "done"]
    <2>1. /\ new \in Connection /\ new.stage = conns[c].stage
          /\ new.client = conns[c].client /\ new.server = conns[c].server
          /\ new.up = conns[c].up
        BY <1>1 DEF Connection
    <2> HIDE DEF new
    <2>2. /\ Serves(c, new) /\ conns[c].stage \in Counted
          /\ conns[c].server # "open" \/ conns[c].client = "broken"
        BY <1>15 DEF CopyDown, At, Counted, new
    <2> QED
        BY <1>1, <1>3, <2>1, <2>2
<1>16. CASE EndRelay(c)
    BY <1>4, <1>16 DEF EndRelay, At, Counted
<1> QED
    BY <1>5, <1>6, <1>7, <1>8, <1>9, <1>10, <1>11, <1>12, <1>13, <1>14, <1>15, <1>16
       DEF Goroutine, Outside

LEMMA StepSound == IInv /\ [Next]_processVars => IInv'
<1> SUFFICES ASSUME IInv, [Next]_processVars PROVE IInv'
    OBVIOUS
<1>1. CASE RunProxy \/ Timers \/ AcceptFails \/ StatsRequest
    BY <1>1, ProcessSound
<1>2. ASSUME NEW c \in Conn, Goroutine(c) \/ Outside(c) PROVE IInv'
    BY <1>2, AnyConnectionSound
<1>3. CASE UNCHANGED processVars
    <2>1. QuietStep /\ LifecycleTypeOK'
        BY <1>3 DEF QuietStep, processVars, IInv, LifecycleTypeOK
    <2> QED
        BY <2>1, QuietSound
<1> QED
    BY <1>1, <1>2, <1>3 DEF Next

LEMMA Inductive == Spec => []IInv
BY InitSound, StepSound, PTL DEF Spec

-----------------------------------------------------------------------------
(* Policies *)

\* At most one policy is the first that applies.
LEMMA OnlyOneFirst ==
    ASSUME NEW c, NEW q, NEW i \in Nat \ {0}, NEW j \in Nat \ {0},
           FirstPolicy(i, c, q), FirstPolicy(j, c, q)
    PROVE  i = j
<1>1. ~ i < j
    <2>1. i < j => i \in 1..(j - 1)
        OBVIOUS
    <2> QED
        BY <2>1 DEF FirstPolicy
<1>2. ~ j < i
    <2>1. j < i => j \in 1..(i - 1)
        OBVIOUS
    <2> QED
        BY <2>1 DEF FirstPolicy
<1> QED
    BY <1>1, <1>2

\* Of two requests whose buckets are the same one, the limits of the first are limits of
\* the second: names tell policies apart.
LEMMA SameBucketSameLimits ==
    ASSUME NEW c,
           \A i, j \in DOMAIN c.policies : c.policies[i].name = c.policies[j].name => i = j,
           \A i \in DOMAIN c.policies : c.policies[i].name # "default",
           NEW q, NEW r, BucketOf(c, q) = BucketOf(c, r)
    PROVE  Resolved(c, q) \subseteq Resolved(c, r)
<1> SUFFICES ASSUME NEW limits \in Resolved(c, q) PROVE limits \in Resolved(c, r)
    OBVIOUS
<1> DEFINE of(i) == [name |-> c.policies[i].name,
                     rate |-> Filled(Override(c.rate, c.policies[i].rate))]
<1>1. PICK other \in Resolved(c, r) : other.name = limits.name
    <2>1. <<limits.name, RequesterOf(c, q)>> \in BucketOf(c, r)
        BY DEF BucketOf
    <2> QED
        BY <2>1 DEF BucketOf
<1>2. CASE NoPolicy(c, q)
    <2>1. limits = [name |-> "default", rate |-> c.rate]
        BY <1>2 DEF Resolved
    <2>2. NoPolicy(c, r)
        <3>1. SUFFICES ASSUME ~ NoPolicy(c, r) PROVE FALSE
            OBVIOUS
        <3>2. PICK j \in DOMAIN c.policies : other = of(j)
            BY <3>1, <1>1 DEF Resolved
        <3> QED
            BY <1>1, <2>1, <3>2
    <2> QED
        BY <2>1, <2>2 DEF Resolved
<1>3. CASE ~ NoPolicy(c, q)
    <2>1. PICK i \in DOMAIN c.policies : limits = of(i)
        BY <1>3 DEF Resolved
    <2>2. ~ NoPolicy(c, r)
        <3>1. SUFFICES ASSUME NoPolicy(c, r) PROVE FALSE
            OBVIOUS
        <3>2. other = [name |-> "default", rate |-> c.rate]
            BY <3>1, <1>1 DEF Resolved
        <3> QED
            BY <1>1, <2>1, <3>2
    <2>3. PICK j \in DOMAIN c.policies : other = of(j)
        BY <1>1, <2>2 DEF Resolved
    <2>4. i = j
        BY <1>1, <2>1, <2>3
    <2> QED
        BY <2>1, <2>3, <2>4
<1> QED
    BY <1>2, <1>3

-----------------------------------------------------------------------------
(* The theorems *)

\* The process, its counter and its connections keep their types.
THEOREM TypeCorrect == Spec => []LifecycleTypeOK
<1>1. IInv => LifecycleTypeOK
    BY DEF IInv
<1> QED
    BY <1>1, Inductive, PTL

\* The counter is exact for any number of connections (main.go:306-317, 337-347).
THEOREM CountAlwaysExact == Spec => []CountExact
<1>1. IInv => CountExact
    BY DEF IInv
<1> QED
    BY <1>1, Inductive, PTL

\* Whatever file and environment, both limiters get numbers they can work with
\* (config.go:443-496).
THEOREM AcceptedAlwaysSound == Spec => []AcceptedSound
<1>1. IInv => AcceptedSound
    <2> SUFFICES ASSUME IInv, phase = "tracing"
                 PROVE  /\ SoundRate(cfg.rate)
                        /\ \A i \in DOMAIN cfg.policies : SoundRate(cfg.policies[i].rate)
        BY DEF AcceptedSound, Loaded
    <2>1. input \in Inputs /\ cfg = Candidate(input.file, input.env)
        BY DEF IInv, LoadedFrom
    <2>2. /\ Full(cfg.rate)
          /\ \A i \in DOMAIN cfg.policies :
                /\ input.file.settings.policies[i].rate \in Rate
                /\ cfg.policies[i].rate = Meant(cfg.rate, input.file.settings.policies[i].rate)
        BY <2>1, CandidateMeans
    <2>3. \A i \in DOMAIN cfg.policies : Full(cfg.policies[i].rate)
        BY <2>2, OverrideMeans
    <2> QED
        BY <2>2, <2>3, FullIsSound
<1> QED
    BY <1>1, Inductive, PTL

\* Whatever file, environment and request, a policy's limits are its own numbers or the
\* base's (config.go:443-452, main.go:1261-1281).
THEOREM PoliciesAlwaysInherit == Spec => []PoliciesInherit
<1>1. IInv => PoliciesInherit
    <2> SUFFICES ASSUME IInv, phase = "tracing",
                        NEW q \in Requests, NEW i \in DOMAIN cfg.policies, FirstPolicy(i, cfg, q),
                        NEW limits \in Resolved(cfg, q), NEW n \in Numbers
                 PROVE  limits.rate[n] = Meant(cfg.rate, input.file.settings.policies[i].rate)[n]
        BY DEF PoliciesInherit, Loaded, Meant
    <2> DEFINE own == input.file.settings.policies[i].rate
               rateOf(j) == Filled(Override(cfg.rate, cfg.policies[j].rate))
    <2>1. input \in Inputs /\ cfg = Candidate(input.file, input.env)
        BY DEF IInv, LoadedFrom
    <2>2. Full(cfg.rate) /\ own \in Rate /\ cfg.policies[i].rate = Meant(cfg.rate, own)
        BY <2>1, CandidateMeans
    <2>3. rateOf(i) = Meant(cfg.rate, own)
        <3>1. Full(Meant(cfg.rate, own))
            BY <2>2, OverrideMeans
        <3>2. Meant(cfg.rate, own) \in Rate
            BY <3>1 DEF Full
        <3>3. rateOf(i) = Meant(cfg.rate, Meant(cfg.rate, own))
            BY <2>2, <3>2, OverrideMeans
        <3> QED
            BY <2>2, <3>3, MeantAgain
    <2>4. ~ NoPolicy(cfg, q)
        BY DEF NoPolicy, FirstPolicy
    <2>5. PICK j \in DOMAIN cfg.policies : FirstPolicy(j, cfg, q) /\ limits.rate = rateOf(j)
        BY <2>4 DEF Resolved
    <2>6. i \in Nat \ {0} /\ j \in Nat \ {0}
        BY <2>1, CandidateMeans
    <2>7. i = j
        BY <2>6, OnlyOneFirst, <2>5
    <2> QED
        BY <2>3, <2>5, <2>7
<1> QED
    BY <1>1, Inductive, PTL

\* Whatever is configured, one bucket never serves two sets of limits, unless a policy
\* is called "default" (rate_limiter.go:218, main.go:1263).
THEOREM BucketsAlwaysApart == Spec => []BucketsApart
<1>1. IInv => BucketsApart
    <2> SUFFICES ASSUME IInv, phase = "tracing", NEW q \in Requests, NEW r \in Requests,
                        BucketOf(cfg, q) = BucketOf(cfg, r),
                        \A i \in DOMAIN cfg.policies : cfg.policies[i].name # "default"
                 PROVE  Resolved(cfg, q) = Resolved(cfg, r)
        BY DEF BucketsApart, Loaded
    <2>1. \A i, j \in DOMAIN cfg.policies : cfg.policies[i].name = cfg.policies[j].name => i = j
        BY DEF IInv, LoadedFrom, Valid
    <2>2. /\ Resolved(cfg, q) \subseteq Resolved(cfg, r)
          /\ Resolved(cfg, r) \subseteq Resolved(cfg, q)
        BY <2>1, SameBucketSameLimits
    <2> QED
        BY <2>2
<1> QED
    BY <1>1, Inductive, PTL

\* For any number of connections, a drain that ends in time has waited for every
\* connection but TCP connections not yet counted (main.go:258-270).
THEOREM DrainAlwaysComplete == Spec => DrainComplete
<1> DEFINE Left(c) == \/ conns[c].stage \in {"absent", "gone"}
                      \/ cfg.mode = "tcp" /\ At(c, "accepted")
           Step == (phase = "draining" /\ phase' # "draining" /\ deadline # "over")
                       => \A c \in Conn : Left(c)
<1>1. IInv /\ [Next]_processVars => [Step]_processVars
    <2> SUFFICES ASSUME IInv, Next, phase = "draining", phase' # "draining", deadline # "over",
                        NEW c \in Conn
                 PROVE  Left(c)
        OBVIOUS
    <2>1. activeConns = 0
        <3>1. ASSUME Timers \/ AcceptFails \/ StatsRequest PROVE phase' = phase
            BY <3>1 DEF Timers, CtxExpires, DeadlinePasses, AcceptFails, StatsRequest
        <3>2. ASSUME NEW d \in Conn, Goroutine(d) \/ Outside(d) PROVE phase' = phase
            BY <3>2 DEF Goroutine, Outside, Answer, Uncount, Count, Dial, CopyUp, CopyDown,
                        EndRelay, Accept, ReadRequest, CloseHTTP, ClientEnds, ServerEnds, Serves
        <3>3. RunProxy
            BY <3>1, <3>2 DEF Next
        <3>4. StopDraining
            BY <3>3 DEF RunProxy, LoadConfig, SetupTracing, PingRedis, StartListener, Abort,
                        Signal, StopServing, StopStats, Flush, Proceed, Leaves
        <3> QED
            BY <3>4 DEF StopDraining, Drained
    <2>2. CountedConns = {}
        BY <2>1, CountedFinite, FS_EmptySet DEF IInv, CountExact, CountedConns
    <2>3. conns[c].stage \in ConnStages \ Counted
        <3>1. conns[c] \in Connection
            BY DEF IInv, LifecycleTypeOK
        <3> QED
            BY <2>2, <3>1 DEF CountedConns, Connection
    <2> QED
        BY <2>3 DEF IInv, WaitsInTCP, At, ConnStages, Counted
<1>2. Spec => [][Step]_processVars
    BY <1>1, Inductive, PTL DEF Spec
<1> QED
    BY <1>2 DEF DrainComplete

\* For any number of connections, a relayed connection outlives the end of one of its
\* directions (main.go:354-371).
THEOREM RelayAlwaysComplete == Spec => RelayComplete
<1> DEFINE Step == \A c \in Conn :
                       (At(c, "relaying") /\ conns'[c].stage # "relaying") =>
                           \/ conns[c].client = "ended" /\ conns[c].server = "ended"
                           \/ "broken" \in {conns[c].client, conns[c].server}
<1>1. IInv /\ [Next]_processVars => [Step]_processVars
    <2> SUFFICES ASSUME IInv, Next, NEW c \in Conn,
                        At(c, "relaying"), conns'[c].stage # "relaying"
                 PROVE  \/ conns[c].client = "ended" /\ conns[c].server = "ended"
                        \/ "broken" \in {conns[c].client, conns[c].server}
        OBVIOUS
    <2>1. /\ conns[c] \in Connection /\ DOMAIN conns = Conn
          /\ conns[c].up = "done" => conns[c].client # "open" \/ conns[c].server = "broken"
          /\ conns[c].down = "done" => conns[c].server # "open" \/ conns[c].client = "broken"
        BY DEF IInv, LifecycleTypeOK, CopiedForAReason
    <2>2. EndRelay(c)
        <3>1. ASSUME RunProxy \/ Timers \/ AcceptFails \/ StatsRequest PROVE conns' = conns
            BY <3>1 DEF RunProxy, LoadConfig, SetupTracing, PingRedis, StartListener, Abort,
                        Signal, StopServing, StopStats, StopDraining, Flush, Timers, CtxExpires,
                        DeadlinePasses, AcceptFails, StatsRequest, connVars
        <3>2. ASSUME NEW d \in Conn \ {c}, Goroutine(d) \/ Outside(d) PROVE conns'[c] = conns[c]
            BY <2>1, <3>2 DEF Goroutine, Outside, Answer, Uncount, Count, Dial, CopyUp, CopyDown,
                        EndRelay, Accept, ReadRequest, CloseHTTP, ClientEnds, ServerEnds,
                        Serves, Moves
        <3>3. Goroutine(c) \/ Outside(c)
            BY <3>1, <3>2 DEF Next, At
        <3>4. \/ CopyUp(c) \/ CopyDown(c) \/ EndRelay(c)
              \/ \E how \in {"ended", "broken"} : ClientEnds(c, how) \/ ServerEnds(c, how)
            BY <3>3 DEF Goroutine, Outside, Answer, Uncount, Count, Dial,
                        Accept, ReadRequest, CloseHTTP, At
        <3>5. ASSUME CopyUp(c) \/ CopyDown(c)
                        \/ \E how \in {"ended", "broken"} : ClientEnds(c, how) \/ ServerEnds(c, how)
              PROVE  conns'[c].stage = conns[c].stage
            BY <2>1, <3>5 DEF CopyUp, CopyDown, ClientEnds, ServerEnds, Serves, Moves, Connection
        <3> QED
            BY <3>4, <3>5 DEF At
    <2>3. conns[c].up = "done" /\ conns[c].down = "done"
        BY <2>2 DEF EndRelay, BothCopied
    <2> QED
        BY <2>1, <2>3 DEF Connection, Ends
<1>2. Spec => [][Step]_processVars
    BY <1>1, Inductive, PTL DEF Spec
<1> QED
    BY <1>2 DEF RelayComplete
=============================================================================
