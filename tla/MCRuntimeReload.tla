---------------------------- MODULE MCRuntimeReload ----------------------------
(* Small instances of RuntimeReload for TLC. *)
EXTENDS RuntimeReload, TLC

CONSTANTS r1, r2, q1, a, b

\* Redis and one backend; the local limiter and a route to the other; no limiter in
\* use, and no backend
ThreeConfigs ==
    {[limits |-> TRUE, redis |-> TRUE, backends |-> {a}, routes |-> {}],
     [limits |-> TRUE, redis |-> FALSE, backends |-> {}, routes |-> {{b}}],
     [limits |-> FALSE, redis |-> TRUE, backends |-> {}, routes |-> {}]}

Symmetry == Permutations(Reload)
=============================================================================
