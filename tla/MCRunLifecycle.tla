--------------------------- MODULE MCRunLifecycle ---------------------------
(***************************************************************************)
(* Small instances of RunLifecycle.  Human runs have every step automated  *)
(* ones have but the last compare-and-set of a launch, which they leave at *)
(* AWAITING_INPUT; OneOfEach has both.  Workers and handlers are           *)
(* interchangeable, so the safety runs use their symmetry.                 *)
(***************************************************************************)
EXTENDS RunLifecycle, TLC

CONSTANTS h1, h2, a1, w1, w2, c1, c2

OneHuman   == {h1}
TwoHumans  == {h1, h2}
OneOfEach  == {h1, a1}
OneWorker  == {w1}
TwoWorkers == {w1, w2}
OneHandler == {c1}
TwoHandlers == {c1, c2}

ActorSymmetry == Permutations(TwoWorkers) \cup Permutations(TwoHandlers)
=============================================================================
