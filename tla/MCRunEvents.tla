---------------------------- MODULE MCRunEvents ----------------------------
(***************************************************************************)
(* Small instances of RunEvents: two automated runs of a node each with    *)
(* one id, a run and its retry, which can overlap in every way, the first  *)
(* of them requested twice; one run of two equal nodes; and a client.      *)
(***************************************************************************)
EXTENDS RunEvents, TLC

CONSTANTS r1, r2, q1, q2, q3, n1, n2, i1

OneRun     == {r1}
TwoRuns    == {r1, r2}
OneCall    == q1 :> r1
ThreeCalls == (q1 :> r1) @@ (q2 :> r1) @@ (q3 :> r2)
BothNodes  == r1 :> {n1, n2}
NodeEach   == (r1 :> {n1}) @@ (r2 :> {n2})
EqualNodes == (n1 :> i1) @@ (n2 :> i1)
Twins      == Permutations({q1, q2})

\* What is explored: two requests for one run, or one for each run.  It says nothing
\* of the feed, whose behaviours are explored in full.
TwiceOrBoth == \E q \in Requests : handler[q] = "idle"
=============================================================================
