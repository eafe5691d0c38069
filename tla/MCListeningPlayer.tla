------------------------- MODULE MCListeningPlayer -------------------------
(***************************************************************************)
(* Small instances of ListeningPlayer: one row of two scores, rated in one *)
(* tab or in two.                                                          *)
(***************************************************************************)
EXTENDS ListeningPlayer, TLC

CONSTANTS t1, t2, i1

OneTab    == {t1}
TwoTabs   == {t1, t2}
OneItem   == {i1}
OneScore  == {1}
TwoScores == {1, 2}

TabSymmetry == Permutations(TwoTabs)

\* What is explored: one tab with three requests, or with two, a fault and a
\* reload, and from the moment a second one takes part, two tabs that give one
\* score in two requests and a reload, with no fault and no end of the study.
TakesPart(t) == \/ page[t] # ClosedPage \/ disk[t] # NoRecord \/ made[t] # Blank
                \/ \E n \in 1 .. Len(log) : log[n].by = t
                \/ \E g \in ghosts : g[1] = t
OneTabOrSmall ==
    /\ drawn > 2 => faults + reloads = 0
    /\ Cardinality({t \in Tabs : TakesPart(t)}) > 1 =>
        /\ drawn <= 2 /\ faults = 0 /\ study = "collecting"
        /\ \A t \in Tabs, i \in Items : made[t][i] # 2 /\ page[t].rows[i] # 2
        /\ \A n \in 1 .. Len(log), i \in Items : log[n].rows[i] # 2
=============================================================================
