--------------------------- MODULE MCFileStores ---------------------------
(***************************************************************************)
(* A small instance of FileStores: two uploads of up to two files, a       *)
(* deletion and a run over two names; two editors, an upload and a         *)
(* developer on one plugin; two workers, each of which may launch a run    *)
(* again or finalize its study.                                            *)
(***************************************************************************)
EXTENDS FileStores, TLC

CONSTANTS n1, n2, u1, u2, d1, r1, p1, e1, e2, v1, c1, c2, c3, bad, w1, w2, x1, x2, y1, y2

TwoNames     == {n1, n2}
TwoUploads   == {u1, u2}
OneDeletion  == {d1}
OneRun       == {r1}
OnePlugin    == {p1}
TwoEditors   == {e1, e2}
OneUpload    == {v1}
FourContents == {c1, c2, c3, bad}
OneBroken    == {bad}
TwoWorkers     == {w1, w2}
TwoDefinitions == {x1, x2}
TwoSamples     == {y1, y2}

\* One file, two, or two of which the second is no track.
SomeBatches ==
    LET good(n) == [name |-> n, valid |-> TRUE]
        other(n) == [name |-> n, valid |-> FALSE]
    IN {<<good(n1)>>, <<good(n1), good(n2)>>, <<good(n2), other(n1)>>}

Symmetry == Permutations(TwoUploads) \cup Permutations(TwoEditors) \cup Permutations(TwoWorkers)
            \cup Permutations(TwoDefinitions) \cup Permutations(TwoSamples)
=============================================================================
