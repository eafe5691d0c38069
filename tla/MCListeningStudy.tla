--------------------------- MODULE MCListeningStudy ---------------------------
(***************************************************************************)
(* A small instance of ListeningStudy: three session ids for two places,   *)
(* two researchers, and two handlers of a participant's requests.          *)
(***************************************************************************)
EXTENDS ListeningStudy, TLC

CONSTANTS s1, s2, s3, q1, q2, p1, p2, a1, a2

ThreeSessions == {s1, s2, s3}
TwoRequests == {q1, q2}
TwoSavers   == {p1, p2}
TwoAdmins   == {a1, a2}

Symmetry == Permutations(TwoRequests) \cup Permutations(TwoSavers)

\* What is explored: at two versions of the consent, what two researchers do with
\* invitations nobody has used, revoked or excluded, closing the study as long as
\* there was but one; and everything that happens to one session while the first
\* of them acts, until the consent is changed after its deletion.  Session ids are
\* interchangeable and drawn in order.
OnlyInvitations ==
    /\ used \in {{}, {s1}, {s1, s2}, {s1, s2, s3}}
    /\ \A p \in Savers : saver[p] = IdleSaver
    /\ \A s \in Sessions : heads[s] \in {Absent, Invited}
    /\ stored \subseteq Sessions \X {Initial}
    /\ status # "finalized"
    /\ s2 \in used => status = "collecting" /\ \A a \in Admins : admin[a].pc # "closing"
OneSession ==
    /\ used = {s1} /\ version = 1
    /\ admin[a1].pc # "inviting" /\ admin[a2] = IdleAdmin
InviteOrSave == version <= 2 /\ (OnlyInvitations \/ OneSession)
=============================================================================
