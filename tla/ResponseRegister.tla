-------------------------- MODULE ResponseRegister --------------------------
(***************************************************************************)
(* What a listening study promises its participants and its researcher,    *)
(* without checkpoints, heads or revisions: every session is a register    *)
(* that collects saved requests one at a time, an answer is given only to  *)
(* a request that is in the register, an unused session may be removed,    *)
(* and closing freezes everything at once.                                 *)
(***************************************************************************)

CONSTANTS Sessions, Requests

VARIABLES open,      \* whether the study still collects
          present,   \* the sessions that exist
          saved,     \* the requests applied to each session
          answered   \* the requests answered with success

registerVars == <<open, present, saved, answered>>

RegisterInit ==
    /\ open = TRUE
    /\ present = {}
    /\ saved = [s \in Sessions |-> {}]
    /\ answered = {}

Invite(s) ==
    /\ open
    /\ s \notin present
    /\ saved[s] = {}
    /\ present' = present \cup {s}
    /\ UNCHANGED <<open, saved, answered>>

Remove(s) ==
    /\ open
    /\ s \in present
    /\ saved[s] = {}
    /\ present' = present \ {s}
    /\ UNCHANGED <<open, saved, answered>>

Apply(s, q) ==
    /\ open
    /\ s \in present
    /\ q \notin saved[s]
    /\ saved' = [saved EXCEPT ![s] = @ \cup {q}]
    /\ UNCHANGED <<open, present, answered>>

Answer(s, q) ==
    /\ s \in present
    /\ q \in saved[s]
    /\ answered' = answered \cup {<<s, q>>}
    /\ UNCHANGED <<open, present, saved>>

Freeze ==
    /\ open
    /\ open' = FALSE
    /\ UNCHANGED <<present, saved, answered>>

RegisterNext ==
    \/ \E s \in Sessions : Invite(s) \/ Remove(s)
    \/ \E s \in Sessions, q \in Requests : Apply(s, q) \/ Answer(s, q)
    \/ Freeze

RegisterSpec == RegisterInit /\ [][RegisterNext]_registerVars
=============================================================================
