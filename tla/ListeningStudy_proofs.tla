----------------------- MODULE ListeningStudy_proofs -----------------------
(***************************************************************************)
(* The safety of a study's collection, for any sets of sessions, requests  *)
(* and handlers and any limit.  IInv (ListeningStudy) is inductive: one    *)
(* lemma for each of its conjuncts, with one step for every action that    *)
(* touches the conjunct and one for the others together.  What the runs    *)
(* check, the refinement of ResponseRegister included, follows from it.    *)
(***************************************************************************)
EXTENDS ListeningStudy, FiniteSetTheorems, TLAPS


-----------------------------------------------------------------------------
(* Types *)

\* Every step keeps the types of the study document.
LEMMA DocumentStep ==
    ASSUME TypeOK, Next
    PROVE  DocumentOK'
<1>1. ASSUME NEW p \in Savers, PublishSave(p) PROVE DocumentOK'
  BY <1>1 DEF PublishSave, PublishWhen, Revise, Head, SaversOK, Ids, DocumentOK,
       TypeOK, documentVars, storeVars
<1>2. ASSUME NEW a \in Admins, NEW s \in Sessions, RemoveHead(a, s)
      PROVE  DocumentOK'
  BY <1>2 DEF RemoveHead, Revise, Head, Absent, Ids, DocumentOK, TypeOK,
       documentVars, storeVars
<1>3. ASSUME NEW a \in Admins, InstallInvitation(a) PROVE DocumentOK'
  <2>1. Invited \in Head
    BY DEF Invited, Absent, Head, Ids
  <2> QED BY <1>3, <2>1 DEF InstallInvitation, InstallWhen, Revise, AdminsOK,
          DocumentOK, TypeOK, documentVars
<1>4. ASSUME NEW a \in Admins, CommitClose(a) PROVE DocumentOK'
  BY <1>4 DEF CommitClose, Revise, DocumentOK, TypeOK, documentVars, storeVars
<1>5. ASSUME NEW s \in Sessions, Revoke(s) PROVE DocumentOK'
  <2>1. [heads[s] EXCEPT !.revoked = TRUE] \in Head
    BY DEF TypeOK, DocumentOK, Head
  <2> QED BY <1>5, <2>1 DEF Revoke, Revise, DocumentOK, TypeOK, documentVars
<1>6. ASSUME NEW s \in Sessions, NEW x \in BOOLEAN, Exclude(s, x)
      PROVE  DocumentOK'
  <2>1. [heads[s] EXCEPT !.excluded = x, !.audited = TRUE] \in Head
    BY DEF TypeOK, DocumentOK, Head
  <2> QED BY <1>6, <2>1 DEF Exclude, Revise, DocumentOK, TypeOK, documentVars
<1>7. ASSUME UpdateInstructions PROVE DocumentOK'
  BY <1>7 DEF UpdateInstructions, Revise, DocumentOK, TypeOK, documentVars,
       storeVars
<1>8. ASSUME MarkFinalized PROVE DocumentOK'
  BY <1>8 DEF MarkFinalized, Revise, DocumentOK, TypeOK, documentVars, storeVars
<1>9. ASSUME NEW p \in Savers,
           \/ \E s \in Sessions, q \in Requests, d \in SentDigest : BeginSave(p, s, q, d)
           \/ LoadSave(p)
           \/ StageSave(p)
           \/ Respond(p)
           \/ SaverDies(p)
      PROVE  DocumentOK'
  BY <1>9 DEF BeginSave, LoadSave, StageSave, Respond, SaverDies, DocumentOK,
       TypeOK, documentVars, storeVars
<1>10. ASSUME NEW a \in Admins,
           \/ \E count \in 1 .. MaxSessions : BeginInvitations(a, count)
           \/ \E s \in Sessions : StageInvitation(a, s)
           \/ IssueInvitations(a)
           \/ CleanInvitations(a)
           \/ CleanCheckpoints(a)
           \/ \E confirmed \in BOOLEAN : BeginClose(a, confirmed)
           \/ AdminDies(a)
      PROVE  DocumentOK'
  BY <1>10 DEF BeginInvitations, StageInvitation, IssueInvitations,
       CleanInvitations, CleanCheckpoints, BeginClose, AdminDies, DocumentOK,
       TypeOK, documentVars, storeVars
<1> QED BY <1>1, <1>2, <1>3, <1>4, <1>5, <1>6, <1>7, <1>8, <1>9, <1>10
        DEF Next, SaverStep, AdminStep

\* Every step keeps the types of what is stored beside it.
LEMMA StoreStep ==
    ASSUME TypeOK, Next
    PROVE  StoreOK'
<1>1. ASSUME NEW p \in Savers, StageSave(p) PROVE StoreOK'
  <2> DEFINE s == saver[p].session
             q == saver[p].request
             d == saver[p].digest
             merged == Merge(content[s][saver[p].base], q, d, saver[p].accepted)
  <2>1. s \in Sessions /\ q \in Requests /\ q \in Ids /\ d \in Digest
    BY <1>1 DEF StageSave, TypeOK, SaversOK, Saver, Ids
  <2>2. saver[p].base \in Ids /\ saver[p].accepted \in Nat
    BY DEF TypeOK, SaversOK, Saver
  <2>3. content[s][saver[p].base] \in Checkpoint
    BY <2>1, <2>2 DEF TypeOK, StoreOK
  <2>4. merged \in Checkpoint
    BY <2>1, <2>2, <2>3 DEF Merge, Checkpoint, Digest
  <2>5. content' \in [Sessions -> [Ids -> Checkpoint]]
    BY <1>1, <2>1, <2>4 DEF StageSave, TypeOK, StoreOK
  <2> QED BY <1>1, <2>1, <2>5 DEF StageSave, TypeOK, StoreOK, documentVars
<1>2. ASSUME NEW a \in Admins, NEW s \in Sessions, StageInvitation(a, s)
      PROVE  StoreOK'
  <2>1. EmptyCheckpoint(admin[a].seen) \in Checkpoint
    BY DEF TypeOK, AdminsOK, Admin, EmptyCheckpoint, Checkpoint, Digest, Actions
  <2>2. Initial \in Ids
    BY DEF Ids
  <2> QED BY <1>2, <2>1, <2>2 DEF StageInvitation, TypeOK, StoreOK, documentVars
<1>3. ASSUME NEW a \in Admins, IssueInvitations(a) PROVE StoreOK'
  BY <1>3 DEF IssueInvitations, AdminsOK, Admin, StoreOK, TypeOK, documentVars,
       storeVars
<1>4. ASSUME NEW a \in Admins, CleanInvitations(a) PROVE StoreOK'
  BY <1>4 DEF CleanInvitations, StoreOK, TypeOK, documentVars, storeVars
<1>5. ASSUME NEW a \in Admins, CleanCheckpoints(a) PROVE StoreOK'
  BY <1>5 DEF CleanCheckpoints, StoreOK, TypeOK, documentVars, storeVars
<1>6. ASSUME NEW p \in Savers,
           \/ \E s \in Sessions, q \in Requests, d \in SentDigest : BeginSave(p, s, q, d)
           \/ LoadSave(p)
           \/ PublishSave(p)
           \/ Respond(p)
           \/ SaverDies(p)
      PROVE  StoreOK'
  BY <1>6 DEF BeginSave, LoadSave, PublishSave, Respond, SaverDies, PublishWhen,
       StoreOK, TypeOK, documentVars, storeVars
<1>7. ASSUME NEW a \in Admins,
           \/ \E count \in 1 .. MaxSessions : BeginInvitations(a, count)
           \/ \E s \in Sessions : RemoveHead(a, s)
           \/ InstallInvitation(a)
           \/ \E confirmed \in BOOLEAN : BeginClose(a, confirmed)
           \/ CommitClose(a)
           \/ AdminDies(a)
      PROVE  StoreOK'
  BY <1>7 DEF BeginInvitations, RemoveHead, InstallInvitation, BeginClose,
       CommitClose, AdminDies, InstallWhen, StoreOK, TypeOK, documentVars,
       storeVars
<1>8. ASSUME \/ \E s \in Sessions : Revoke(s)
             \/ \E s \in Sessions, x \in BOOLEAN : Exclude(s, x)
             \/ UpdateInstructions
             \/ MarkFinalized
      PROVE  StoreOK'
  BY <1>8 DEF Revoke, Exclude, UpdateInstructions, MarkFinalized, StoreOK,
       TypeOK, documentVars, storeVars
<1> QED BY <1>1, <1>2, <1>3, <1>4, <1>5, <1>6, <1>7, <1>8
        DEF Next, SaverStep, AdminStep

\* An idle request has the type of a request.
LEMMA IdleOK == IdleSaver \in Saver /\ IdleAdmin \in Admin
  BY DEF IdleSaver, Saver, Digest, Actions, Ids, IdleAdmin, Admin

\* Every step keeps the types of the participant requests.
LEMMA SaversStep ==
    ASSUME TypeOK, Next
    PROVE  SaversOK'
<1>1. ASSUME NEW p \in Savers, NEW s \in Sessions, NEW q \in Requests, NEW d \in SentDigest, BeginSave(p, s, q, d)
      PROVE  SaversOK'
  <2>1. d \in Digest
    BY StudyAssumption DEF SentDigest, Digest
  <2>2. saver'[p] \in Saver /\ saver'[p].session \in Sessions /\ saver'[p].request \in Requests
    BY <1>1, <2>1 DEF BeginSave, TypeOK, SaversOK, DocumentOK, Saver, Ids
  <2> QED BY <1>1, <2>2 DEF BeginSave, TypeOK, SaversOK
<1>2. ASSUME NEW p \in Savers, LoadSave(p) PROVE SaversOK'
  <2>1. saver[p].session \in Sessions /\ saver[p].request \in Requests
    BY <1>2 DEF LoadSave, TypeOK, SaversOK
  <2>2. heads[saver[p].session].checkpoint \in Ids
    BY <2>1 DEF TypeOK, DocumentOK, Head
  <2>3. CASE saver' = [saver EXCEPT ![p].pc = "published"]
    BY <2>1, <2>3 DEF TypeOK, SaversOK, Saver
  <2>4. CASE saver' = [saver EXCEPT ![p].pc = "loaded",
                                    ![p].base = heads[saver[p].session].checkpoint]
    BY <2>1, <2>2, <2>4, ZenonT(60) DEF TypeOK, SaversOK, Saver
  <2>5. CASE saver' = [saver EXCEPT ![p] = IdleSaver]
    BY <2>5, IdleOK DEF IdleSaver, TypeOK, SaversOK
  <2> QED BY <1>2, <2>3, <2>4, <2>5 DEF LoadSave, EndSave
<1>3. ASSUME NEW p \in Savers, StageSave(p) PROVE SaversOK'
  BY <1>3 DEF StageSave, EndSave, IdleSaver, Saver, Digest, Actions, Ids,
       SaversOK, TypeOK, documentVars, storeVars
<1>4. ASSUME NEW p \in Savers, PublishSave(p) PROVE SaversOK'
  <2>1. CASE saver' = [saver EXCEPT ![p].pc = "published"]
    BY <1>4, <2>1 DEF PublishSave, PublishWhen, TypeOK, SaversOK, Saver
  <2>2. CASE saver' = [saver EXCEPT ![p] = IdleSaver]
    BY <2>2, IdleOK DEF IdleSaver, TypeOK, SaversOK
  <2> QED BY <1>4, <2>1, <2>2 DEF PublishSave, PublishWhen, EndSave
<1>5. ASSUME NEW p \in Savers, Respond(p) PROVE SaversOK'
  BY <1>5 DEF Respond, EndSave, IdleSaver, Saver, Digest, Actions, Ids,
       SaversOK, TypeOK, documentVars, storeVars
<1>6. ASSUME NEW p \in Savers, SaverDies(p) PROVE SaversOK'
  BY <1>6 DEF SaverDies, EndSave, IdleSaver, Saver, Digest, Actions, Ids,
       SaversOK, TypeOK, documentVars, storeVars
<1>7. ASSUME NEW a \in Admins,
           \/ \E count \in 1 .. MaxSessions : BeginInvitations(a, count)
           \/ \E s \in Sessions : StageInvitation(a, s)
           \/ \E s \in Sessions : RemoveHead(a, s)
           \/ InstallInvitation(a)
           \/ IssueInvitations(a)
           \/ CleanInvitations(a)
           \/ CleanCheckpoints(a)
           \/ \E confirmed \in BOOLEAN : BeginClose(a, confirmed)
           \/ CommitClose(a)
           \/ AdminDies(a)
      PROVE  SaversOK'
  BY <1>7 DEF BeginInvitations, StageInvitation, RemoveHead, InstallInvitation,
       IssueInvitations, CleanInvitations, CleanCheckpoints, BeginClose,
       CommitClose, AdminDies, InstallWhen, SaversOK, TypeOK, documentVars,
       storeVars
<1>8. ASSUME \/ \E s \in Sessions : Revoke(s)
             \/ \E s \in Sessions, x \in BOOLEAN : Exclude(s, x)
             \/ UpdateInstructions
             \/ MarkFinalized
      PROVE  SaversOK'
  BY <1>8 DEF Revoke, Exclude, UpdateInstructions, MarkFinalized, SaversOK,
       TypeOK, documentVars, storeVars
<1> QED BY <1>1, <1>2, <1>3, <1>4, <1>5, <1>6, <1>7, <1>8
        DEF Next, SaverStep, AdminStep

\* Every step keeps the types of the researcher requests.
LEMMA AdminsStep ==
    ASSUME TypeOK, Next
    PROVE  AdminsOK'
<1>1. ASSUME NEW a \in Admins, NEW count \in 1 .. MaxSessions, BeginInvitations(a, count)
      PROVE  AdminsOK'
  <2>1. count \in Nat
    BY StudyAssumption
  <2>2. admin'[a] \in Admin /\ admin'[a].pc = "inviting"
    BY <1>1, <2>1 DEF BeginInvitations, TypeOK, AdminsOK, DocumentOK, IdleAdmin, Admin
  <2> QED BY <1>1, <2>2 DEF BeginInvitations, TypeOK, AdminsOK
<1>2. ASSUME NEW a \in Admins, NEW s \in Sessions, StageInvitation(a, s)
      PROVE  AdminsOK'
  BY <1>2, ZenonT(60) DEF StageInvitation, Admin, AdminsOK, TypeOK, documentVars, storeVars
<1>3. ASSUME NEW a \in Admins, NEW s \in Sessions, RemoveHead(a, s)
      PROVE  AdminsOK'
  BY <1>3 DEF RemoveHead, StartCleaning, IdleAdmin, Admin, AdminsOK, TypeOK,
       documentVars, storeVars
<1>4. ASSUME NEW a \in Admins, InstallInvitation(a) PROVE AdminsOK'
  BY <1>4 DEF InstallInvitation, InstallWhen, EndAdmin, IdleAdmin, Admin,
       AdminsOK, TypeOK, documentVars, storeVars
<1>5. ASSUME NEW a \in Admins, IssueInvitations(a) PROVE AdminsOK'
  BY <1>5 DEF IssueInvitations, EndAdmin, IdleAdmin, Admin, AdminsOK, TypeOK,
       documentVars, storeVars
<1>6. ASSUME NEW a \in Admins, CleanInvitations(a) PROVE AdminsOK'
  BY <1>6 DEF CleanInvitations, Admin, AdminsOK, TypeOK, documentVars, storeVars
<1>7. ASSUME NEW a \in Admins, CleanCheckpoints(a) PROVE AdminsOK'
  BY <1>7 DEF CleanCheckpoints, EndAdmin, IdleAdmin, Admin, AdminsOK, TypeOK,
       documentVars, storeVars
<1>8. ASSUME NEW a \in Admins, NEW confirmed \in BOOLEAN, BeginClose(a, confirmed)
      PROVE  AdminsOK'
  BY <1>8 DEF BeginClose, IdleAdmin, Admin, Included, DocumentOK, AdminsOK,
       TypeOK, documentVars, storeVars
<1>9. ASSUME NEW a \in Admins, CommitClose(a) PROVE AdminsOK'
  BY <1>9 DEF CommitClose, EndAdmin, IdleAdmin, Admin, AdminsOK, TypeOK,
       documentVars, storeVars
<1>10. ASSUME NEW a \in Admins, AdminDies(a) PROVE AdminsOK'
  BY <1>10 DEF AdminDies, EndAdmin, IdleAdmin, Admin, AdminsOK, TypeOK,
       documentVars, storeVars
<1>11. ASSUME NEW p \in Savers,
           \/ \E s \in Sessions, q \in Requests, d \in SentDigest : BeginSave(p, s, q, d)
           \/ LoadSave(p)
           \/ StageSave(p)
           \/ PublishSave(p)
           \/ Respond(p)
           \/ SaverDies(p)
      PROVE  AdminsOK'
  BY <1>11 DEF BeginSave, LoadSave, StageSave, PublishSave, Respond, SaverDies,
       PublishWhen, AdminsOK, TypeOK, documentVars, storeVars
<1>12. ASSUME \/ \E s \in Sessions : Revoke(s)
              \/ \E s \in Sessions, x \in BOOLEAN : Exclude(s, x)
              \/ UpdateInstructions
              \/ MarkFinalized
      PROVE  AdminsOK'
  BY <1>12 DEF Revoke, Exclude, UpdateInstructions, MarkFinalized, AdminsOK,
       TypeOK, documentVars, storeVars
<1> QED BY <1>1, <1>2, <1>3, <1>4, <1>5, <1>6, <1>7, <1>8, <1>9, <1>10, <1>11,
         <1>12
        DEF Next, SaverStep, AdminStep

\* Every step keeps the types.
LEMMA TypeStep ==
    ASSUME TypeOK, Next
    PROVE  TypeOK'
<1>1. acked' \subseteq Sessions \X Requests
  <2>1. ASSUME NEW p \in Savers, Respond(p) PROVE acked' \subseteq Sessions \X Requests
    BY <2>1 DEF Respond, TypeOK, SaversOK
  <2>2. (\A p \in Savers : ~Respond(p)) => UNCHANGED acked
    BY ZenonT(60) DEF Next, SaverStep, AdminStep, BeginSave, LoadSave, StageSave, PublishSave,
       PublishWhen, SaverDies, BeginInvitations, StageInvitation, RemoveHead,
       InstallInvitation, InstallWhen, IssueInvitations, CleanInvitations,
       CleanCheckpoints, BeginClose, CommitClose, AdminDies, Revoke, Exclude,
       UpdateInstructions, MarkFinalized
  <2> QED BY <2>1, <2>2 DEF TypeOK
<1>2. report' \subseteq Sessions
  <2>1. ASSUME NEW a \in Admins, CommitClose(a) PROVE report' \subseteq Sessions
    BY <2>1 DEF CommitClose, TypeOK, AdminsOK, Admin
  <2>2. (\A a \in Admins : ~CommitClose(a)) => UNCHANGED report
    BY ZenonT(60) DEF Next, SaverStep, AdminStep, BeginSave, LoadSave, StageSave, PublishSave,
       PublishWhen, Respond, SaverDies, BeginInvitations, StageInvitation, RemoveHead,
       InstallInvitation, InstallWhen, IssueInvitations, CleanInvitations,
       CleanCheckpoints, BeginClose, AdminDies, Revoke, Exclude,
       UpdateInstructions, MarkFinalized
  <2> QED BY <2>1, <2>2 DEF TypeOK
<1> QED BY <1>1, <1>2, DocumentStep, StoreStep, SaversStep, AdminsStep DEF TypeOK

-----------------------------------------------------------------------------
(* What single steps do, in the form the lemmas below need it *)

\* A participant's request goes on with its session, its id and its digest, or it
\* ends; the other requests do not move.
LEMMA SaverEffect ==
    ASSUME TypeOK, NEW p \in Savers,
           LoadSave(p) \/ StageSave(p) \/ PublishSave(p) \/ Respond(p) \/ SaverDies(p)
    PROVE  /\ \A r \in Savers \ {p} : saver'[r] = saver[r]
           /\ saver[p].pc # "idle"
           /\ saver'[p].pc # "idle" =>
                 /\ saver'[p].session = saver[p].session
                 /\ saver'[p].request = saver[p].request
                 /\ saver'[p].digest = saver[p].digest
                 /\ saver'[p].accepted = saver[p].accepted
<1>1. CASE saver' = [saver EXCEPT ![p] = IdleSaver]
  BY <1>1 DEF TypeOK, SaversOK, IdleSaver, LoadSave, StageSave, PublishSave,
     PublishWhen, Respond, SaverDies
<1>2. CASE saver' = [saver EXCEPT ![p].pc = "published"] /\ saver[p].pc # "idle"
  BY <1>2 DEF TypeOK, SaversOK, Saver
<1>3. CASE saver' = [saver EXCEPT ![p].pc = "staged"] /\ saver[p].pc # "idle"
  BY <1>3 DEF TypeOK, SaversOK, Saver
<1>4. ASSUME NEW c, saver' = [saver EXCEPT ![p].pc = "loaded", ![p].base = c],
             saver[p].pc # "idle"
      PROVE  /\ \A r \in Savers \ {p} : saver'[r] = saver[r]
             /\ /\ saver'[p].session = saver[p].session
                /\ saver'[p].request = saver[p].request
                /\ saver'[p].digest = saver[p].digest
                /\ saver'[p].accepted = saver[p].accepted
  BY <1>4 DEF TypeOK, SaversOK, Saver
<1> QED BY <1>1, <1>2, <1>3, <1>4 DEF LoadSave, StageSave, PublishSave, PublishWhen,
        Respond, SaverDies, EndSave

\* Publishing changes the head of the request's session, to the checkpoint of the
\* request and on the revision the request expects, or it changes nothing stored.
LEMMA PublishEffect ==
    ASSUME TypeOK, NEW p \in Savers, PublishSave(p)
    PROVE  LET s == saver[p].session IN
           /\ s \in Sessions /\ saver[p].pc = "staged"
           /\ \A t \in Sessions \ {s} : heads'[t] = heads[t]
           /\ \/ /\ saver'[p].pc = "published"
                 /\ Collecting /\ Exists(s)
                 /\ heads[s].status # "completed" /\ ~heads[s].revoked
                 /\ heads[s].revision = saver[p].digest.expected
                 /\ heads'[s].checkpoint = saver[p].request
                 /\ heads'[s].status \in {"draft", "completed"}
                 /\ heads'[s].revision = heads[s].revision + 1
                 /\ revision' = revision + 1
              \/ saver'[p].pc = "idle" /\ heads' = heads /\ revision' = revision
<1> DEFINE s == saver[p].session
<1>1. s \in Sessions /\ saver[p].pc = "staged"
  BY DEF PublishSave, PublishWhen, TypeOK, SaversOK
<1>2. heads \in [Sessions -> Head] /\ heads[s] \in Head /\ saver[p] \in Saver
  BY <1>1 DEF TypeOK, DocumentOK, SaversOK
<1>3. CASE Collecting /\ Unfinished(s) /\ Expected(p) /\ ~heads[s].revoked
  BY <1>1, <1>2, <1>3 DEF PublishSave, PublishWhen, Unfinished, Expected, Exists,
     Revise, Head, Saver, TypeOK, SaversOK
<1>4. CASE ~(Collecting /\ Unfinished(s) /\ Expected(p) /\ ~heads[s].revoked)
  BY <1>1, <1>4 DEF PublishSave, PublishWhen, EndSave, IdleSaver, TypeOK, SaversOK
<1> QED BY <1>1, <1>3, <1>4

\* Revoking and excluding change one head, and neither its checkpoint nor its
\* progress.
LEMMA FlagEffect ==
    ASSUME TypeOK, NEW s \in Sessions, Revoke(s) \/ \E x \in BOOLEAN : Exclude(s, x)
    PROVE  /\ Collecting /\ revision' = revision + 1
           /\ \A t \in Sessions : /\ heads'[t].status = heads[t].status
                                  /\ heads'[t].checkpoint = heads[t].checkpoint
                                  /\ heads'[t].revision = heads[t].revision
<1>1. heads \in [Sessions -> Head]
  BY DEF TypeOK, DocumentOK
<1>2. CASE Revoke(s)
  BY <1>1, <1>2 DEF Revoke, Revise, Head
<1>3. ASSUME NEW x \in BOOLEAN, Exclude(s, x)
      PROVE  /\ Collecting /\ revision' = revision + 1
             /\ \A t \in Sessions : /\ heads'[t].status = heads[t].status
                                    /\ heads'[t].checkpoint = heads[t].checkpoint
                                    /\ heads'[t].revision = heads[t].revision
  <2>1. heads' = [heads EXCEPT ![s] = [heads[s] EXCEPT !.excluded = x, !.audited = TRUE]]
    BY <1>3 DEF Exclude
  <2>2. heads[s] \in Head
    BY <1>1
  <2>3. /\ heads'[s].status = heads[s].status
        /\ heads'[s].checkpoint = heads[s].checkpoint
        /\ heads'[s].revision = heads[s].revision
    BY <1>1, <2>1, <2>2 DEF Head
  <2>4. \A t \in Sessions \ {s} : heads'[t] = heads[t]
    BY <1>1, <2>1
  <2>5. Collecting /\ revision' = revision + 1
    BY <1>3 DEF Exclude, Revise
  <2> QED BY <2>3, <2>4, <2>5
<1> QED BY <1>2, <1>3

\* Installing gives the session that was drawn for it its first head, or it
\* changes nothing stored.
LEMMA InstallEffect ==
    ASSUME TypeOK, NEW a \in Admins, InstallInvitation(a)
    PROVE  LET s == admin[a].session IN
           /\ s \in Sessions /\ Installing(a, s)
           /\ admin'[a].pc \in {"idle", "inviting"}
           /\ \A b \in Admins \ {a} : admin'[b] = admin[b]
           /\ \A t \in Sessions \ {s} : heads'[t] = heads[t]
           /\ \/ /\ heads'[s] = Invited /\ ~Exists(s) /\ Collecting
                 /\ version = admin[a].seen /\ Room /\ revision' = revision + 1
              \/ heads' = heads /\ revision' = revision
  BY DEF InstallInvitation, InstallWhen, Installing, TypeOK, AdminsOK, DocumentOK,
     Admin, Revise, EndAdmin, IdleAdmin

-----------------------------------------------------------------------------
(* Session ids *)

\* Every step keeps session ids drawn once.
LEMMA DrawnStep ==
    ASSUME IInv, Next
    PROVE  SessionsAreDrawnOnce'
<1>1. ASSUME NEW p \in Savers, NEW s \in Sessions, NEW q \in Requests, NEW d \in SentDigest, BeginSave(p, s, q, d)
      PROVE  SessionsAreDrawnOnce'
  BY <1>1 DEF BeginSave, SessionsAreDrawnOnce, Settled, Installing, Live,
       Exists, IInv, TypeOK, SaversOK, AdminsOK, DocumentOK, Reachable, Absent,
       Invited, Unfinished, documentVars, storeVars
<1>2. ASSUME NEW a \in Admins, NEW count \in 1 .. MaxSessions, BeginInvitations(a, count)
      PROVE  SessionsAreDrawnOnce'
  BY <1>2 DEF BeginInvitations, IdleAdmin, SessionsAreDrawnOnce, Settled,
       Installing, Live, Exists, IInv, TypeOK, SaversOK, AdminsOK, DocumentOK,
       Reachable, Absent, Invited, Unfinished, documentVars, storeVars
<1>3. ASSUME NEW a \in Admins, NEW s \in Sessions, StageInvitation(a, s)
      PROVE  SessionsAreDrawnOnce'
  BY <1>3 DEF StageInvitation, SessionsAreDrawnOnce, Settled, Installing, Live,
       Exists, IInv, TypeOK, SaversOK, AdminsOK, DocumentOK, Reachable, Absent,
       Invited, Unfinished, documentVars, storeVars
<1>4. ASSUME NEW a \in Admins, NEW s \in Sessions, RemoveHead(a, s)
      PROVE  SessionsAreDrawnOnce'
  <2>1. s \in Live /\ Live' = Live \ {s} /\ Settled(s)
    BY <1>4 DEF RemoveHead, Untouched, Live, Exists, Absent, IInv, TypeOK, DocumentOK,
       SessionsAreDrawnOnce
  <2>2. /\ admin'[a].pc = "cleaning" /\ admin'[a].session = s
        /\ \A b \in Admins \ {a} : admin'[b] = admin[b]
        /\ admin[a].pc = "idle"
        /\ UNCHANGED <<used, saver>>
    BY <1>4 DEF RemoveHead, StartCleaning, IdleAdmin, IInv, TypeOK, AdminsOK, storeVars
  <2>3. \A t \in Sessions : Settled(t) => Settled(t)'
    BY <2>2 DEF Settled, Installing
  <2>4. \A t \in Sessions : ~Exists(t) => ~Exists(t)'
    BY <2>1 DEF Live
  <2>5. ~Exists(s)'
    BY <2>1 DEF Live
  <2> QED BY <2>1, <2>2, <2>3, <2>4, <2>5
          DEF SessionsAreDrawnOnce, Installing, Live, IInv, TypeOK, SaversOK, AdminsOK
<1>5. ASSUME NEW a \in Admins, InstallInvitation(a)
      PROVE  SessionsAreDrawnOnce'
  <2> PICK s \in Sessions : s = admin[a].session
    BY <1>5, InstallEffect DEF IInv
  <2>1. UNCHANGED <<used, saver>>
    BY <1>5 DEF InstallInvitation, InstallWhen, storeVars
  <2>2. \A t \in Sessions : Settled(t) => Settled(t)'
    BY <1>5, <2>1, InstallEffect DEF Settled, Installing, IInv
  <2>3. Settled(s)'
    BY <1>5, <2>1, InstallEffect DEF SessionsAreDrawnOnce, Settled, Installing, IInv
  <2>4. \A t \in Sessions \ {s} : Exists(t)' <=> Exists(t)
    BY <1>5, InstallEffect DEF Exists, IInv
  <2>5. /\ admin'[a].pc \in {"idle", "inviting"} /\ Installing(a, s)
        /\ \A b \in Admins \ {a} : admin'[b] = admin[b]
    BY <1>5, InstallEffect DEF IInv
  <2>6. \A t \in Live' : Settled(t)'
    BY <2>2, <2>3, <2>4 DEF SessionsAreDrawnOnce, Live, IInv
  <2>7. \A q \in Savers : saver'[q].pc # "idle" => Settled(saver[q].session)'
    BY <2>1, <2>2 DEF SessionsAreDrawnOnce, IInv, TypeOK, SaversOK
  <2>8. ASSUME NEW b \in Admins \ {a}, admin[b].pc = "installing"
        PROVE  /\ admin[b].session \in used
               /\ \A c \in Admins : Installing(c, admin[b].session)' => c = b
    BY <2>5, <2>8 DEF SessionsAreDrawnOnce, IInv, Installing
  <2>9. ASSUME NEW b \in Admins \ {a}, admin[b].pc \in {"cleaning", "sweeping"},
               NEW t \in Sessions, t = admin[b].session
        PROVE  Settled(t)' /\ ~Exists(t)'
    <3>1. Settled(t) /\ ~Exists(t)
      BY <2>9 DEF SessionsAreDrawnOnce, IInv
    <3>2. t # s
      BY <2>5, <3>1 DEF Settled
    <3> QED BY <2>2, <2>4, <3>1, <3>2
  <2>10. \A b \in Admins \ {a} : admin[b].pc \in {"cleaning", "sweeping"}
                                 => admin[b].session \in Sessions
    BY DEF IInv, TypeOK, AdminsOK
  <2> QED BY <2>1, <2>5, <2>6, <2>7, <2>8, <2>9, <2>10
          DEF SessionsAreDrawnOnce
<1>6. ASSUME NEW a \in Admins, IssueInvitations(a) PROVE SessionsAreDrawnOnce'
  BY <1>6 DEF IssueInvitations, EndAdmin, IdleAdmin, SessionsAreDrawnOnce,
       Settled, Installing, Live, Exists, IInv, TypeOK, SaversOK, AdminsOK,
       DocumentOK, Reachable, Absent, Invited, Unfinished, documentVars,
       storeVars
<1>7. ASSUME NEW a \in Admins, CleanInvitations(a) PROVE SessionsAreDrawnOnce'
  BY <1>7 DEF CleanInvitations, SessionsAreDrawnOnce, Settled, Installing, Live,
       Exists, IInv, TypeOK, SaversOK, AdminsOK, DocumentOK, Reachable, Absent,
       Invited, Unfinished, documentVars, storeVars
<1>8. ASSUME NEW a \in Admins, CleanCheckpoints(a) PROVE SessionsAreDrawnOnce'
  BY <1>8 DEF CleanCheckpoints, EndAdmin, IdleAdmin, SessionsAreDrawnOnce,
       Settled, Installing, Live, Exists, IInv, TypeOK, SaversOK, AdminsOK,
       DocumentOK, Reachable, Absent, Invited, Unfinished, documentVars,
       storeVars
<1>9. ASSUME NEW a \in Admins, NEW confirmed \in BOOLEAN, BeginClose(a, confirmed)
      PROVE  SessionsAreDrawnOnce'
  BY <1>9 DEF BeginClose, IdleAdmin, SessionsAreDrawnOnce, Settled, Installing,
       Live, Exists, IInv, TypeOK, SaversOK, AdminsOK, DocumentOK, Reachable,
       Absent, Invited, Unfinished, documentVars, storeVars
<1>10. ASSUME NEW a \in Admins, CommitClose(a) PROVE SessionsAreDrawnOnce'
  BY <1>10 DEF CommitClose, Revise, EndAdmin, IdleAdmin, SessionsAreDrawnOnce,
       Settled, Installing, Live, Exists, IInv, TypeOK, SaversOK, AdminsOK,
       DocumentOK, Reachable, Absent, Invited, Unfinished, documentVars,
       storeVars
<1>11. ASSUME NEW a \in Admins, AdminDies(a) PROVE SessionsAreDrawnOnce'
  BY <1>11 DEF AdminDies, EndAdmin, IdleAdmin, SessionsAreDrawnOnce, Settled,
       Installing, Live, Exists, IInv, TypeOK, SaversOK, AdminsOK, DocumentOK,
       Reachable, Absent, Invited, Unfinished, documentVars, storeVars
<1>12. ASSUME NEW p \in Savers,
           \/ LoadSave(p)
           \/ StageSave(p)
           \/ PublishSave(p)
           \/ Respond(p)
           \/ SaverDies(p)
      PROVE  SessionsAreDrawnOnce'
  <2>1. \A t \in Sessions : Exists(t)' <=> Exists(t)
    <3>1. CASE PublishSave(p)
      BY <3>1, PublishEffect DEF IInv, Exists
    <3>2. CASE ~PublishSave(p)
      BY <1>12, <3>2 DEF LoadSave, StageSave, Respond, SaverDies, documentVars, Exists
    <3> QED BY <3>1, <3>2
  <2>2. UNCHANGED <<used, admin>>
    BY <1>12 DEF LoadSave, StageSave, PublishSave, PublishWhen, Respond, SaverDies,
       storeVars
  <2>3. \A t \in Sessions : Settled(t)' <=> Settled(t)
    BY <2>2 DEF Settled, Installing
  <2>4. ASSUME NEW r \in Savers, saver'[r].pc # "idle", NEW t \in Sessions,
               t = saver'[r].session
        PROVE  Settled(t)'
    BY <1>12, <2>3, <2>4, SaverEffect DEF SessionsAreDrawnOnce, IInv
  <2>5. \A r \in Savers : saver'[r].pc # "idle" => saver'[r].session \in Sessions
    BY TypeStep DEF IInv, TypeOK, SaversOK
  <2>6. \A t \in Live' : Settled(t)'
    BY <2>1, <2>3 DEF Live, SessionsAreDrawnOnce, IInv
  <2>7. \A a \in Admins : admin[a].session \in Sessions =>
          /\ Settled(admin[a].session)' <=> Settled(admin[a].session)
          /\ Exists(admin[a].session)' <=> Exists(admin[a].session)
    BY <2>1, <2>2, <2>3
  <2> QED BY <2>2, <2>4, <2>5, <2>6, <2>7
          DEF SessionsAreDrawnOnce, Installing, IInv, TypeOK, AdminsOK
<1>13. ASSUME \/ \E s \in Sessions : Revoke(s)
              \/ \E s \in Sessions, x \in BOOLEAN : Exclude(s, x)
              \/ UpdateInstructions
              \/ MarkFinalized
      PROVE  SessionsAreDrawnOnce'
  <2>1. \A t \in Sessions : Exists(t)' <=> Exists(t)
    BY <1>13, FlagEffect DEF Exists, IInv, UpdateInstructions, MarkFinalized
  <2>2. UNCHANGED <<used, saver, admin>>
    BY <1>13 DEF Revoke, Exclude, UpdateInstructions, MarkFinalized, storeVars
  <2>3. \A t \in Sessions : Settled(t)' <=> Settled(t)
    BY <2>2 DEF Settled, Installing
  <2> QED BY <2>1, <2>2, <2>3
          DEF SessionsAreDrawnOnce, Live, Installing, IInv, TypeOK, SaversOK, AdminsOK
<1> QED BY <1>1, <1>2, <1>3, <1>4, <1>5, <1>6, <1>7, <1>8, <1>9, <1>10, <1>11,
         <1>12, <1>13
        DEF Next, SaverStep, AdminStep

-----------------------------------------------------------------------------
(* What a step may do to the document, to a live session and to its checkpoints *)

\* A step leaves the study document alone or advances its revision by one.
LEMMA DocumentRevised ==
    ASSUME Next
    PROVE  UNCHANGED documentVars \/ revision' = revision + 1
<1>1. ASSUME NEW p \in Savers, SaverStep(p)
      PROVE  UNCHANGED documentVars \/ revision' = revision + 1
  BY <1>1 DEF SaverStep, Revise, documentVars, BeginSave, LoadSave, StageSave,
     PublishSave, PublishWhen, Respond, SaverDies
<1>2. ASSUME NEW a \in Admins, AdminStep(a)
      PROVE  UNCHANGED documentVars \/ revision' = revision + 1
  BY <1>2 DEF AdminStep, Revise, documentVars, BeginInvitations, StageInvitation,
     RemoveHead, InstallInvitation, InstallWhen, IssueInvitations, CleanInvitations,
     CleanCheckpoints, BeginClose, CommitClose, AdminDies
<1> QED BY <1>1, <1>2 DEF Next, Revise, Revoke, Exclude, UpdateInstructions,
        MarkFinalized

\* Once closed a study stays closed, and its heads and its report stay as they are.
LEMMA ClosedStays ==
    ASSUME Next, ~Collecting
    PROVE  ~Collecting' /\ heads' = heads /\ report' = report
  BY ZenonT(60) DEF Next, SaverStep, AdminStep, Collecting, documentVars, BeginSave, LoadSave,
     StageSave, PublishSave, PublishWhen, Respond, SaverDies, BeginInvitations,
     StageInvitation, RemoveHead, InstallInvitation, InstallWhen, IssueInvitations,
     CleanInvitations, CleanCheckpoints, BeginClose, CommitClose, AdminDies, Revoke,
     Exclude, UpdateInstructions, MarkFinalized

\* The head of a session that exists after a step has just been installed, or has
\* just been published, or has kept its checkpoint and its progress.
Advanced(p, s) ==
    /\ PublishSave(p) /\ saver[p].session = s /\ saver'[p].pc = "published"
    /\ heads'[s].checkpoint = saver[p].request
    /\ heads'[s].revision = heads[s].revision + 1
    /\ heads[s].revision = saver[p].digest.expected
    /\ heads[s].status # "completed" /\ ~heads[s].revoked
    /\ heads'[s].status # "invited"

HeadMove(s) ==
    \/ /\ ~Exists(s) /\ heads'[s] = Invited /\ version' = version
       /\ \E a \in Admins : /\ InstallInvitation(a) /\ Installing(a, s)
                            /\ admin[a].seen = version
    \/ Exists(s) /\ version' = version /\ \E p \in Savers : Advanced(p, s)
    \/ /\ Exists(s) /\ version' = version
       /\ heads'[s].status = heads[s].status
       /\ heads'[s].checkpoint = heads[s].checkpoint
       /\ heads'[s].revision = heads[s].revision

\* So every session that exists after a step has moved in one of these three ways.
LEMMA LiveSessions ==
    ASSUME TypeOK, NEW s \in Sessions, Exists(s)', Next
    PROVE  HeadMove(s)
<1>1. ASSUME NEW p \in Savers, PublishSave(p) PROVE HeadMove(s)
  <2>1. UNCHANGED <<version>>
    BY <1>1 DEF PublishSave, PublishWhen
  <2> QED BY <1>1, <2>1, PublishEffect DEF HeadMove, Advanced, Exists
<1>2. ASSUME NEW a \in Admins, NEW t \in Sessions, RemoveHead(a, t)
      PROVE  HeadMove(s)
  BY <1>2 DEF RemoveHead, TypeOK, DocumentOK, Exists, HeadMove, Absent
<1>3. ASSUME NEW a \in Admins, InstallInvitation(a) PROVE HeadMove(s)
  <2>1. UNCHANGED <<version>>
    BY <1>3 DEF InstallInvitation, InstallWhen
  <2> QED BY <1>3, <2>1, InstallEffect DEF HeadMove, Exists
<1>4. ASSUME NEW t \in Sessions, Revoke(t) PROVE HeadMove(s)
  BY <1>4, FlagEffect DEF Revoke, HeadMove, Exists
<1>5. ASSUME NEW t \in Sessions, NEW x \in BOOLEAN, Exclude(t, x)
      PROVE  HeadMove(s)
  <2>1. UNCHANGED version
    BY <1>5 DEF Exclude
  <2> QED BY <1>5, <2>1, FlagEffect DEF HeadMove, Exists
<1>6. ASSUME UpdateInstructions PROVE HeadMove(s)
  BY <1>6 DEF UpdateInstructions, HeadMove, Exists, Live
<1>7. ASSUME NEW p \in Savers,
           \/ \E t \in Sessions, q \in Requests, d \in SentDigest : BeginSave(p, t, q, d)
           \/ LoadSave(p)
           \/ StageSave(p)
           \/ Respond(p)
           \/ SaverDies(p)
      PROVE  HeadMove(s)
  BY <1>7 DEF BeginSave, LoadSave, StageSave, Respond, SaverDies, HeadMove,
       Exists, documentVars
<1>8. ASSUME NEW a \in Admins,
           \/ \E count \in 1 .. MaxSessions : BeginInvitations(a, count)
           \/ \E t \in Sessions : StageInvitation(a, t)
           \/ IssueInvitations(a)
           \/ CleanInvitations(a)
           \/ CleanCheckpoints(a)
           \/ \E confirmed \in BOOLEAN : BeginClose(a, confirmed)
           \/ CommitClose(a)
           \/ AdminDies(a)
      PROVE  HeadMove(s)
  BY <1>8 DEF BeginInvitations, StageInvitation, IssueInvitations,
       CleanInvitations, CleanCheckpoints, BeginClose, CommitClose, AdminDies,
       HeadMove, Exists, documentVars
<1>9. ASSUME MarkFinalized
      PROVE  HeadMove(s)
  BY <1>9 DEF MarkFinalized, HeadMove, Exists, documentVars
<1> QED BY <1>1, <1>2, <1>3, <1>4, <1>5, <1>6, <1>7, <1>8, <1>9
        DEF Next, SaverStep, AdminStep

\* A live session keeps every checkpoint it has; a new one is staged by a request.
CheckpointsKept(s) ==
    \A c \in Ids :
        /\ <<s, c>> \in stored => <<s, c>> \in stored' /\ content'[s][c] = content[s][c]
        /\ <<s, c>> \in stored' /\ <<s, c>> \notin stored =>
              \E p \in Savers : StageSave(p) /\ saver[p].session = s /\ saver[p].request = c

\* The checkpoints of a session that exists are kept, whatever else happens.
LEMMA LiveCheckpoints ==
    ASSUME IInv, NEW s \in Live, Next
    PROVE  CheckpointsKept(s)
<1>1. ASSUME NEW p \in Savers, StageSave(p) PROVE CheckpointsKept(s)
  <2>1. content \in [Sessions -> [Ids -> Checkpoint]]
    BY DEF IInv, TypeOK, StoreOK
  <2>2. saver[p].session \in Sessions /\ saver[p].request \in Ids
    BY <1>1 DEF StageSave, IInv, TypeOK, SaversOK, Ids
  <2> QED BY <1>1, <2>1, <2>2 DEF StageSave, CheckpointsKept, Live
<1>2. ASSUME NEW a \in Admins, NEW t \in Sessions, StageInvitation(a, t)
      PROVE  CheckpointsKept(s)
  <2>1. content \in [Sessions -> [Ids -> Checkpoint]]
    BY DEF IInv, TypeOK, StoreOK
  <2>2. s # t
    BY <1>2 DEF StageInvitation, IInv, SessionsAreDrawnOnce, Settled
  <2> QED BY <1>2, <2>1, <2>2 DEF StageInvitation, CheckpointsKept, Live
<1>3. ASSUME NEW a \in Admins, CleanCheckpoints(a) PROVE CheckpointsKept(s)
  <2>1. s # admin[a].session
    BY <1>3 DEF CleanCheckpoints, IInv, SessionsAreDrawnOnce, Live
  <2> QED BY <1>3, <2>1 DEF CleanCheckpoints, CheckpointsKept, Live
<1>4. ASSUME NEW p \in Savers,
           \/ \E t \in Sessions, q \in Requests, d \in SentDigest : BeginSave(p, t, q, d)
           \/ LoadSave(p)
           \/ PublishSave(p)
           \/ Respond(p)
           \/ SaverDies(p)
      PROVE  CheckpointsKept(s)
  BY <1>4 DEF BeginSave, LoadSave, PublishSave, Respond, SaverDies, PublishWhen,
       CheckpointsKept, storeVars
<1>5. ASSUME NEW a \in Admins,
           \/ \E count \in 1 .. MaxSessions : BeginInvitations(a, count)
           \/ \E t \in Sessions : RemoveHead(a, t)
           \/ InstallInvitation(a)
           \/ IssueInvitations(a)
           \/ CleanInvitations(a)
           \/ \E confirmed \in BOOLEAN : BeginClose(a, confirmed)
           \/ CommitClose(a)
           \/ AdminDies(a)
      PROVE  CheckpointsKept(s)
  BY <1>5 DEF BeginInvitations, RemoveHead, InstallInvitation, IssueInvitations,
       CleanInvitations, BeginClose, CommitClose, AdminDies, InstallWhen,
       CheckpointsKept, storeVars
<1>6. ASSUME \/ \E t \in Sessions : Revoke(t)
             \/ \E t \in Sessions, x \in BOOLEAN : Exclude(t, x)
             \/ UpdateInstructions
             \/ MarkFinalized
      PROVE  CheckpointsKept(s)
  BY <1>6 DEF Revoke, Exclude, UpdateInstructions, MarkFinalized,
       CheckpointsKept, storeVars
<1> QED BY <1>1, <1>2, <1>3, <1>4, <1>5, <1>6
        DEF Next, SaverStep, AdminStep

-----------------------------------------------------------------------------
(* The other conjuncts of the invariant *)

\* Every step keeps the limit of sessions.
LEMMA LimitStep ==
    ASSUME IInv, Next
    PROVE  SessionLimit'
<1>1. IsFiniteSet(Live) /\ Cardinality(Live) \in Nat /\ MaxSessions \in Nat
  BY StudyAssumption, FS_Subset, FS_CardinalityType DEF Live
<1>2. CASE Live' \subseteq Live
  <2>1. IsFiniteSet(Live') /\ Cardinality(Live') <= Cardinality(Live)
    BY <1>1, <1>2, FS_Subset
  <2>2. Cardinality(Live') \in Nat
    BY <2>1, FS_CardinalityType
  <2> QED BY <1>1, <2>1, <2>2 DEF IInv, SessionLimit
<1>3. ASSUME NEW s \in Live', s \notin Live
      PROVE  SessionLimit'
  <2>1. PICK a \in Admins : InstallInvitation(a) /\ Installing(a, s)
    BY <1>3, LiveSessions DEF Live, HeadMove, IInv
  <2>2. \A t \in Sessions \ {s} : heads'[t] = heads[t]
    BY <2>1, InstallEffect DEF Installing, IInv
  <2>3. Live' = Live \cup {s}
    BY <1>3, <2>2 DEF Live, Exists
  <2>4. Room
    BY <1>3, <2>1, InstallEffect DEF Installing, IInv, Live, Exists
  <2>5. Cardinality(Live \cup {s}) = Cardinality(Live) + 1
    BY <1>1, <1>3, FS_AddElement
  <2> QED BY <1>1, <2>3, <2>4, <2>5 DEF Room, SessionLimit
<1> QED BY <1>2, <1>3

\* Every step keeps the counts of closing requests right.
LEMMA ClosingStep ==
    ASSUME IInv, Next
    PROVE  ClosingCountsAreCurrent'
<1> SUFFICES ASSUME NEW a \in Admins, admin'[a].pc = "closing"
             PROVE  /\ admin'[a].seen <= revision'
                    /\ admin'[a].seen = revision' => admin'[a].batch = Included'
  BY DEF ClosingCountsAreCurrent
<1>1. revision \in Nat
  BY DEF IInv, TypeOK, DocumentOK
<1>2. ASSUME NEW confirmed \in BOOLEAN, BeginClose(a, confirmed)
      PROVE  /\ admin'[a].seen <= revision'
             /\ admin'[a].seen = revision' => admin'[a].batch = Included'
  BY <1>1, <1>2 DEF BeginClose, Included, documentVars, IInv, TypeOK, AdminsOK
<1>3. CASE admin'[a] = admin[a]
  <2>1. admin[a].seen <= revision /\ (admin[a].seen = revision => admin[a].batch = Included)
    BY <1>3 DEF IInv, ClosingCountsAreCurrent
  <2>2. admin[a].seen \in Nat
    BY DEF IInv, TypeOK, AdminsOK, Admin
  <2>3. CASE UNCHANGED documentVars
    BY <1>3, <2>1, <2>3 DEF documentVars, Included
  <2>4. CASE revision' = revision + 1
    BY <1>1, <1>3, <2>1, <2>2, <2>4
  <2> QED BY <2>3, <2>4, DocumentRevised
<1>4. admin'[a] = admin[a] \/ \E confirmed \in BOOLEAN : BeginClose(a, confirmed)
  <2>1. ASSUME NEW p \in Savers, SaverStep(p) PROVE admin' = admin
    BY <2>1 DEF SaverStep, BeginSave, LoadSave, StageSave, PublishSave, PublishWhen,
       Respond, SaverDies
  <2>2. ASSUME NEW b \in Admins, AdminStep(b)
        PROVE  admin'[a] = admin[a] \/ \E confirmed \in BOOLEAN : BeginClose(a, confirmed)
    <3>1. CASE b # a
      BY <2>2, <3>1 DEF AdminStep, BeginInvitations, StageInvitation, RemoveHead,
         StartCleaning, InstallInvitation, InstallWhen, IssueInvitations, CleanInvitations,
         CleanCheckpoints, BeginClose, CommitClose, AdminDies, EndAdmin, IInv, TypeOK,
         AdminsOK
    <3>2. CASE b = a
      <4>1. admin \in [Admins -> Admin]
        BY DEF IInv, TypeOK, AdminsOK
      <4>2. CASE InstallInvitation(a)
        BY <4>2, InstallEffect DEF IInv
      <4>3. CASE \E count \in 1 .. MaxSessions : BeginInvitations(a, count)
        BY <4>1, <4>3 DEF BeginInvitations, IdleAdmin
      <4>4. CASE \E s \in Sessions : StageInvitation(a, s) \/ RemoveHead(a, s)
        <5>1. ASSUME NEW s \in Sessions, StageInvitation(a, s) PROVE admin'[a].pc = "installing"
          BY <4>1, <5>1 DEF StageInvitation, Admin
        <5>2. ASSUME NEW s \in Sessions, RemoveHead(a, s) PROVE admin'[a].pc = "cleaning"
          BY <4>1, <5>2 DEF RemoveHead, StartCleaning, IdleAdmin
        <5> QED BY <4>4, <5>1, <5>2
      <4>5. CASE IssueInvitations(a) \/ CleanCheckpoints(a) \/ CommitClose(a) \/ AdminDies(a)
        BY <4>1, <4>5 DEF IssueInvitations, CleanCheckpoints, CommitClose, AdminDies,
           EndAdmin, IdleAdmin
      <4>6. CASE CleanInvitations(a)
        BY <4>1, <4>6 DEF CleanInvitations, Admin
      <4> QED BY <2>2, <3>2, <4>2, <4>3, <4>4, <4>5, <4>6 DEF AdminStep
    <3> QED BY <3>1, <3>2
  <2> QED BY <2>1, <2>2 DEF Next, Revoke, Exclude, UpdateInstructions, MarkFinalized
<1> QED BY <1>2, <1>3, <1>4

\* Every step keeps the closing report true.
LEMMA ReportStep ==
    ASSUME IInv, Next
    PROVE  CloseReportAccurate'
<1>1. CASE ~Collecting
  BY <1>1, ClosedStays DEF IInv, CloseReportAccurate, Included
<1>2. ASSUME NEW a \in Admins, CommitClose(a), Collecting
      PROVE  CloseReportAccurate'
  BY <1>2 DEF CommitClose, Collecting, Included, CloseReportAccurate, IInv,
     ClosingCountsAreCurrent
<1>3. ASSUME Collecting, Collecting' PROVE CloseReportAccurate'
  BY <1>3 DEF CloseReportAccurate
<1>4. Collecting /\ ~Collecting' => \E a \in Admins : CommitClose(a)
  BY ZenonT(60) DEF Next, SaverStep, AdminStep, Collecting, documentVars, BeginSave, LoadSave,
     StageSave, PublishSave, PublishWhen, Respond, SaverDies, BeginInvitations,
     StageInvitation, RemoveHead, InstallInvitation, InstallWhen, IssueInvitations,
     CleanInvitations, CleanCheckpoints, BeginClose, AdminDies, Revoke,
     Exclude, UpdateInstructions, MarkFinalized
<1> QED BY <1>1, <1>2, <1>3, <1>4

\* Every step keeps the heads on stored checkpoints.
LEMMA HeadsStep ==
    ASSUME IInv, Next
    PROVE  HeadsAreStored'
<1> SUFFICES ASSUME NEW s \in Live'
             PROVE  /\ <<s, heads'[s].checkpoint>> \in stored'
                    /\ <<s, Initial>> \in stored'
                    /\ content'[s][Initial] = EmptyCheckpoint(version')
                    /\ heads'[s].status = "invited" => heads'[s].checkpoint = Initial
                    /\ \A q \in content'[s][heads'[s].checkpoint].merged :
                          /\ <<s, q>> \in stored'
                          /\ content'[s][q].digest.expected < heads'[s].revision
  BY DEF HeadsAreStored, Current, Live, EmptyCheckpoint
<1>1. s \in Sessions /\ Exists(s)' /\ TypeOK /\ TypeOK' /\ Initial \in Ids
  BY TypeStep DEF Live, IInv, Ids
<1>2. CASE ~Exists(s)
  <2>1. PICK a \in Admins : /\ InstallInvitation(a) /\ Installing(a, s)
                            /\ admin[a].seen = version
    BY <1>1, <1>2, LiveSessions DEF HeadMove
  <2>2. heads'[s] = Invited /\ version' = version
    BY <1>1, <1>2, LiveSessions DEF HeadMove
  <2>3. UNCHANGED <<stored, content>>
    BY <2>1 DEF InstallInvitation, InstallWhen, storeVars
  <2>4. content[s][Initial] = EmptyCheckpoint(version) /\ <<s, Initial>> \in stored
    BY <1>1, <2>1 DEF Installing, InvitationsAreStaged, IInv
  <2> QED BY <2>2, <2>3, <2>4 DEF Invited, Absent, EmptyCheckpoint
<1>3. CASE Exists(s)
  <2>1. s \in Live /\ CheckpointsKept(s) /\ version' = version
    BY <1>1, <1>3, LiveCheckpoints, LiveSessions DEF Live, HeadMove
  <2>2. /\ <<s, heads[s].checkpoint>> \in stored /\ heads[s].checkpoint \in Ids
        /\ <<s, Initial>> \in stored /\ content[s][Initial] = EmptyCheckpoint(version)
        /\ heads[s].status = "invited" => heads[s].checkpoint = Initial
        /\ \A q \in Current(s).merged :
              /\ <<s, q>> \in stored /\ q \in Ids
              /\ content[s][q].digest.expected < heads[s].revision
              /\ content[s][q].digest.expected \in Nat
        /\ heads[s].revision \in Nat
    <3>1. heads[s] \in Head /\ heads[s].checkpoint \in Ids /\ heads[s].revision \in Nat
      BY <1>1 DEF TypeOK, DocumentOK, Head
    <3>2. Current(s) \in Checkpoint
      BY <1>1, <3>1 DEF Current, TypeOK, StoreOK
    <3>3. \A q \in Current(s).merged : q \in Ids
      BY <3>2 DEF Checkpoint, Ids
    <3>4. \A q \in Ids : content[s][q] \in Checkpoint
      BY <1>1 DEF TypeOK, StoreOK
    <3>5. \A q \in Ids : content[s][q].digest.expected \in Nat
      BY <3>4 DEF Checkpoint, Digest
    <3> QED BY <2>1, <3>1, <3>3, <3>5 DEF HeadsAreStored, IInv
  <2>3. CASE \E p \in Savers : Advanced(p, s)
    <3>1. PICK p \in Savers : Advanced(p, s)
      BY <2>3
    <3> DEFINE r == saver[p].request
    <3>2. UNCHANGED <<stored, content>>
      BY <3>1 DEF Advanced, PublishSave, PublishWhen, storeVars
    <3>3. /\ saver[p].pc = "staged" /\ r \in Requests
          /\ <<s, r>> \in stored /\ content[s][r].digest = saver[p].digest
      BY <2>1, <3>1 DEF Advanced, PublishSave, PublishWhen, SaversAreCurrent, IInv,
         TypeOK,
         SaversOK
    <3>4. content[s][r].merged = Current(s).merged \cup {r}
      BY <2>1, <3>1, <3>3 DEF CheckpointsExtendHeads, IInv, Advanced
    <3>5. /\ heads'[s].checkpoint = r /\ heads'[s].revision = heads[s].revision + 1
          /\ heads[s].revision = saver[p].digest.expected /\ heads'[s].status # "invited"
      BY <3>1 DEF Advanced
    <3> QED BY <2>1, <2>2, <3>2, <3>3, <3>4, <3>5
  <2>4. CASE /\ heads'[s].status = heads[s].status
             /\ heads'[s].checkpoint = heads[s].checkpoint
             /\ heads'[s].revision = heads[s].revision
    BY <1>1, <2>1, <2>2, <2>4 DEF CheckpointsKept, Current
  <2> QED BY <1>1, <1>3, <2>3, <2>4, LiveSessions DEF HeadMove
<1> QED BY <1>2, <1>3

\* Every step keeps the checkpoints that can be published on top of the heads.
LEMMA CheckpointsStep ==
    ASSUME IInv, Next
    PROVE  CheckpointsExtendHeads'
<1> SUFFICES ASSUME NEW s \in Live', NEW q \in Requests, <<s, q>> \in stored'
             PROVE  /\ content'[s][q].version = version' /\ content'[s][q].consented
                    /\ q \in content'[s][q].merged
                    /\ content'[s][q].digest.expected <= heads'[s].revision
                    /\ content'[s][q].digest.expected = heads'[s].revision =>
                          content'[s][q].merged = Current(s)'.merged \cup {q}
  BY DEF CheckpointsExtendHeads
<1>1. /\ s \in Sessions /\ Exists(s)' /\ TypeOK /\ TypeOK' /\ q \in Ids
      /\ heads[s].revision \in Nat /\ heads[s].checkpoint \in Ids
  BY TypeStep DEF Live, IInv, Ids, TypeOK, DocumentOK, Head
<1>2. CASE ~Exists(s)
  <2>1. PICK a \in Admins : InstallInvitation(a) /\ Installing(a, s)
    BY <1>1, <1>2, LiveSessions DEF HeadMove
  <2>2. UNCHANGED stored
    BY <2>1 DEF InstallInvitation, InstallWhen, storeVars
  <2>3. FALSE
    BY <1>1, <2>1, <2>2, StudyAssumption DEF Installing, InvitationsAreStaged, IInv
  <2> QED BY <2>3
<1>3. CASE Exists(s)
  <2>1. s \in Live /\ CheckpointsKept(s) /\ version' = version
    BY <1>1, <1>3, LiveCheckpoints, LiveSessions DEF Live, HeadMove
  <2>2. <<s, heads[s].checkpoint>> \in stored
    BY <2>1 DEF HeadsAreStored, IInv
  <2>3. content[s][q].digest.expected \in Nat
    BY <1>1 DEF TypeOK, StoreOK, Checkpoint, Digest
  <2>4. CASE \E p \in Savers : Advanced(p, s)
    <3>1. UNCHANGED <<stored, content>> /\ heads'[s].revision = heads[s].revision + 1
      BY <2>4 DEF Advanced, PublishSave, PublishWhen, storeVars
    <3>2. /\ content[s][q].version = version /\ content[s][q].consented
          /\ q \in content[s][q].merged
          /\ content[s][q].digest.expected <= heads[s].revision
      BY <2>1, <3>1 DEF CheckpointsExtendHeads, IInv
    <3> QED BY <1>1, <2>1, <2>3, <3>1, <3>2
  <2>5. CASE /\ heads'[s].checkpoint = heads[s].checkpoint
             /\ heads'[s].revision = heads[s].revision
    <3>1. Current(s)' = Current(s)
      BY <1>1, <2>1, <2>2, <2>5 DEF Current, CheckpointsKept
    <3>2. CASE <<s, q>> \in stored
      BY <1>1, <2>1, <2>5, <3>1, <3>2 DEF CheckpointsKept, CheckpointsExtendHeads, IInv
    <3>3. CASE <<s, q>> \notin stored
      <4>1. PICK p \in Savers : StageSave(p) /\ saver[p].session = s /\ saver[p].request = q
        BY <1>1, <2>1, <3>3 DEF CheckpointsKept
      <4> DEFINE base == saver[p].base
                 d == saver[p].digest
      <4>2. /\ <<s, base>> \in stored /\ saver[p].accepted = version
            /\ d.action # "consent" => content[s][base].consented
            /\ d.expected <= heads[s].revision
            /\ d.expected = heads[s].revision => base = heads[s].checkpoint
        BY <2>1, <4>1 DEF StageSave, SaversAreCurrent, IInv
      <4>3. content' = [content EXCEPT ![s][q] =
                          Merge(content[s][base], q, d, saver[p].accepted)]
        BY <3>3, <4>1 DEF StageSave
      <4>4. content'[s][q] = Merge(content[s][base], q, d, saver[p].accepted)
        BY <1>1, <4>3 DEF TypeOK, StoreOK
      <4>5. content[s][base].version = version
        <5>1. CASE base = Initial
          <6>1. content[s][Initial] = EmptyCheckpoint(version)
            BY <2>1 DEF HeadsAreStored, IInv
          <6> QED BY <5>1, <6>1 DEF EmptyCheckpoint
        <5>2. CASE base \in Requests
          BY <2>1, <4>2, <5>2 DEF CheckpointsExtendHeads, IInv
        <5> QED BY <1>1, <5>1, <5>2 DEF TypeOK, SaversOK, Saver, Ids
      <4>6. /\ content'[s][q].digest = d
            /\ content'[s][q].merged = content[s][base].merged \cup {q}
            /\ content'[s][q].consented = (content[s][base].consented \/ d.action = "consent")
            /\ content'[s][q].version = IF d.action = "consent" THEN saver[p].accepted
                                        ELSE content[s][base].version
        BY <4>4 DEF Merge
      <4>7. content'[s][q].version = version' /\ content'[s][q].consented
        BY <2>1, <4>2, <4>5, <4>6
      <4>8. d.expected = heads[s].revision =>
               content'[s][q].merged = Current(s).merged \cup {q}
        BY <4>2, <4>6 DEF Current
      <4> QED BY <2>5, <3>1, <4>2, <4>6, <4>7, <4>8
    <3> QED BY <3>2, <3>3
  <2> QED BY <1>1, <1>3, <2>4, <2>5, LiveSessions DEF HeadMove
<1> QED BY <1>2, <1>3

\* Every step keeps the checkpoints of sessions without a head: none before the
\* session is drawn, and the empty one while it is installed.
LEMMA InvitationsStep ==
    ASSUME IInv, Next
    PROVE  InvitationsAreStaged'
<1>1. TypeOK
  BY DEF IInv
<1>2. ASSUME NEW p \in Savers, StageSave(p) PROVE InvitationsAreStaged'
  <2> PICK s \in Sessions : s = saver[p].session
    BY <1>1, <1>2 DEF StageSave, TypeOK, SaversOK
  <2>1. s \in used /\ \A a \in Admins : ~Installing(a, s)
    BY <1>2 DEF StageSave, IInv, SessionsAreDrawnOnce, Settled
  <2>2. UNCHANGED <<used, admin>>
    BY <1>2 DEF StageSave
  <2>3. saver[p].request \in Ids
    BY <1>1, <1>2 DEF StageSave, TypeOK, SaversOK, Ids
  <2>4. \A t \in Sessions \ {s}, c \in Ids : /\ <<t, c>> \in stored' <=> <<t, c>> \in stored
                                             /\ content'[t][c] = content[t][c]
    BY <1>1, <1>2, <2>3 DEF StageSave, TypeOK, StoreOK
  <2>5. \A a \in Admins : admin[a].pc = "installing" =>
           admin[a].session \in Sessions \ {s}
    BY <1>1, <2>1 DEF Installing, TypeOK, AdminsOK
  <2> QED BY <2>1, <2>2, <2>4, <2>5, ZenonT(60) DEF InvitationsAreStaged, IInv, Ids, EmptyCheckpoint
<1>3. ASSUME NEW a \in Admins, NEW s \in Sessions, StageInvitation(a, s)
      PROVE  InvitationsAreStaged'
  <2>1. /\ used' = used \cup {s} /\ s \notin used
        /\ stored' = stored \cup {<<s, Initial>>}
        /\ content'[s][Initial] = EmptyCheckpoint(admin[a].seen)
        /\ \A t \in Sessions \ {s} : content'[t] = content[t]
    BY <1>1, <1>3 DEF StageInvitation, TypeOK, StoreOK, Ids
  <2>2. /\ admin'[a].session = s /\ admin'[a].seen = admin[a].seen
        /\ \A b \in Admins \ {a} : admin'[b] = admin[b]
    BY <1>1, <1>3 DEF StageInvitation, TypeOK, AdminsOK, Admin
  <2>3. \A b \in Admins \ {a} : admin[b].pc = "installing" =>
           admin[b].session \in Sessions \ {s}
    BY <1>1, <2>1 DEF IInv, SessionsAreDrawnOnce, TypeOK, AdminsOK
  <2>4. \A c \in Ids : <<s, c>> \in stored' <=> c = Initial
    BY <2>1 DEF IInv, InvitationsAreStaged, Ids
  <2>5. \A t \in Sessions \ used', c \in Ids : <<t, c>> \notin stored'
    BY <2>1 DEF IInv, InvitationsAreStaged
  <2>6. ASSUME NEW b \in Admins \ {a}, admin'[b].pc = "installing"
        PROVE  /\ content'[admin'[b].session][Initial] = EmptyCheckpoint(admin'[b].seen)
               /\ \A c \in Ids : <<admin'[b].session, c>> \in stored' <=> c = Initial
    <3>1. admin'[b] = admin[b] /\ admin[b].session \in Sessions \ {s}
      BY <2>2, <2>3, <2>6
    <3>2. /\ content[admin[b].session][Initial] = EmptyCheckpoint(admin[b].seen)
          /\ \A c \in Ids : <<admin[b].session, c>> \in stored <=> c = Initial
      BY <2>6, <3>1 DEF IInv, InvitationsAreStaged
    <3> QED BY <2>1, <3>1, <3>2
  <2>7. /\ content'[admin'[a].session][Initial] = EmptyCheckpoint(admin'[a].seen)
        /\ \A c \in Ids : <<admin'[a].session, c>> \in stored' <=> c = Initial
    BY <2>1, <2>2, <2>4
  <2> QED BY <2>5, <2>6, <2>7 DEF InvitationsAreStaged, EmptyCheckpoint, Ids
<1>4. ASSUME NEW a \in Admins, CleanCheckpoints(a) PROVE InvitationsAreStaged'
  <2>1. /\ admin'[a].pc = "idle" /\ \A b \in Admins \ {a} : admin'[b] = admin[b]
        /\ UNCHANGED <<used, content>>
    BY <1>1, <1>4 DEF CleanCheckpoints, EndAdmin, IdleAdmin, TypeOK, AdminsOK
  <2>2. \A b \in Admins : admin[b].pc = "installing" => admin[b].session # admin[a].session
    BY <1>4 DEF CleanCheckpoints, IInv, SessionsAreDrawnOnce, Settled, Installing
  <2>3. /\ stored' \subseteq stored
        /\ \A t, c : t # admin[a].session /\ <<t, c>> \in stored => <<t, c>> \in stored'
    BY <1>4 DEF CleanCheckpoints
  <2>4. ASSUME NEW b \in Admins \ {a}, admin[b].pc = "installing"
        PROVE  /\ content[admin[b].session][Initial] = EmptyCheckpoint(admin[b].seen)
               /\ \A c \in Ids : <<admin[b].session, c>> \in stored' <=> c = Initial
    BY <2>2, <2>3, <2>4 DEF InvitationsAreStaged, IInv
  <2> QED BY <2>1, <2>3, <2>4 DEF InvitationsAreStaged, IInv, EmptyCheckpoint
<1>5. ASSUME UNCHANGED <<used, stored, content>>,
             \A b \in Admins : admin'[b].pc = "installing" => admin'[b] = admin[b]
      PROVE  InvitationsAreStaged'
  BY <1>5 DEF InvitationsAreStaged, IInv, EmptyCheckpoint
<1>6. ASSUME NEW p \in Savers, SaverStep(p), ~StageSave(p)
      PROVE  UNCHANGED <<used, stored, content, admin>>
  BY <1>6 DEF SaverStep, BeginSave, LoadSave, PublishSave, PublishWhen, Respond,
     SaverDies, storeVars
<1>7. ASSUME NEW a \in Admins, AdminStep(a), ~CleanCheckpoints(a),
             \A s \in Sessions : ~StageInvitation(a, s)
      PROVE  UNCHANGED <<used, stored, content>>
  BY <1>7 DEF AdminStep, BeginInvitations, RemoveHead, InstallInvitation, InstallWhen,
     IssueInvitations, CleanInvitations, BeginClose, CommitClose, AdminDies, storeVars
<1>8. ASSUME NEW a \in Admins, AdminStep(a), \A s \in Sessions : ~StageInvitation(a, s)
      PROVE  \A b \in Admins : admin'[b].pc = "installing" => admin'[b] = admin[b]
  <2>1. \A b \in Admins \ {a} : admin'[b] = admin[b]
    BY <1>1, <1>8 DEF AdminStep, BeginInvitations, RemoveHead,
       StartCleaning, InstallInvitation, InstallWhen, IssueInvitations, CleanInvitations,
       CleanCheckpoints, BeginClose, CommitClose, AdminDies, EndAdmin, TypeOK, AdminsOK
  <2>2. CASE InstallInvitation(a)
    BY <1>1, <2>1, <2>2, InstallEffect
  <2>3. CASE CleanInvitations(a)
    BY <1>1, <2>1, <2>3 DEF CleanInvitations, TypeOK, AdminsOK, Admin
  <2>4. CASE ~InstallInvitation(a) /\ ~CleanInvitations(a)
    <3>1. admin'[a].pc # "installing"
      <4>1. admin \in [Admins -> Admin]
        BY <1>1 DEF TypeOK, AdminsOK
      <4>2. CASE \E s \in Sessions : RemoveHead(a, s)
        BY <4>1, <4>2 DEF RemoveHead, StartCleaning, IdleAdmin
      <4>3. CASE IssueInvitations(a) \/ CleanCheckpoints(a) \/ CommitClose(a) \/ AdminDies(a)
        BY <4>1, <4>3 DEF IssueInvitations, CleanCheckpoints, CommitClose, AdminDies,
           EndAdmin, IdleAdmin
      <4>4. CASE \/ \E count \in 1 .. MaxSessions : BeginInvitations(a, count)
                 \/ \E confirmed \in BOOLEAN : BeginClose(a, confirmed)
        BY <4>1, <4>4 DEF BeginInvitations, BeginClose, IdleAdmin
      <4> QED BY <1>8, <2>4, <4>2, <4>3, <4>4 DEF AdminStep
    <3> QED BY <2>1, <3>1
  <2> QED BY <2>2, <2>3, <2>4
<1>9. ASSUME \/ \E s \in Sessions : Revoke(s) \/ \E x \in BOOLEAN : Exclude(s, x)
             \/ UpdateInstructions \/ MarkFinalized
      PROVE  UNCHANGED <<used, stored, content, admin>>
  BY <1>9 DEF Revoke, Exclude, UpdateInstructions, MarkFinalized, storeVars
<1> QED
  <2>1. ASSUME NEW p \in Savers, SaverStep(p) PROVE InvitationsAreStaged'
    BY <2>1, <1>2, <1>5, <1>6
  <2>2. ASSUME NEW a \in Admins, AdminStep(a) PROVE InvitationsAreStaged'
    BY <2>2, <1>3, <1>4, <1>5, <1>7, <1>8
  <2> QED BY <2>1, <2>2, <1>5, <1>9 DEF Next

\* What a session's present checkpoint becomes in a step: itself, or the checkpoint
\* of a request that is not merged into it yet, with this request added.
CurrentMove(s) ==
    \/ /\ Current(s)' = Current(s)
       /\ heads'[s].status = heads[s].status
       /\ heads'[s].checkpoint = heads[s].checkpoint
       /\ heads'[s].revision = heads[s].revision
    \/ \E p \in Savers : LET q == saver[p].request IN
          /\ Advanced(p, s) /\ q \in Requests
          /\ q \notin Current(s).merged
          /\ Current(s)'.merged = Current(s).merged \cup {q}
          /\ Current(s)'.consented

LEMMA CurrentMoves ==
    ASSUME IInv, Next, NEW s \in Live, Exists(s)'
    PROVE  CurrentMove(s)
<1>1. /\ s \in Sessions /\ TypeOK /\ CheckpointsKept(s) /\ HeadMove(s) /\ Exists(s)
      /\ heads[s].checkpoint \in Ids
  BY LiveSessions, LiveCheckpoints DEF Live, IInv, TypeOK, DocumentOK, Head
<1>2. <<s, heads[s].checkpoint>> \in stored
  BY DEF IInv, HeadsAreStored
<1>3. ASSUME NEW p \in Savers, Advanced(p, s) PROVE CurrentMove(s)
  <2> DEFINE q == saver[p].request
  <2>1. /\ q \in Requests /\ <<s, q>> \in stored /\ content[s][q].digest = saver[p].digest
        /\ UNCHANGED content /\ heads'[s].checkpoint = q
        /\ saver[p].digest.expected = heads[s].revision
    BY <1>1, <1>3 DEF Advanced, PublishSave, PublishWhen, IInv, SaversAreCurrent, TypeOK,
       SaversOK, storeVars
  <2>2. /\ content[s][q].consented
        /\ content[s][q].merged = Current(s).merged \cup {q}
    BY <2>1 DEF IInv, CheckpointsExtendHeads
  <2>3. q \notin Current(s).merged
    <3>1. heads[s].revision \in Nat
      BY <1>1 DEF TypeOK, DocumentOK, Head
    <3>2. \A c \in Current(s).merged : content[s][c].digest.expected < heads[s].revision
      BY DEF IInv, HeadsAreStored
    <3> QED BY <2>1, <3>1, <3>2
  <2>4. Current(s)' = content[s][q]
    BY <2>1 DEF Current
  <2> QED BY <1>3, <2>1, <2>2, <2>3, <2>4 DEF CurrentMove
<1>4. CASE /\ heads'[s].status = heads[s].status
           /\ heads'[s].checkpoint = heads[s].checkpoint
           /\ heads'[s].revision = heads[s].revision
  BY <1>1, <1>2, <1>4 DEF CheckpointsKept, Current, CurrentMove
<1> QED BY <1>1, <1>3, <1>4 DEF HeadMove

\* The steps of one participant's request.
LEMMA SaverMoves ==
    ASSUME TypeOK, Next, NEW r \in Savers
    PROVE  \/ saver'[r] = saver[r] \/ saver'[r].pc = "idle"
           \/ \E s \in Sessions, q \in Requests, d \in SentDigest : BeginSave(r, s, q, d)
           \/ LoadSave(r) \/ StageSave(r) \/ PublishSave(r)
<1>1. ASSUME NEW p \in Savers, SaverStep(p), p # r PROVE saver'[r] = saver[r]
  BY <1>1, SaverEffect DEF SaverStep, BeginSave, TypeOK, SaversOK
<1>2. ASSUME Respond(r) \/ SaverDies(r) PROVE saver'[r].pc = "idle"
  BY <1>2 DEF Respond, SaverDies, EndSave, IdleSaver, TypeOK, SaversOK
<1>3. ASSUME NEW a \in Admins, AdminStep(a) PROVE saver' = saver
  BY <1>3 DEF AdminStep, BeginInvitations, StageInvitation, RemoveHead, InstallInvitation,
     InstallWhen, IssueInvitations, CleanInvitations, CleanCheckpoints, BeginClose,
     CommitClose, AdminDies
<1> QED BY <1>1, <1>2, <1>3 DEF Next, SaverStep, Revoke, Exclude, UpdateInstructions,
        MarkFinalized

\* The session of a request in progress was there when the request began.
LEMMA SaverSession ==
    ASSUME IInv, Next, NEW r \in Savers, saver[r].pc # "idle",
           NEW s \in Live', saver[r].session = s
    PROVE  s \in Live
<1>1. s \in Sessions /\ Exists(s)' /\ Settled(s)
  BY DEF Live, IInv, SessionsAreDrawnOnce
<1>2. HeadMove(s)
  BY <1>1, LiveSessions DEF IInv
<1> QED BY <1>1, <1>2 DEF HeadMove, Settled, Live

\* What holds of a request in progress on session s, and at each of its stages.
Attended(r, s) ==
    /\ saver[r].accepted = version
    /\ saver[r].digest.action # "consent" => Current(s).consented

LoadedWell(r, s) ==
    /\ <<s, saver[r].base>> \in stored
    /\ saver[r].digest.action # "consent" => content[s][saver[r].base].consented
    /\ saver[r].digest.expected <= heads[s].revision
    /\ saver[r].digest.expected = heads[s].revision => saver[r].base = heads[s].checkpoint

StagedWell(r, s) ==
    /\ <<s, saver[r].request>> \in stored
    /\ content[s][saver[r].request].digest = saver[r].digest

\* They survive every step that leaves this request alone or goes on with it.
LEMMA AttendedStays ==
    ASSUME IInv, Next, NEW r \in Savers, saver[r].pc # "idle",
           NEW s \in Live', saver[r].session = s,
           saver'[r].accepted = saver[r].accepted, saver'[r].digest = saver[r].digest
    PROVE  Attended(r, s)'
<1>1. s \in Live /\ Exists(s)' /\ s \in Sessions
  BY SaverSession DEF Live
<1>2. Attended(r, s)
  BY <1>1 DEF IInv, SaversAreCurrent, Attended
<1>3. version' = version
  BY <1>1, LiveSessions DEF HeadMove, IInv
<1>4. Current(s).consented => Current(s)'.consented
  BY <1>1, CurrentMoves DEF CurrentMove
<1> QED BY <1>2, <1>3, <1>4 DEF Attended

LEMMA LoadedStays ==
    ASSUME IInv, Next, NEW r \in Savers, saver[r].pc = "loaded",
           NEW s \in Live', saver[r].session = s, saver'[r] = saver[r]
    PROVE  LoadedWell(r, s)'
<1>1. s \in Live /\ Exists(s)' /\ s \in Sessions
  BY SaverSession DEF Live
<1>2. LoadedWell(r, s)
  BY <1>1 DEF IInv, SaversAreCurrent, LoadedWell
<1>3. saver[r].base \in Ids /\ saver[r].digest.expected \in Nat /\ heads[s].revision \in Nat
  BY <1>1 DEF IInv, TypeOK, SaversOK, Saver, Digest, DocumentOK, Head
<1>4. /\ <<s, saver[r].base>> \in stored'
      /\ content'[s][saver[r].base] = content[s][saver[r].base]
  BY <1>1, <1>2, <1>3, LiveCheckpoints DEF CheckpointsKept, LoadedWell
<1>5. \/ heads'[s].revision = heads[s].revision + 1
      \/ /\ heads'[s].revision = heads[s].revision
         /\ heads'[s].checkpoint = heads[s].checkpoint
  BY <1>1, CurrentMoves DEF CurrentMove, Advanced
<1> QED BY <1>2, <1>3, <1>4, <1>5 DEF LoadedWell

LEMMA StagedStays ==
    ASSUME IInv, Next, NEW r \in Savers, saver[r].pc = "staged",
           NEW s \in Live', saver[r].session = s, saver'[r] = saver[r]
    PROVE  StagedWell(r, s)'
<1>1. s \in Live
  BY SaverSession
<1>2. StagedWell(r, s)
  BY <1>1 DEF IInv, SaversAreCurrent, StagedWell
<1>3. saver[r].request \in Ids
  BY DEF IInv, TypeOK, SaversOK, Ids
<1> QED BY <1>1, <1>2, <1>3, LiveCheckpoints DEF CheckpointsKept, StagedWell

LEMMA PublishedStays ==
    ASSUME IInv, Next, NEW r \in Savers, saver[r].pc = "published", saver'[r] = saver[r],
           NEW s \in Sessions, saver[r].session = s
    PROVE  s \in Live' /\ saver[r].request \in Current(s)'.merged
<1>1. s \in Live /\ saver[r].request \in Current(s).merged
  BY DEF IInv, SaversAreCurrent
<1>2. Exists(s)'
  <2>1. ASSUME NEW a \in Admins, RemoveHead(a, s) PROVE FALSE
    <3>1. heads[s].checkpoint = Initial
      BY <1>1, <2>1 DEF RemoveHead, Untouched, IInv, HeadsAreStored
    <3>2. content[s][Initial] = EmptyCheckpoint(version)
      BY <1>1 DEF IInv, HeadsAreStored
    <3> QED BY <1>1, <3>1, <3>2 DEF Current, EmptyCheckpoint
  <2>2. CASE heads' = heads
    BY <1>1, <2>2 DEF Live, Exists
  <2>3. ASSUME NEW a \in Admins, NEW t \in Sessions, RemoveHead(a, t) PROVE Exists(s)'
    BY <1>1, <2>1, <2>3 DEF RemoveHead, Live, Exists, IInv, TypeOK, DocumentOK
  <2>4. ASSUME NEW p \in Savers, PublishSave(p) PROVE Exists(s)'
    BY <1>1, <2>4, PublishEffect DEF Live, Exists, IInv
  <2>5. ASSUME NEW a \in Admins, InstallInvitation(a) PROVE Exists(s)'
    BY <1>1, <2>5, InstallEffect DEF Live, Exists, IInv
  <2>6. ASSUME NEW t \in Sessions, Revoke(t) \/ \E x \in BOOLEAN : Exclude(t, x)
        PROVE  Exists(s)'
    BY <1>1, <2>6, FlagEffect DEF Live, Exists, IInv
  <2>7. ASSUME NEW p \in Savers, SaverStep(p), ~PublishSave(p) PROVE heads' = heads
    BY <2>7 DEF SaverStep, BeginSave, LoadSave, StageSave, Respond, SaverDies,
       documentVars
  <2>8. ASSUME NEW a \in Admins, AdminStep(a), ~InstallInvitation(a),
               \A t \in Sessions : ~RemoveHead(a, t)
        PROVE  heads' = heads
    BY <2>8 DEF AdminStep, BeginInvitations, StageInvitation, IssueInvitations,
       CleanInvitations, CleanCheckpoints, BeginClose, CommitClose, AdminDies, documentVars
  <2>9. UpdateInstructions \/ MarkFinalized => heads' = heads
    BY DEF UpdateInstructions, MarkFinalized
  <2> QED BY <2>2, <2>3, <2>4, <2>5, <2>6, <2>7, <2>8, <2>9 DEF Next
<1>3. CurrentMove(s)
  BY <1>1, <1>2, CurrentMoves
<1> QED BY <1>1, <1>2, <1>3 DEF CurrentMove, Live

\* Every step keeps what participants' requests have read good enough.
LEMMA SaversCurrentStep ==
    ASSUME IInv, Next
    PROVE  SaversAreCurrent'
<1> SUFFICES ASSUME NEW r \in Savers, NEW s, s = saver'[r].session
             PROVE  /\ saver'[r].pc # "idle" /\ s \in Live' => Attended(r, s)'
                    /\ saver'[r].pc = "loaded" /\ s \in Live' => LoadedWell(r, s)'
                    /\ saver'[r].pc = "staged" /\ s \in Live' => StagedWell(r, s)'
                    /\ saver'[r].pc = "published" =>
                          s \in Live' /\ saver'[r].request \in Current(s)'.merged
  BY DEF SaversAreCurrent, Attended, LoadedWell, StagedWell, Current
<1>1. TypeOK /\ TypeOK' /\ (saver'[r].pc # "idle" => s \in Sessions)
  BY TypeStep DEF IInv, TypeOK, SaversOK
<1>2. CASE saver'[r] = saver[r]
  BY <1>1, <1>2, AttendedStays, LoadedStays, StagedStays, PublishedStays
<1>3. CASE saver'[r].pc = "idle"
  BY <1>3
<1>4. ASSUME NEW t \in Sessions, NEW q \in Requests, NEW d \in SentDigest, BeginSave(r, t, q, d)
      PROVE  saver'[r].pc = "begun" /\ Attended(r, s)'
  <2>1. /\ saver'[r].pc = "begun" /\ s = t /\ saver'[r].accepted = version
        /\ saver'[r].digest = d
    BY <1>1, <1>4 DEF BeginSave, TypeOK, SaversOK
  <2>2. /\ d.action # "consent" => Current(t).consented
        /\ UNCHANGED <<heads, content, version>>
    BY <1>4 DEF BeginSave, documentVars, storeVars
  <2> QED BY <2>1, <2>2 DEF Attended, Current
<1>5. CASE LoadSave(r)
  <2> DEFINE head == heads[s]
  <2>1. UNCHANGED <<heads, content, stored, version>>
    BY <1>5 DEF LoadSave, documentVars, storeVars
  <2>2. CASE saver'[r].pc = "idle"
    BY <2>2
  <2>3. CASE saver'[r].pc # "idle"
    <3>1. saver[r].session = s /\ saver[r].pc = "begun"
          /\ saver'[r].accepted = saver[r].accepted /\ saver'[r].digest = saver[r].digest
          /\ saver'[r].request = saver[r].request
      BY <1>1, <1>5, <2>3, SaverEffect DEF LoadSave
    <3>2. /\ Exists(s)
          /\ \/ saver'[r].pc = "published" /\ head.checkpoint = saver[r].request
             \/ /\ saver'[r].pc = "loaded" /\ saver'[r].base = head.checkpoint
                /\ saver[r].digest.expected = head.revision
      <4>1. CASE saver' = [saver EXCEPT ![r].pc = "published"]
        BY <1>1, <1>5, <2>3, <3>1, <4>1 DEF LoadSave, EndSave, IdleSaver, Reachable,
           TypeOK,
           SaversOK, Saver
      <4>2. CASE saver' = [saver EXCEPT ![r].pc = "loaded", ![r].base = head.checkpoint]
        <5>1. saver'[r].pc = "loaded" /\ saver'[r].base = head.checkpoint
          <6>1. saver \in [Savers -> Saver]
            BY <1>1 DEF TypeOK, SaversOK
          <6>2. saver'[r] = [saver[r] EXCEPT !.pc = "loaded", !.base = head.checkpoint]
            BY <4>2, <6>1
          <6>3. saver[r] \in Saver
            BY <6>1
          <6> HIDE DEF head
          <6> QED BY <6>2, <6>3 DEF Saver
        <5>2. ASSUME saver' = [saver EXCEPT ![r].pc = "published"] PROVE FALSE
          BY <1>1, <5>1, <5>2 DEF TypeOK, SaversOK, Saver
        <5>3. ASSUME saver' = [saver EXCEPT ![r] = IdleSaver] PROVE FALSE
          BY <1>1, <5>1, <5>3 DEF IdleSaver, TypeOK, SaversOK
        <5>4. Reachable(s) /\ saver[r].digest.expected = head.revision
          BY <1>5, <3>1, <5>2, <5>3 DEF LoadSave, EndSave
        <5> QED BY <5>1, <5>4 DEF Reachable
      <4>3. CASE saver' = [saver EXCEPT ![r] = IdleSaver]
        BY <1>1, <2>3, <4>3 DEF IdleSaver, TypeOK, SaversOK
      <4> QED BY <1>5, <3>1, <4>1, <4>2, <4>3 DEF LoadSave, EndSave
    <3>3. s \in Live /\ s \in Live' /\ Live' = Live
      BY <1>1, <2>1, <2>3, <3>2 DEF Live, Exists
    <3>4. Attended(r, s)' /\ Attended(r, s)
      BY <3>1, <3>3, AttendedStays DEF IInv, SaversAreCurrent, Attended
    <3>5. CASE saver'[r].pc = "published" /\ head.checkpoint = saver[r].request
      <4>1. saver[r].request \in Requests /\ <<s, saver[r].request>> \in stored
        BY <1>1, <3>1, <3>3, <3>5 DEF TypeOK, SaversOK, IInv, HeadsAreStored
      <4>2. saver[r].request \in content[s][saver[r].request].merged
        BY <3>3, <4>1 DEF IInv, CheckpointsExtendHeads
      <4> QED BY <2>1, <3>1, <3>3, <3>4, <3>5, <4>2 DEF Current
    <3>6. CASE /\ saver'[r].pc = "loaded" /\ saver'[r].base = head.checkpoint
               /\ saver[r].digest.expected = head.revision
      <4>1. <<s, head.checkpoint>> \in stored /\ head.revision \in Nat
        BY <1>1, <3>3 DEF IInv, HeadsAreStored, TypeOK, DocumentOK, Head, Live
      <4>2. saver'[r].digest.action # "consent" =>
                content'[s][saver'[r].base].consented
        BY <2>1, <3>4, <3>6 DEF Attended, Current
      <4>3. LoadedWell(r, s)'
        BY <2>1, <3>1, <3>6, <4>1, <4>2 DEF LoadedWell
      <4> QED BY <3>4, <3>6, <4>3
    <3> QED BY <3>2, <3>5, <3>6
  <2> QED BY <2>2, <2>3
<1>6. CASE StageSave(r)
  <2>1. CASE saver'[r].pc = "idle"
    BY <2>1
  <2>2. CASE saver'[r].pc # "idle" /\ s \in Live'
    <3>1. /\ saver[r].session = s /\ saver[r].pc = "loaded"
          /\ saver'[r].accepted = saver[r].accepted /\ saver'[r].digest = saver[r].digest
          /\ saver'[r].request = saver[r].request
      BY <1>1, <1>6, <2>2, SaverEffect DEF StageSave
    <3>2. saver'[r].pc = "staged"
      BY <1>1, <1>6, <2>2 DEF StageSave, EndSave, IdleSaver, TypeOK, SaversOK, Saver
    <3>3. s \in Sessions /\ saver[r].request \in Ids
      BY <1>1, <2>2, <3>1 DEF TypeOK, SaversOK, Ids
    <3>4. StagedWell(r, s)'
      <4>1. <<s, saver[r].request>> \in stored'
        BY <1>6, <3>1 DEF StageSave
      <4>2. CASE <<s, saver[r].request>> \in stored
        <5>1. content' = content
          BY <1>6, <3>1, <4>2 DEF StageSave
        <5>2. content[s][saver[r].request].digest = saver[r].digest
          BY <1>1, <1>6, <3>1, <3>2, <4>2 DEF StageSave, EndSave, IdleSaver, TypeOK,
             SaversOK
        <5> QED BY <3>1, <4>1, <5>1, <5>2 DEF StagedWell
      <4>3. CASE <<s, saver[r].request>> \notin stored
        <5>1. content' = [content EXCEPT ![s][saver[r].request] =
                             Merge(content[s][saver[r].base], saver[r].request,
                                   saver[r].digest, saver[r].accepted)]
          BY <1>6, <3>1, <4>3 DEF StageSave
        <5>2. content'[s][saver[r].request].digest = saver[r].digest
          BY <1>1, <3>3, <5>1, ZenonT(60) DEF Merge, TypeOK, StoreOK
        <5> QED BY <3>1, <4>1, <5>2 DEF StagedWell
      <4> QED BY <4>2, <4>3
    <3>5. Attended(r, s)'
      BY <2>2, <3>1, AttendedStays
    <3> QED BY <3>2, <3>4, <3>5
  <2>3. CASE saver'[r].pc # "idle" /\ s \notin Live'
    <3>1. saver'[r].pc = "staged"
      BY <1>1, <1>6, <2>3 DEF StageSave, EndSave, IdleSaver, TypeOK, SaversOK, Saver
    <3> QED BY <2>3, <3>1
  <2> QED BY <2>1, <2>2, <2>3
<1>7. CASE PublishSave(r)
  <2>1. CASE saver'[r].pc = "idle"
    BY <2>1
  <2>2. CASE saver'[r].pc # "idle"
    <3>1. /\ saver[r].session = s /\ saver[r].pc = "staged"
          /\ saver'[r].accepted = saver[r].accepted /\ saver'[r].digest = saver[r].digest
          /\ saver'[r].request = saver[r].request
      BY <1>1, <1>7, <2>2, SaverEffect, PublishEffect
    <3>2. /\ saver'[r].pc = "published" /\ Exists(s) /\ Exists(s)'
          /\ heads'[s].checkpoint = saver[r].request
      BY <1>1, <1>7, <2>2, <3>1, PublishEffect DEF Exists
    <3>3. s \in Live /\ s \in Live' /\ saver[r].request \in Requests
      BY <1>1, <2>2, <3>1, <3>2 DEF Live, TypeOK, SaversOK
    <3>4. UNCHANGED <<stored, content>>
      BY <1>7 DEF PublishSave, PublishWhen, storeVars
    <3>5. saver[r].request \in content[s][saver[r].request].merged
      <4>1. <<s, saver[r].request>> \in stored
        BY <3>1, <3>3 DEF IInv, SaversAreCurrent
      <4> QED BY <3>3, <4>1 DEF IInv, CheckpointsExtendHeads
    <3>6. Attended(r, s)'
      BY <3>1, <3>3, AttendedStays
    <3> QED BY <3>1, <3>2, <3>3, <3>4, <3>5, <3>6 DEF Current
  <2> QED BY <2>1, <2>2
<1> QED BY <1>1, <1>2, <1>3, <1>4, <1>5, <1>6, <1>7, SaverMoves

-----------------------------------------------------------------------------
(* The invariant *)

\* The first state has it.
LEMMA Initially ==
    ASSUME Init
    PROVE  IInv
<1>1. Live = {}
  BY DEF Init, Live, Exists, Absent
<1>2. EmptyCheckpoint(1) \in Checkpoint /\ Absent \in Head /\ Initial \in Ids
  BY DEF EmptyCheckpoint, Checkpoint, Digest, Actions, Absent, Head, Ids
<1>3. TypeOK
  BY <1>2, IdleOK DEF Init, TypeOK, DocumentOK, StoreOK, SaversOK, AdminsOK, IdleSaver,
     IdleAdmin
<1>4. SessionsAreDrawnOnce /\ InvitationsAreStaged
  BY <1>1 DEF Init, SessionsAreDrawnOnce, InvitationsAreStaged, IdleSaver, IdleAdmin
<1>5. HeadsAreStored /\ CheckpointsExtendHeads
  BY <1>1 DEF HeadsAreStored, CheckpointsExtendHeads
<1>6. SaversAreCurrent /\ ClosingCountsAreCurrent
  BY DEF Init, SaversAreCurrent, ClosingCountsAreCurrent, IdleSaver, IdleAdmin
<1>7. CloseReportAccurate
  BY DEF Init, CloseReportAccurate, Collecting
<1>8. SessionLimit
  BY <1>1, FS_EmptySet, StudyAssumption DEF SessionLimit
<1> QED BY <1>3, <1>4, <1>5, <1>6, <1>7, <1>8 DEF IInv

\* Every step keeps it.
LEMMA Inductive ==
    ASSUME IInv, [Next]_vars
    PROVE  IInv'
<1>1. CASE Next
  <2>1. TypeOK'
    BY <1>1, TypeStep DEF IInv
  <2> QED BY <1>1, <2>1, DrawnStep, InvitationsStep, HeadsStep, CheckpointsStep,
          SaversCurrentStep, ClosingStep, ReportStep, LimitStep DEF IInv
<1>2. CASE UNCHANGED vars
  <2>1. UNCHANGED <<status, revision, version, locked, heads, used, invitations, issued,
                    stored, content, saver, admin, acked, report>>
    BY <1>2 DEF vars, documentVars, storeVars
  <2>2. TypeOK'
    BY <2>1 DEF IInv, TypeOK, DocumentOK, StoreOK, SaversOK, AdminsOK
  <2>3. SessionsAreDrawnOnce' /\ InvitationsAreStaged'
    BY <2>1 DEF IInv, SessionsAreDrawnOnce, InvitationsAreStaged, Settled, Installing,
       Live,
       Exists, EmptyCheckpoint
  <2>4. HeadsAreStored' /\ CheckpointsExtendHeads'
    <3>1. Live' = Live /\ \A s \in Live : Current(s)' = Current(s)
      BY <2>1 DEF Live, Exists, Current
    <3>2. EmptyCheckpoint(version') = EmptyCheckpoint(version)
      BY <2>1
    <3>3. HeadsAreStored'
      BY <2>1, <3>1, <3>2 DEF IInv, HeadsAreStored, EmptyCheckpoint
    <3>4. CheckpointsExtendHeads'
      BY <2>1, <3>1 DEF IInv, CheckpointsExtendHeads
    <3> QED BY <3>3, <3>4
  <2>5. SaversAreCurrent'
    BY <2>1 DEF IInv, SaversAreCurrent, Live, Exists, Current
  <2>6. ClosingCountsAreCurrent' /\ CloseReportAccurate' /\ SessionLimit'
    BY <2>1 DEF IInv, ClosingCountsAreCurrent, CloseReportAccurate, SessionLimit, Live,
       Exists, Included, Collecting
  <2> QED BY <2>2, <2>3, <2>4, <2>5, <2>6 DEF IInv
<1> QED BY <1>1, <1>2

\* The inductive invariant: a session id is installed by the request that drew it, a
\* live session keeps its checkpoints, those that can still be published extend the
\* present one, and a count is right while its revision is the current one.
THEOREM Invariant == Spec => []IInv
<1>1. Init => IInv
  BY Initially
<1>2. IInv /\ [Next]_vars => IInv'
  BY Inductive
<1> QED BY <1>1, <1>2, PTL DEF Spec

\* Types: every variable of a study's collection stays in its set.
THEOREM TypesAreKept == Spec => []TypeOK
<1>1. IInv => TypeOK
  BY DEF IInv
<1> QED BY <1>1, Invariant, PTL

\* A rating is only kept under an acknowledged consent to the study's present wording.
THEOREM ConsentIsAlwaysCurrent == Spec => []ConsentIsCurrent
<1>1. ASSUME IInv PROVE ConsentIsCurrent
  <2> SUFFICES ASSUME NEW s \in Live
               PROVE  /\ Current(s).version = version
                      /\ Current(s).merged # {} => Current(s).consented
    BY DEF ConsentIsCurrent
  <2>1. <<s, heads[s].checkpoint>> \in stored /\ content[s][Initial] = EmptyCheckpoint(version)
    BY <1>1 DEF IInv, HeadsAreStored
  <2>2. heads[s].checkpoint \in Ids
    BY <1>1 DEF IInv, TypeOK, DocumentOK, Head, Live
  <2>3. CASE heads[s].checkpoint = Initial
    BY <2>1, <2>3 DEF Current, EmptyCheckpoint
  <2>4. CASE heads[s].checkpoint \in Requests
    BY <1>1, <2>1, <2>4 DEF IInv, CheckpointsExtendHeads, Current
  <2> QED BY <2>2, <2>3, <2>4 DEF Ids
<1> QED BY <1>1, Invariant, PTL

\* The closing answer counts exactly the sessions included in the frozen study.
THEOREM ReportsAreAccurate == Spec => []CloseReportAccurate
<1>1. IInv => CloseReportAccurate
  BY DEF IInv
<1> QED BY <1>1, Invariant, PTL

\* However many researchers invite at once, the limit of sessions holds.
THEOREM LimitHolds == Spec => []SessionLimit
<1>1. IInv => SessionLimit
  BY DEF IInv
<1> QED BY <1>1, Invariant, PTL

-----------------------------------------------------------------------------
(* What a step may never do *)

\* After closing, neither the heads nor the checkpoints they point at change.
THEOREM ClosingFreezes == Spec => ClosedIsFrozen
<1>1. ASSUME IInv, [Next]_vars
      PROVE  [~Collecting =>
                 /\ heads' = heads
                 /\ \A s \in Live : /\ <<s, heads[s].checkpoint>> \in stored'
                                    /\ Current(s)' = Current(s)]_vars
  <2> SUFFICES ASSUME Next, ~Collecting
               PROVE  /\ heads' = heads
                      /\ \A s \in Live : /\ <<s, heads[s].checkpoint>> \in stored'
                                         /\ Current(s)' = Current(s)
    BY <1>1
  <2>1. heads' = heads
    BY ClosedStays
  <2>2. ASSUME NEW s \in Live
        PROVE  /\ <<s, heads[s].checkpoint>> \in stored'
               /\ content'[s][heads[s].checkpoint] = content[s][heads[s].checkpoint]
    <3>1. <<s, heads[s].checkpoint>> \in stored /\ heads[s].checkpoint \in Ids
      BY <1>1 DEF IInv, HeadsAreStored, TypeOK, DocumentOK, Head, Live
    <3> QED BY <1>1, <3>1, LiveCheckpoints DEF CheckpointsKept
  <2> QED BY <2>1, <2>2 DEF Current
<1> QED BY <1>1, Invariant, PTL DEF Spec, ClosedIsFrozen

\* A submitted or a revoked session takes no further save.
THEOREM SealedSessionsStay == Spec => SealedSessionKeepsRatings
<1>1. ASSUME IInv, [Next]_vars
      PROVE  [\A s \in Sessions :
                 Exists(s) /\ (heads[s].status = "completed" \/ heads[s].revoked) /\ Exists(s)'
                     => /\ heads'[s].checkpoint = heads[s].checkpoint
                        /\ heads'[s].status = heads[s].status]_vars
  <2> SUFFICES ASSUME Next, NEW s \in Sessions, Exists(s), Exists(s)',
                      heads[s].status = "completed" \/ heads[s].revoked
               PROVE  /\ heads'[s].checkpoint = heads[s].checkpoint
                      /\ heads'[s].status = heads[s].status
    BY <1>1
  <2>1. HeadMove(s)
    BY <1>1, LiveSessions DEF IInv
  <2> QED BY <2>1 DEF HeadMove, Advanced
<1> QED BY <1>1, Invariant, PTL DEF Spec, SealedSessionKeepsRatings

\* Every change of the study document advances its revision by one.
THEOREM RevisionsIdentify == Spec => RevisionIdentifiesDocument
<1>1. [Next]_vars => [documentVars' # documentVars => revision' = revision + 1]_vars
  BY DocumentRevised
<1> QED BY <1>1, PTL DEF Spec, RevisionIdentifiesDocument

-----------------------------------------------------------------------------
(* The refinement *)

\* A step that leaves the progress of every head alone leaves the registers alone.
LEMMA QuietStep ==
    ASSUME IInv, Next,
           \A s \in Sessions : /\ heads'[s].status = heads[s].status
                               /\ heads'[s].revision = heads[s].revision
    PROVE  Live' = Live /\ Merged' = Merged
<1>1. Live' = Live
  BY DEF Live, Exists
<1>2. ASSUME NEW s \in Live PROVE Current(s)' = Current(s)
  <2>1. heads[s].revision \in Nat /\ Exists(s)'
    BY <1>1 DEF IInv, TypeOK, DocumentOK, Head, Live
  <2> QED BY <2>1, CurrentMoves DEF CurrentMove, Advanced, Live
<1> QED BY <1>1, <1>2 DEF Merged, Live

\* An unused session has nothing merged into it.
LEMMA NothingMerged ==
    ASSUME IInv, NEW s \in Live, heads[s].status = "invited"
    PROVE  Current(s).merged = {}
<1>1. heads[s].checkpoint = Initial /\ content[s][Initial] = EmptyCheckpoint(version)
  BY DEF IInv, HeadsAreStored
<1> QED BY <1>1 DEF Current, EmptyCheckpoint

\* Heads, checkpoints and revisions implement the registers a study promises: a save is
\* applied to its session once, only while the study collects, an answer is given only
\* to a request that is applied, and closing freezes all registers in one step.
THEOREM Refinement == Spec => ImplementsRegister
<1>1. ASSUME Init PROVE Register!RegisterInit
  BY <1>1 DEF Init, Register!RegisterInit, Collecting, Live, Merged, Exists, Absent
<1>2. ASSUME IInv, [Next]_vars
      PROVE  [Register!RegisterNext]_(Register!registerVars)
  <2>0. TypeOK /\ heads \in [Sessions -> Head]
    BY <1>2 DEF IInv, TypeOK, DocumentOK
  <2>1. ASSUME NEW p \in Savers, PublishSave(p) PROVE Register!RegisterNext \/ UNCHANGED Register!registerVars
    <3> PICK s \in Sessions : s = saver[p].session
      BY <2>0, <2>1, PublishEffect
    <3>1. Collecting' = Collecting /\ acked' = acked /\ content' = content
      BY <2>1 DEF PublishSave, PublishWhen, Collecting, storeVars
    <3>2. CASE heads' = heads
      BY <3>1, <3>2 DEF Register!registerVars, Live, Exists, Merged, Current
    <3>3. CASE heads' # heads
      <4>1. /\ Collecting /\ Exists(s) /\ Exists(s)'
            /\ heads'[s].revision = heads[s].revision + 1
            /\ \A t \in Sessions \ {s} : heads'[t] = heads[t]
        BY <2>0, <2>1, <3>3, PublishEffect DEF Exists
      <4>2. s \in Live /\ Live' = Live /\ heads[s].revision \in Nat
        BY <2>0, <4>1 DEF Live, Exists, Head
      <4>3. PICK q \in Requests : /\ q \notin Current(s).merged
                                  /\ Current(s)'.merged = Current(s).merged \cup {q}
        BY <1>2, <2>1, <4>1, <4>2, CurrentMoves DEF CurrentMove, Next, SaverStep
      <4>4. Merged' = [Merged EXCEPT ![s] = @ \cup {q}]
        BY <3>1, <4>1, <4>2, <4>3 DEF Merged, Live, Exists, Current
      <4>5. q \notin Merged[s]
        BY <4>1, <4>3 DEF Merged
      <4>6. Register!Apply(s, q)
        BY <3>1, <4>1, <4>2, <4>4, <4>5 DEF Register!Apply
      <4> QED BY <4>6 DEF Register!RegisterNext
    <3> QED BY <3>2, <3>3
  <2>2. ASSUME NEW p \in Savers, Respond(p) PROVE Register!RegisterNext
    <3> PICK s \in Sessions, q \in Requests : s = saver[p].session /\ q = saver[p].request
      BY <2>0, <2>2 DEF Respond, TypeOK, SaversOK
    <3>1. s \in Live /\ q \in Current(s).merged
      BY <1>2, <2>2 DEF Respond, IInv, SaversAreCurrent
    <3>2. /\ acked' = acked \cup {<<s, q>>} /\ Collecting' = Collecting
          /\ Live' = Live /\ Merged' = Merged
      BY <2>2 DEF Respond, documentVars, storeVars, Collecting, Live, Merged, Exists,
         Current
    <3>3. Register!Answer(s, q)
      BY <3>1, <3>2 DEF Register!Answer, Merged, Live
    <3> QED BY <3>3 DEF Register!RegisterNext
  <2>3. ASSUME NEW a \in Admins, InstallInvitation(a)
        PROVE  Register!RegisterNext \/ UNCHANGED Register!registerVars
    <3> PICK s \in Sessions : s = admin[a].session
      BY <2>0, <2>3, InstallEffect
    <3>1. Collecting' = Collecting /\ acked' = acked /\ content' = content
      BY <2>3 DEF InstallInvitation, InstallWhen, Collecting, storeVars
    <3>2. CASE heads' = heads
      BY <3>1, <3>2 DEF Register!registerVars, Live, Exists, Merged, Current
    <3>3. CASE heads' # heads
      <4>1. /\ Collecting /\ ~Exists(s) /\ heads'[s] = Invited /\ Installing(a, s)
            /\ \A t \in Sessions \ {s} : heads'[t] = heads[t]
        BY <2>0, <2>3, <3>3, InstallEffect
      <4>2. Live' = Live \cup {s} /\ s \notin Live
        BY <4>1 DEF Live, Exists, Invited, Absent
      <4>3. Current(s)'.merged = {}
        <5>1. content[s][Initial] = EmptyCheckpoint(admin[a].seen)
          BY <1>2, <4>1 DEF IInv, InvitationsAreStaged, Installing
        <5> QED BY <3>1, <4>1, <5>1 DEF Current, Invited, Absent, EmptyCheckpoint
      <4>4. Merged' = Merged /\ Merged[s] = {}
        BY <3>1, <4>1, <4>2, <4>3 DEF Merged, Live, Exists, Current
      <4>5. Register!Invite(s)
        BY <3>1, <4>1, <4>2, <4>4 DEF Register!Invite
      <4> QED BY <4>5 DEF Register!RegisterNext
    <3> QED BY <3>2, <3>3
  <2>4. ASSUME NEW a \in Admins, NEW s \in Sessions, RemoveHead(a, s) PROVE Register!RegisterNext
    <3>1. /\ Collecting /\ Collecting' = Collecting /\ acked' = acked /\ content' = content
          /\ s \in Live /\ Live' = Live \ {s} /\ heads[s].status = "invited"
          /\ \A t \in Sessions \ {s} : heads'[t] = heads[t]
      BY <2>0, <2>4 DEF RemoveHead, Untouched, Collecting, Live, Exists, Absent, storeVars
    <3>2. Merged' = Merged /\ Merged[s] = {}
      BY <1>2, <3>1, NothingMerged DEF Merged, Live, Exists, Current
    <3>3. Register!Remove(s)
      BY <3>1, <3>2 DEF Register!Remove
    <3> QED BY <3>3 DEF Register!RegisterNext
  <2>5. ASSUME NEW a \in Admins, CommitClose(a)
        PROVE  Register!RegisterNext \/ UNCHANGED Register!registerVars
    <3>1. Live' = Live /\ Merged' = Merged /\ acked' = acked
      BY <2>5 DEF CommitClose, storeVars, Live, Merged, Exists, Current
    <3>2. Collecting' = Collecting \/ (Collecting /\ Collecting' = FALSE)
      BY <2>5 DEF CommitClose, Collecting
    <3> QED BY <3>1, <3>2 DEF Register!RegisterNext, Register!Freeze,
               Register!registerVars
  <2>6. ASSUME Next, Collecting' = Collecting, acked' = acked,
               \A s \in Sessions : /\ heads'[s].status = heads[s].status
                                   /\ heads'[s].revision = heads[s].revision
        PROVE  UNCHANGED Register!registerVars
    BY <1>2, <2>6, QuietStep DEF Register!registerVars
  <2>7. ASSUME NEW p \in Savers, SaverStep(p), ~PublishSave(p), ~Respond(p)
        PROVE  UNCHANGED <<status, heads, acked>>
    BY <2>7 DEF SaverStep, BeginSave, LoadSave, StageSave, SaverDies, documentVars
  <2>8. ASSUME NEW a \in Admins, AdminStep(a), ~InstallInvitation(a), ~CommitClose(a),
               \A s \in Sessions : ~RemoveHead(a, s)
        PROVE  UNCHANGED <<status, heads, acked>>
    BY <2>8 DEF AdminStep, BeginInvitations, StageInvitation, IssueInvitations,
       CleanInvitations, CleanCheckpoints, BeginClose, AdminDies, documentVars
  <2>9. ASSUME NEW t \in Sessions, Revoke(t) \/ \E x \in BOOLEAN : Exclude(t, x)
        PROVE  /\ UNCHANGED <<status, acked>>
               /\ \A s \in Sessions : /\ heads'[s].status = heads[s].status
                                      /\ heads'[s].revision = heads[s].revision
    BY <2>0, <2>9, FlagEffect DEF Revoke, Exclude
  <2>10. ASSUME UpdateInstructions \/ MarkFinalized
         PROVE  UNCHANGED <<heads, acked>> /\ Collecting' = Collecting
    BY <2>10 DEF UpdateInstructions, MarkFinalized, Collecting
  <2>11. ASSUME Next, UNCHANGED <<status, heads, acked>> PROVE UNCHANGED Register!registerVars
    BY <2>6, <2>11 DEF Collecting
  <2>12. CASE UNCHANGED vars
    BY <2>12 DEF vars, documentVars, storeVars, Register!registerVars, Collecting, Live,
       Exists, Merged, Current
  <2>13. CASE Next
    <3>1. CASE \E p \in Savers : SaverStep(p)
      BY <2>13, <3>1, <2>1, <2>2, <2>7, <2>11
    <3>2. CASE \E a \in Admins : AdminStep(a)
      BY <2>13, <3>2, <2>3, <2>4, <2>5, <2>8, <2>11
    <3>3. CASE \E t \in Sessions : Revoke(t) \/ \E x \in BOOLEAN : Exclude(t, x)
      BY <2>13, <3>3, <2>6, <2>9 DEF Collecting
    <3>4. CASE UpdateInstructions \/ MarkFinalized
      BY <2>13, <3>4, <2>6, <2>10
    <3> QED BY <2>13, <3>1, <3>2, <3>3, <3>4 DEF Next
  <2> QED BY <1>2, <2>12, <2>13
<1> QED BY <1>1, <1>2, Invariant, PTL DEF Spec, ImplementsRegister, Register!RegisterSpec

=============================================================================
