--------------------------- MODULE ListeningStudy ---------------------------
(***************************************************************************)
(* The collection of one listening study: participant_repository.py (the   *)
(* updates of the single study document) and participant_service.py (the   *)
(* requests made of several such steps).                                   *)
(*                                                                         *)
(* A save stages an immutable checkpoint first and then publishes it by    *)
(* installing its id in the session's head, inside the study document, on  *)
(* the revision it was computed from.  All other changes are conditional   *)
(* updates of the same document, so closing it freezes every head at once. *)
(***************************************************************************)
EXTENDS Naturals, FiniteSets

CONSTANTS Sessions,     \* session ids, each used at most once (uuid4)
          Requests,     \* the request ids a client chooses (idempotency keys)
          Initial,      \* the checkpoint id of an invitation's empty checkpoint
          Savers,       \* handlers of participant requests
          Admins,       \* handlers of researcher requests
          NoSession,    \* the session of an idle handler
          MaxSessions,  \* the limit of sessions per study (1000 in the code)
          MaxSaves,     \* bound on the revision a client expects of a session
          MaxRevision   \* bound on the study revision for repeatable changes

ASSUME StudyAssumption ==
    /\ IsFiniteSet(Sessions)
    /\ IsFiniteSet(Requests)
    /\ Initial \notin Requests
    /\ NoSession \notin Sessions
    /\ MaxSessions \in Nat /\ MaxSaves \in Nat /\ MaxRevision \in Nat

VARIABLES
    status,        \* ListeningStudyDocument.status
    revision,      \* ... .revision
    version,       \* ... .consent_version
    locked,        \* ... .invitations_created
    heads,         \* ... .sessions: the head of every session, or Absent
    used,          \* session ids drawn so far
    invitations,   \* sessions whose token is in listening_invitations
    issued,        \* sessions whose token reached the researcher
    stored,        \* <<session, checkpoint id>> in listening_checkpoints
    content,       \* what those checkpoints hold
    saver,         \* participant requests in progress
    admin,         \* researcher requests in progress
    acked,         \* history: <<session, request>> answered with success
    report         \* history: the included sessions the closing answer counted

documentVars == <<status, revision, version, locked, heads>>
storeVars == <<used, invitations, issued, stored, content>>
vars == <<documentVars, storeVars, saver, admin, acked, report>>

-----------------------------------------------------------------------------
(* The shape of the data *)

Ids == Requests \cup {Initial}
Actions == {"consent", "save", "submit"}

\* SessionHead.  "audited" stands for a non-empty exclusion_audit.
Head == [status: {"absent", "invited", "draft", "completed"}, revision: Nat,
         checkpoint: Ids, revoked: BOOLEAN, excluded: BOOLEAN, audited: BOOLEAN]
Absent == [status |-> "absent", revision |-> 0, checkpoint |-> Initial,
           revoked |-> FALSE, excluded |-> FALSE, audited |-> FALSE]
Invited == [Absent EXCEPT !.status = "invited"]

\* A checkpoint: the request it answers (its digest), its revision, and of its
\* payload the requests merged into it, and the acknowledged consent.
Digest == [action: Actions, expected: Nat]
SentDigest == [action: Actions, expected: 0 .. MaxSaves - 1]
Checkpoint == [digest: Digest, revision: Nat, merged: SUBSET Requests,
               consented: BOOLEAN, version: Nat]
EmptyCheckpoint(v) ==
    [digest |-> [action |-> "save", expected |-> 0], revision |-> 0,
     merged |-> {}, consented |-> FALSE, version |-> v]

Saver == [pc: {"idle", "begun", "loaded", "staged", "published"},
          session: Sessions \cup {NoSession}, request: Ids, digest: Digest,
          accepted: Nat, base: Ids]
IdleSaver == [pc |-> "idle", session |-> NoSession, request |-> Initial,
              digest |-> [action |-> "save", expected |-> 0],
              accepted |-> 0, base |-> Initial]

Admin == [pc: {"idle", "inviting", "installing", "closing", "cleaning", "sweeping"},
          session: Sessions \cup {NoSession}, seen: Nat, left: Nat,
          batch: SUBSET Sessions]
IdleAdmin == [pc |-> "idle", session |-> NoSession, seen |-> 0, left |-> 0,
              batch |-> {}]

DocumentOK ==
    /\ status \in {"collecting", "closed", "finalized"}
    /\ revision \in Nat /\ version \in Nat /\ locked \in BOOLEAN
    /\ heads \in [Sessions -> Head]

StoreOK ==
    /\ used \subseteq Sessions /\ invitations \subseteq Sessions /\ issued \subseteq Sessions
    /\ stored \subseteq Sessions \X Ids
    /\ content \in [Sessions -> [Ids -> Checkpoint]]

SaversOK ==
    /\ saver \in [Savers -> Saver]
    /\ \A p \in Savers : saver[p].pc # "idle" =>
           saver[p].session \in Sessions /\ saver[p].request \in Requests

AdminsOK ==
    /\ admin \in [Admins -> Admin]
    /\ \A a \in Admins :
          /\ admin[a].pc \in {"installing", "cleaning", "sweeping"} =>
                admin[a].session \in Sessions
          /\ admin[a].pc = "installing" => admin[a].left > 0

TypeOK ==
    /\ DocumentOK /\ StoreOK /\ SaversOK /\ AdminsOK
    /\ acked \subseteq Sessions \X Requests
    /\ report \subseteq Sessions

Init ==
    /\ status = "collecting" /\ revision = 0 /\ version = 1 /\ locked = FALSE
    /\ heads = [s \in Sessions |-> Absent]
    /\ used = {} /\ invitations = {} /\ issued = {} /\ stored = {}
    /\ content = [s \in Sessions |-> [c \in Ids |-> EmptyCheckpoint(1)]]
    /\ saver = [p \in Savers |-> IdleSaver]
    /\ admin = [a \in Admins |-> IdleAdmin]
    /\ acked = {}
    /\ report = {}

Exists(s) == heads[s].status # "absent"
Live == {s \in Sessions : Exists(s)}
Current(s) == content[s][heads[s].checkpoint]
Included == {s \in Sessions : heads[s].status = "completed" /\ ~heads[s].excluded}
Collecting == status = "collecting"

\* Definitions whose name starts with Wrong are plausible defects of the
\* definition that follows them.  No specification uses them: each is put in
\* the place of that definition to see that a property notices it.

Revise == revision' = revision + 1
EndSave(p) == saver' = [saver EXCEPT ![p] = IdleSaver]
EndAdmin(a) == admin' = [admin EXCEPT ![a] = IdleAdmin]

-----------------------------------------------------------------------------
(* Participant requests: consent and save, both through _save *)

\* context(): the token resolves to a session that exists and is not revoked.
Reachable(s) == s \in invitations /\ Exists(s) /\ ~heads[s].revoked

\* consent and save read the context once for their own check: consent needs
\* the accepted version to be the study's, a rating needs an earlier consent.
BeginSave(p, s, q, d) ==
    /\ saver[p].pc = "idle"
    /\ s \in issued
    /\ Reachable(s)
    /\ d.action # "consent" => Current(s).consented
    /\ saver' = [saver EXCEPT ![p] = [pc |-> "begun", session |-> s, request |-> q,
                                      digest |-> d, accepted |-> version,
                                      base |-> Initial]]
    /\ UNCHANGED <<documentVars, storeVars, admin, acked, report>>

\* _save reads it again.  The request's own checkpoint in the head means that
\* it was saved before: the answer is repeated, if the request is the same.
LoadSave(p) ==
    LET s == saver[p].session
        head == heads[s]
        replay == head.checkpoint = saver[p].request
        same == Current(s).digest = saver[p].digest
        fresh == /\ Collecting /\ head.status # "completed"
                 /\ saver[p].digest.expected = head.revision
    IN /\ saver[p].pc = "begun"
       /\ \/ /\ Reachable(s) /\ replay /\ same
             /\ saver' = [saver EXCEPT ![p].pc = "published"]
          \/ /\ Reachable(s) /\ ~replay /\ fresh
             /\ saver' = [saver EXCEPT ![p].pc = "loaded", ![p].base = head.checkpoint]
          \/ /\ ~Reachable(s) \/ (replay /\ ~same) \/ (~replay /\ ~fresh)
             /\ EndSave(p)
       /\ UNCHANGED <<documentVars, storeVars, admin, acked, report>>

WrongMerge(base, q, d, accepted) ==
    [digest |-> d, revision |-> d.expected + 1, merged |-> {q},
     consented |-> base.consented \/ d.action = "consent",
     version |-> IF d.action = "consent" THEN accepted ELSE base.version]

\* The checkpoint a request makes out of the one it was loaded with.
Merge(base, q, d, accepted) ==
    [digest |-> d, revision |-> d.expected + 1, merged |-> base.merged \cup {q},
     consented |-> base.consented \/ d.action = "consent",
     version |-> IF d.action = "consent" THEN accepted ELSE base.version]

\* stage_checkpoint: inserted unless the id is taken; an id taken by a
\* different request ends this one.
StageSave(p) ==
    LET s == saver[p].session
        q == saver[p].request
        d == saver[p].digest
        taken == <<s, q>> \in stored
    IN /\ saver[p].pc = "loaded"
       /\ IF taken /\ content[s][q].digest # d
          THEN EndSave(p)
          ELSE saver' = [saver EXCEPT ![p].pc = "staged"]
       /\ stored' = stored \cup {<<s, q>>}
       /\ content' = IF taken THEN content
                     ELSE [content EXCEPT ![s][q] =
                              Merge(content[s][saver[p].base], q, d, saver[p].accepted)]
       /\ UNCHANGED <<documentVars, used, invitations, issued, admin, acked, report>>

\* publish_checkpoint: a conditional update of the study document.
PublishWhen(p, allowed) ==
    LET s == saver[p].session
    IN /\ saver[p].pc = "staged"
       /\ IF allowed
          THEN /\ heads' = [heads EXCEPT
                      ![s].checkpoint = saver[p].request,
                      ![s].status = IF saver[p].digest.action = "submit"
                                    THEN "completed" ELSE "draft",
                      ![s].revision = @ + 1]
               /\ Revise
               /\ saver' = [saver EXCEPT ![p].pc = "published"]
          ELSE EndSave(p) /\ UNCHANGED <<heads, revision>>
       /\ UNCHANGED <<status, version, locked, storeVars, admin, acked, report>>

Unfinished(s) == heads[s].status \in {"invited", "draft"}
Expected(p) == heads[saver[p].session].revision = saver[p].digest.expected

WrongPublishAfterClose(p) ==
    LET s == saver[p].session
    IN PublishWhen(p, Unfinished(s) /\ Expected(p) /\ ~heads[s].revoked)

WrongPublishRevoked(p) ==
    LET s == saver[p].session
    IN PublishWhen(p, Collecting /\ Unfinished(s) /\ Expected(p))

PublishSave(p) ==
    LET s == saver[p].session
    IN PublishWhen(p, Collecting /\ Unfinished(s) /\ Expected(p) /\ ~heads[s].revoked)

\* The handler answers with success.
Respond(p) ==
    /\ saver[p].pc = "published"
    /\ acked' = acked \cup {<<saver[p].session, saver[p].request>>}
    /\ EndSave(p)
    /\ UNCHANGED <<documentVars, storeVars, admin, report>>

\* The request dies with its connection or its process at any point.
SaverDies(p) ==
    /\ saver[p].pc # "idle"
    /\ EndSave(p)
    /\ UNCHANGED <<documentVars, storeVars, admin, acked, report>>

-----------------------------------------------------------------------------
(* Researcher requests *)

\* create_invitations: the study is read once, for the whole batch.
BeginInvitations(a, count) ==
    /\ admin[a].pc = "idle"
    /\ Collecting
    /\ Cardinality(Live) + count <= MaxSessions
    /\ admin' = [admin EXCEPT ![a] = [IdleAdmin EXCEPT !.pc = "inviting",
                                      !.seen = version, !.left = count]]
    /\ UNCHANGED <<documentVars, storeVars, saver, acked, report>>

\* One round of its loop draws a session id, stages its empty checkpoint and
\* inserts the invitation; neither can be found before the head exists.
StageInvitation(a, s) ==
    /\ admin[a].pc = "inviting" /\ admin[a].left > 0
    /\ s \notin used
    /\ used' = used \cup {s}
    /\ stored' = stored \cup {<<s, Initial>>}
    /\ content' = [content EXCEPT ![s][Initial] = EmptyCheckpoint(admin[a].seen)]
    /\ invitations' = invitations \cup {s}
    /\ admin' = [admin EXCEPT ![a].pc = "installing", ![a].session = s]
    /\ UNCHANGED <<documentVars, issued, saver, acked, report>>

\* create_invitation's conditional update; when it fails the request does, and
\* the tokens of the rounds before are lost with it.
InstallWhen(a, allowed) ==
    LET s == admin[a].session
    IN /\ admin[a].pc = "installing"
       /\ IF allowed /\ ~Exists(s)
          THEN /\ heads' = [heads EXCEPT ![s] = Invited]
               /\ Revise
               /\ admin' = [admin EXCEPT ![a].pc = "inviting", ![a].session = NoSession,
                            ![a].left = @ - 1, ![a].batch = @ \cup {s}]
          ELSE EndAdmin(a) /\ UNCHANGED <<heads, revision>>
       /\ UNCHANGED <<status, version, locked, storeVars, saver, acked, report>>

Room == Cardinality(Live) < MaxSessions

WrongInstallStale(a)  == InstallWhen(a, Collecting /\ Room)
WrongInstallBeyond(a) == InstallWhen(a, Collecting /\ version = admin[a].seen)

InstallInvitation(a) ==
    InstallWhen(a, Collecting /\ version = admin[a].seen /\ Room)

\* The batch is complete: its links are returned.
IssueInvitations(a) ==
    /\ admin[a].pc = "inviting" /\ admin[a].left = 0
    /\ issued' = issued \cup admin[a].batch
    /\ EndAdmin(a)
    /\ UNCHANGED <<documentVars, used, invitations, stored, content, saver, acked, report>>

\* update_instructions, at the revision the researcher saw.
UpdateInstructions ==
    /\ revision < MaxRevision
    /\ Collecting /\ Live = {} /\ ~locked
    /\ version' = version + 1
    /\ Revise
    /\ UNCHANGED <<status, locked, heads, storeVars, saver, admin, acked, report>>

WrongRevokeUncounted(s) ==
    /\ Collecting /\ Exists(s)
    /\ heads' = [heads EXCEPT ![s].revoked = TRUE]
    /\ UNCHANGED <<status, revision, version, locked, storeVars, saver, admin,
                   acked, report>>

\* revoke, which may be repeated
Revoke(s) ==
    /\ revision < MaxRevision
    /\ Collecting /\ Exists(s)
    /\ heads' = [heads EXCEPT ![s].revoked = TRUE]
    /\ Revise
    /\ UNCHANGED <<status, version, locked, storeVars, saver, admin, acked, report>>

\* exclude, at the revision the researcher saw.
Exclude(s, excluded) ==
    /\ revision < MaxRevision
    /\ Collecting /\ Exists(s)
    /\ heads' = [heads EXCEPT ![s].excluded = excluded, ![s].audited = TRUE]
    /\ Revise
    /\ UNCHANGED <<status, version, locked, storeVars, saver, admin, acked, report>>

Untouched(s) == /\ heads[s].status = "invited" /\ heads[s].revision = 0
                /\ ~heads[s].excluded /\ ~heads[s].audited
StartCleaning(a, s) ==
    admin' = [admin EXCEPT ![a] = [IdleAdmin EXCEPT !.pc = "cleaning", !.session = s]]

\* delete_unused_invitation removes the head of an untouched session ...
RemoveHead(a, s) ==
    /\ admin[a].pc = "idle"
    /\ Collecting /\ Untouched(s)
    /\ heads' = [heads EXCEPT ![s] = Absent]
    /\ locked' = TRUE
    /\ Revise
    /\ StartCleaning(a, s)
    /\ UNCHANGED <<status, version, storeVars, saver, acked, report>>

\* ... then its invitations ...
CleanInvitations(a) ==
    /\ admin[a].pc = "cleaning"
    /\ invitations' = invitations \ {admin[a].session}
    /\ admin' = [admin EXCEPT ![a].pc = "sweeping"]
    /\ UNCHANGED <<documentVars, used, issued, stored, content, saver, acked, report>>

\* ... then whatever checkpoints it has by then.
CleanCheckpoints(a) ==
    /\ admin[a].pc = "sweeping"
    /\ stored' = stored \ ({admin[a].session} \X Ids)
    /\ EndAdmin(a)
    /\ UNCHANGED <<documentVars, used, invitations, issued, content, saver, acked, report>>

\* close reads the study and counts the included sessions; an empty result
\* needs the researcher's confirmation.  The revision the researcher expects
\* was read before this, so only the one read here can still be current.
BeginClose(a, confirmed) ==
    /\ admin[a].pc = "idle"
    /\ Included # {} \/ confirmed
    /\ admin' = [admin EXCEPT ![a] = [IdleAdmin EXCEPT !.pc = "closing",
                                      !.seen = revision, !.batch = Included]]
    /\ UNCHANGED <<documentVars, storeVars, saver, acked, report>>

WrongCloseStale(a) ==
    /\ admin[a].pc = "closing"
    /\ IF Collecting
       THEN status' = "closed" /\ Revise /\ report' = admin[a].batch
       ELSE UNCHANGED <<status, revision, report>>
    /\ EndAdmin(a)
    /\ UNCHANGED <<version, locked, heads, storeVars, saver, acked>>

\* The conditional update that freezes the study.
CommitClose(a) ==
    /\ admin[a].pc = "closing"
    /\ IF Collecting /\ revision = admin[a].seen
       THEN status' = "closed" /\ Revise /\ report' = admin[a].batch
       ELSE UNCHANGED <<status, revision, report>>
    /\ EndAdmin(a)
    /\ UNCHANGED <<version, locked, heads, storeVars, saver, acked>>

AdminDies(a) ==
    /\ admin[a].pc # "idle"
    /\ EndAdmin(a)
    /\ UNCHANGED <<documentVars, storeVars, saver, acked, report>>

\* mark_finalized, by the worker that published the frozen results.
MarkFinalized ==
    /\ status = "closed"
    /\ status' = "finalized"
    /\ Revise
    /\ UNCHANGED <<version, locked, heads, storeVars, saver, admin, acked, report>>

-----------------------------------------------------------------------------

SaverStep(p) ==
    \/ \E s \in Sessions, q \in Requests, d \in SentDigest : BeginSave(p, s, q, d)
    \/ LoadSave(p) \/ StageSave(p) \/ PublishSave(p) \/ Respond(p) \/ SaverDies(p)

AdminStep(a) ==
    \/ \E count \in 1 .. MaxSessions : BeginInvitations(a, count)
    \/ \E s \in Sessions : StageInvitation(a, s) \/ RemoveHead(a, s)
    \/ InstallInvitation(a) \/ IssueInvitations(a)
    \/ CleanInvitations(a) \/ CleanCheckpoints(a)
    \/ \E confirmed \in BOOLEAN : BeginClose(a, confirmed)
    \/ CommitClose(a) \/ AdminDies(a)

Next ==
    \/ \E p \in Savers : SaverStep(p)
    \/ \E a \in Admins : AdminStep(a)
    \/ \E s \in Sessions : Revoke(s) \/ \E excluded \in BOOLEAN : Exclude(s, excluded)
    \/ UpdateInstructions \/ MarkFinalized

Spec == Init /\ [][Next]_vars

-----------------------------------------------------------------------------
(* Properties *)

\* Ratings are only kept under a consent to the study's present wording: a
\* session with a merged request has acknowledged the current consent version.
ConsentIsCurrent ==
    \A s \in Live : /\ Current(s).version = version
                    /\ Current(s).merged # {} => Current(s).consented

\* The closing answer is true: the sessions it counted are those included in
\* the frozen study, although it counted them before it froze the study.
CloseReportAccurate == ~Collecting => report = Included

\* Two researchers inviting at the same time do not exceed the limit.
SessionLimit == Cardinality(Live) <= MaxSessions

\* "Closing freezes those heads.  Unpublished writes cannot leak into a closed
\* snapshot" (participant_repository.py): after closing neither the heads nor
\* the checkpoints they point at change or disappear.
ClosedIsFrozen ==
    [][~Collecting =>
          /\ heads' = heads
          /\ \A s \in Live : /\ <<s, heads[s].checkpoint>> \in stored'
                             /\ Current(s)' = Current(s)]_vars

\* A submitted or a revoked session takes no further save.
SealedSessionKeepsRatings ==
    [][\A s \in Sessions :
          Exists(s) /\ (heads[s].status = "completed" \/ heads[s].revoked) /\ Exists(s)'
              => /\ heads'[s].checkpoint = heads[s].checkpoint
                 /\ heads'[s].status = heads[s].status]_vars

\* The revision identifies the contents: cached results are keyed by it and
\* researchers act on it, so every change of the document must advance it.
RevisionIdentifiesDocument ==
    [][documentVars' # documentVars => revision' = revision + 1]_vars

-----------------------------------------------------------------------------
(* The inductive invariant.  ListeningStudy_proofs proves that every step keeps  *)
(* it, for every choice of the constants.                                        *)

Installing(a, s) == admin[a].pc = "installing" /\ admin[a].session = s

\* A session whose fate is decided: it has a head, or it will never have one.
Settled(s) == s \in used /\ \A a \in Admins : ~Installing(a, s)

\* A session id is installed by the one request that drew it, and whoever else
\* works on a session got to know it later; a session being cleaned is gone.
SessionsAreDrawnOnce ==
    /\ \A s \in Live : Settled(s)
    /\ \A p \in Savers : saver[p].pc # "idle" => Settled(saver[p].session)
    /\ \A a \in Admins :
          /\ admin[a].pc = "installing" =>
                /\ admin[a].session \in used
                /\ \A b \in Admins : Installing(b, admin[a].session) => b = a
          /\ admin[a].pc \in {"cleaning", "sweeping"} =>
                Settled(admin[a].session) /\ ~Exists(admin[a].session)

\* Before its head exists a session has its empty checkpoint and no other.
InvitationsAreStaged ==
    /\ \A s \in Sessions \ used, c \in Ids : <<s, c>> \notin stored
    /\ \A a \in Admins : admin[a].pc = "installing" =>
          LET s == admin[a].session
          IN /\ content[s][Initial] = EmptyCheckpoint(admin[a].seen)
             /\ \A c \in Ids : <<s, c>> \in stored <=> c = Initial

\* The head of a session points at a stored checkpoint, and each request merged
\* into it was stored on an earlier revision of the head.
HeadsAreStored ==
    \A s \in Live :
        /\ <<s, heads[s].checkpoint>> \in stored
        /\ <<s, Initial>> \in stored /\ content[s][Initial] = EmptyCheckpoint(version)
        /\ heads[s].status = "invited" => heads[s].checkpoint = Initial
        /\ \A q \in Current(s).merged :
              /\ <<s, q>> \in stored
              /\ content[s][q].digest.expected < heads[s].revision

\* A stored checkpoint that can still be published is the current one with its
\* own request added; none was made on a revision the head has not had.
CheckpointsExtendHeads ==
    \A s \in Live, q \in Requests : <<s, q>> \in stored =>
        LET checkpoint == content[s][q]
        IN /\ checkpoint.version = version /\ checkpoint.consented
           /\ q \in checkpoint.merged
           /\ checkpoint.digest.expected <= heads[s].revision
           /\ checkpoint.digest.expected = heads[s].revision =>
                 checkpoint.merged = Current(s).merged \cup {q}

\* What a participant's request has read is still good enough for its next step.
SaversAreCurrent ==
    \A p \in Savers : LET s == saver[p].session IN
        /\ saver[p].pc # "idle" /\ s \in Live =>
              /\ saver[p].accepted = version
              /\ saver[p].digest.action # "consent" => Current(s).consented
        /\ saver[p].pc = "loaded" /\ s \in Live =>
              /\ <<s, saver[p].base>> \in stored
              /\ saver[p].digest.action # "consent" => content[s][saver[p].base].consented
              /\ saver[p].digest.expected <= heads[s].revision
              /\ saver[p].digest.expected = heads[s].revision =>
                    saver[p].base = heads[s].checkpoint
        /\ saver[p].pc = "staged" /\ s \in Live =>
              /\ <<s, saver[p].request>> \in stored
              /\ content[s][saver[p].request].digest = saver[p].digest
        /\ saver[p].pc = "published" =>
              s \in Live /\ saver[p].request \in Current(s).merged

\* The count of a closing request is right as long as the revision it read is the
\* current one.
ClosingCountsAreCurrent ==
    \A a \in Admins : admin[a].pc = "closing" =>
        /\ admin[a].seen <= revision
        /\ admin[a].seen = revision => admin[a].batch = Included

IInv ==
    /\ TypeOK
    /\ SessionsAreDrawnOnce
    /\ InvitationsAreStaged
    /\ HeadsAreStored
    /\ CheckpointsExtendHeads
    /\ SaversAreCurrent
    /\ ClosingCountsAreCurrent
    /\ CloseReportAccurate
    /\ SessionLimit

-----------------------------------------------------------------------------
(* Refinement: the registers a study promises *)

Merged == [s \in Sessions |-> IF Exists(s) THEN Current(s).merged ELSE {}]

Register == INSTANCE ResponseRegister WITH
    open <- Collecting, present <- Live, saved <- Merged, answered <- acked

\* Heads, checkpoints and revisions implement the registers of ResponseRegister.
ImplementsRegister == Register!RegisterSpec
=============================================================================
