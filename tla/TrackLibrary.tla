---------------------------- MODULE TrackLibrary ----------------------------
(***************************************************************************)
(* The tracks on disk (assets/): uploads stream into a temporary file that *)
(* is validated and renamed over the destination, deletions look for runs  *)
(* that still need the tracks and then unlink one after the other.  The    *)
(* library is a directory shared by all API processes (API_WORKERS) and by *)
(* the run documents that name its files; nothing locks it.  The temporary *)
(* files are private to their requests and are not part of the state.      *)
(***************************************************************************)
EXTENDS Naturals, Sequences, FiniteSets

CONSTANTS Names,      \* file names that pass _validate_filename
          Runs,
          Uploads,    \* upload requests
          Deletions,  \* deletion requests
          Batches,    \* the lists of files that are uploaded in one request
          MaxFaults   \* bound on uploads that break off and processes that die

\* A file is sent with a readable WAV content or with one that is empty, too
\* long or not a WAV file.
Item == [name: Names, valid: BOOLEAN]

\* What the constants have to be; module FileStores assumes it.
LibraryConstants ==
    /\ Batches \subseteq Seq(Item) \ {<<>>}
    /\ MaxFaults \in Nat

VARIABLES
    file,       \* what each name holds: nothing, a valid track, or anything else
    upload,     \* the state of each upload request
    deletion,   \* the state of each deletion request
    status,     \* the run documents
    tracks,     \* and the tracks they name
    raced,      \* history: runs that became active without their tracks being safe
    faults

vars == <<file, upload, deletion, status, tracks, raced, faults>>

-----------------------------------------------------------------------------

Statuses == {"created", "queued", "running", "awaiting_input", "completed", "failed"}

\* _BLOCKING_STATUSES
WrongBlockingStatuses == {"created", "queued", "running"}
BlockingStatuses == {"created", "queued", "running", "awaiting_input"}

Active(r) == status[r] \in {"created", "queued", "running", "awaiting_input"}

\* surprised: history, somebody else published the name of the current file since
\* this request looked for it.
Upload == [pc: {"idle", "opening", "receiving", "publishing", "reading", "answered"},
           batch: Batches \cup {<<>>}, overwrite: BOOLEAN, at: Nat,
           surprised: BOOLEAN]
NoUpload(pc) == [pc |-> pc, batch |-> <<>>, overwrite |-> FALSE, at |-> 1,
                 surprised |-> FALSE]

Deletion == [pc: {"idle", "checking", "deleting", "answered"}, left: SUBSET Names]
NoDeletion(pc) == [pc |-> pc, left |-> {}]

TypeOK ==
    /\ file \in [Names -> {"none", "track", "broken"}]
    /\ upload \in [Uploads -> Upload]
    /\ \A u \in Uploads : upload[u].pc \notin {"idle", "answered"} => upload[u].at \in DOMAIN upload[u].batch
    /\ deletion \in [Deletions -> Deletion]
    /\ status \in [Runs -> Statuses \cup {"none", "preparing"}]
    /\ tracks \in [Runs -> SUBSET Names]
    /\ raced \subseteq Runs
    /\ faults \in 0 .. MaxFaults

\* Any library that was filled by valid uploads, no run yet.
Init ==
    /\ file \in [Names -> {"none", "track"}]
    /\ upload = [u \in Uploads |-> NoUpload("idle")]
    /\ deletion = [d \in Deletions |-> NoDeletion("idle")]
    /\ status = [r \in Runs |-> "none"]
    /\ tracks = [r \in Runs |-> {}]
    /\ raced = {}
    /\ faults = 0

Exists(n) == file[n] # "none"
Fault == faults < MaxFaults /\ faults' = faults + 1

\* Definitions whose name starts with Wrong are plausible defects of the
\* definition that follows them.  No specification uses them: each is put in
\* the place of that definition to see that a property notices it.

-----------------------------------------------------------------------------
(* Uploads *)

Documents == <<status, tracks, raced>>

SetUpload(u, new) == upload' = [upload EXCEPT ![u] = new]
AnswerUpload(u) == SetUpload(u, NoUpload("answered"))

Current(u) == upload[u].batch[upload[u].at]

\* upload_tracks refuses a batch that names an existing file, or one file
\* twice, unless it may overwrite; upload_assets always overwrites.
Conflicts(batch) ==
    {n \in Names : \E i \in DOMAIN batch :
        batch[i].name = n /\ (Exists(n) \/ \E j \in DOMAIN batch : j # i /\ batch[j].name = n)}

BeginUpload(u, batch, overwrite) ==
    /\ upload[u].pc = "idle"
    /\ IF ~overwrite /\ Conflicts(batch) # {}
       THEN AnswerUpload(u)
       ELSE SetUpload(u, [upload[u] EXCEPT !.pc = "opening", !.batch = batch,
                                           !.overwrite = overwrite])
    /\ UNCHANGED <<file, deletion, Documents, faults>>

WrongOpenUpload(u) ==
    /\ upload[u].pc = "opening"
    /\ SetUpload(u, [upload[u] EXCEPT !.pc = "receiving", !.surprised = FALSE])
    /\ UNCHANGED <<file, deletion, Documents, faults>>

\* save: the destination is looked at before a temporary file is opened.
OpenUpload(u) ==
    /\ upload[u].pc = "opening"
    /\ IF Exists(Current(u).name) /\ ~upload[u].overwrite
       THEN AnswerUpload(u)
       ELSE SetUpload(u, [upload[u] EXCEPT !.pc = "receiving", !.surprised = FALSE])
    /\ UNCHANGED <<file, deletion, Documents, faults>>

\* The body has been written; a file that is empty, too long or unreadable is
\* rejected.
Receive(u) ==
    /\ upload[u].pc = "receiving"
    /\ IF Current(u).valid
       THEN SetUpload(u, [upload[u] EXCEPT !.pc = "publishing"])
       ELSE AnswerUpload(u)
    /\ UNCHANGED <<file, deletion, Documents, faults>>

\* os.replace: the file is renamed over whatever has the name by now.
Publish(u) ==
    LET n == Current(u).name
    IN /\ upload[u].pc = "publishing"
       /\ file' = [file EXCEPT ![n] = IF Current(u).valid THEN "track" ELSE "broken"]
       /\ upload' = [v \in Uploads |->
                       IF v = u
                       THEN [upload[u] EXCEPT !.pc = "reading"]
                       ELSE IF upload[v].pc \in {"receiving", "publishing"}
                               /\ Current(v).name = n
                       THEN [upload[v] EXCEPT !.surprised = TRUE]
                       ELSE upload[v]]
       /\ UNCHANGED <<deletion, Documents, faults>>

\* The metadata of the new file is read back, then comes the next file of the
\* batch.  A file deleted in between is an error that nobody maps to an answer.
ReadBack(u) ==
    /\ upload[u].pc = "reading"
    /\ IF ~Exists(Current(u).name) \/ upload[u].at = Len(upload[u].batch)
       THEN AnswerUpload(u)
       ELSE SetUpload(u, [upload[u] EXCEPT !.pc = "opening", !.at = @ + 1])
    /\ UNCHANGED <<file, deletion, Documents, faults>>

\* The body breaks off, a file cannot be written, or the API process dies.
UploadFails(u) ==
    /\ upload[u].pc \notin {"idle", "answered"}
    /\ Fault
    /\ AnswerUpload(u)
    /\ UNCHANGED <<file, deletion, Documents>>

-----------------------------------------------------------------------------
(* Deletions *)

SetDeletion(d, new) == deletion' = [deletion EXCEPT ![d] = new]
AnswerDeletion(d) == SetDeletion(d, NoDeletion("answered"))

\* delete_tracks: every track must exist ...
BeginDeletion(d, names) ==
    /\ deletion[d].pc = "idle"
    /\ IF \E n \in names : ~Exists(n)
       THEN AnswerDeletion(d)
       ELSE SetDeletion(d, [pc |-> "checking", left |-> names])
    /\ UNCHANGED <<file, upload, Documents, faults>>

\* ... and be named by no run that may still need it ...
CheckRuns(d) ==
    /\ deletion[d].pc = "checking"
    /\ IF \E r \in Runs : /\ status[r] \in BlockingStatuses
                          /\ tracks[r] \cap deletion[d].left # {}
       THEN AnswerDeletion(d)
       ELSE SetDeletion(d, [deletion[d] EXCEPT !.pc = "deleting"])
    /\ UNCHANGED <<file, upload, Documents, faults>>

\* ... before they are unlinked one by one; one that is gone meanwhile ends the
\* request, and those already unlinked stay so.
Unlink(d) ==
    /\ deletion[d].pc = "deleting"
    /\ \E n \in deletion[d].left :
          /\ file' = [file EXCEPT ![n] = "none"]
          /\ IF Exists(n) /\ deletion[d].left # {n}
             THEN SetDeletion(d, [deletion[d] EXCEPT !.left = @ \ {n}])
             ELSE AnswerDeletion(d)
    /\ UNCHANGED <<upload, Documents, faults>>

DeletionDies(d) ==
    /\ deletion[d].pc \in {"checking", "deleting"}
    /\ Fault
    /\ AnswerDeletion(d)
    /\ UNCHANGED <<file, upload, Documents>>

-----------------------------------------------------------------------------
(* Runs *)

\* Nothing is about to unlink a track of the run, and all are there.
Safe(r) ==
    \A n \in tracks[r] :
        Exists(n) /\ \A d \in Deletions : deletion[d].pc = "deleting" => n \notin deletion[d].left

\* save_run: the testbench is built over tracks the client found in the library ...
PrepareRun(r, chosen) ==
    /\ status[r] = "none"
    /\ \A n \in chosen : Exists(n)
    /\ status' = [status EXCEPT ![r] = "preparing"]
    /\ tracks' = [tracks EXCEPT ![r] = chosen]
    /\ UNCHANGED <<file, upload, deletion, raced, faults>>

Activate(r, new) ==
    /\ status' = [status EXCEPT ![r] = new]
    /\ raced' = IF Safe(r) THEN raced ELSE raced \cup {r}
    /\ UNCHANGED <<file, upload, deletion, tracks, faults>>

\* ... and the document is inserted.
SaveRun(r) == status[r] = "preparing" /\ Activate(r, "created")

\* A failed finalization is queued again (module RunLifecycle).
Requeue(r) == status[r] = "failed" /\ Activate(r, "queued")

\* The other changes of the status (module RunLifecycle).
Advance(r) ==
    /\ \/ status[r] = "created" /\ status' = [status EXCEPT ![r] = "queued"]
       \/ /\ status[r] = "queued"
          /\ \E new \in {"created", "running", "awaiting_input", "failed"} :
                status' = [status EXCEPT ![r] = new]
       \/ /\ status[r] = "running"
          /\ \E new \in {"awaiting_input", "completed", "failed"} :
                status' = [status EXCEPT ![r] = new]
       \/ status[r] = "awaiting_input" /\ status' = [status EXCEPT ![r] = "queued"]
    /\ UNCHANGED <<file, upload, deletion, tracks, raced, faults>>

-----------------------------------------------------------------------------

UploadStep(u) ==
    \/ \E batch \in Batches, overwrite \in BOOLEAN : BeginUpload(u, batch, overwrite)
    \/ OpenUpload(u) \/ Receive(u) \/ Publish(u) \/ ReadBack(u) \/ UploadFails(u)

DeletionStep(d) ==
    \/ \E names \in (SUBSET Names) \ {{}} : BeginDeletion(d, names)
    \/ CheckRuns(d) \/ Unlink(d) \/ DeletionDies(d)

RunStep(r) ==
    \/ \E chosen \in (SUBSET Names) \ {{}} : PrepareRun(r, chosen)
    \/ SaveRun(r) \/ Requeue(r) \/ Advance(r)

Next == \/ \E u \in Uploads : UploadStep(u)
        \/ \E d \in Deletions : DeletionStep(d)
        \/ \E r \in Runs : RunStep(r)

Spec == Init /\ [][Next]_vars

-----------------------------------------------------------------------------
(* Properties *)

\* A run that became active while its tracks were there and no deletion had
\* passed its check finds a whole, readable track under each of their names as
\* long as it is active: no deletion takes one away, and no upload shows through
\* before it is complete and validated, however it ends.
TracksKept ==
    \A r \in Runs : Active(r) /\ r \notin raced => \A n \in tracks[r] : file[n] = "track"

\* Without permission to overwrite, an upload replaces a track only if another
\* upload published it under this one's feet.
OverwriteNeedsPermission ==
    [][\A u \in Uploads :
          upload[u].pc = "publishing" /\ upload'[u].pc = "reading" =>
              \/ upload[u].overwrite \/ upload[u].surprised
              \/ ~Exists(Current(u).name)]_vars

-----------------------------------------------------------------------------
(* The inductive invariant, proved in FileStores_proofs *)

\* A request starts with the first file of its batch.
RequestsStartFirst == \A u \in Uploads : upload[u].pc = "idle" => upload[u].at = 1

\* What is renamed over a destination was validated, so every file is a track.
PublishedFilesAreValid ==
    /\ \A n \in Names : file[n] # "broken"
    /\ \A u \in Uploads : upload[u].pc = "publishing" => Current(u).valid

\* No deletion that passed its check wants a track of a run that is safe.
DeletionsSpareRuns ==
    \A r \in Runs : Active(r) /\ r \notin raced => Safe(r)

\* An upload without permission knows of every file with its name.
UploadsKnowTheirNames ==
    \A u \in Uploads :
        upload[u].pc \in {"receiving", "publishing"} =>
            upload[u].overwrite \/ upload[u].surprised \/ ~Exists(Current(u).name)

IInv ==
    /\ TypeOK
    /\ RequestsStartFirst
    /\ PublishedFilesAreValid
    /\ DeletionsSpareRuns
    /\ UploadsKnowTheirNames
=============================================================================
