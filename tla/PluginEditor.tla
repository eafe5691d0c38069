---------------------------- MODULE PluginEditor ----------------------------
(***************************************************************************)
(* The plugin editor (plugins/plugins_service.py): clients open the source *)
(* of a plugin and save it back with the revision they opened, new plugins *)
(* are uploaded, and developers change the same directory by hand.  Saves  *)
(* of all API threads and processes go through one file lock; uploads and  *)
(* manual changes do not.  Temporary files are private to their requests   *)
(* and are not part of the state.                                          *)
(***************************************************************************)
EXTENDS Naturals, FiniteSets

CONSTANTS Plugins,    \* file names that pass _check_filename
          Contents,   \* sources; the revision of a source is its digest
          Broken,     \* the sources that do not pass _validate_content
          Missing,    \* no such file
          Irregular,  \* a directory or a symbolic link has the name
          Nobody,
          Editors,    \* clients with an editor open, one save at a time each
          Uploads,    \* upload requests
          MaxManual,  \* bound on manual changes of the directory
          MaxFaults   \* bound on storage errors and processes that die

\* What the constants have to be; module FileStores assumes it.
EditorConstants ==
    /\ Broken \subseteq Contents
    /\ {Missing, Irregular} \cap Contents = {} /\ Missing # Irregular
    /\ Nobody \notin Editors
    /\ MaxManual \in Nat /\ MaxFaults \in Nat

VARIABLES
    file,      \* what is under each name
    lock,      \* the editor whose save holds .plugin-editor.lock
    editor,    \* each client and its save
    upload,    \* each upload request
    tampered,  \* history: editors whose plugin was changed by hand after the recheck
    manual, faults

vars == <<file, lock, editor, upload, tampered, manual, faults>>

-----------------------------------------------------------------------------

\* open: revision is what the client shows.  The other steps are save_source.
Steps == {"closed", "open", "waiting", "locked", "comparing", "staged", "rechecked",
          "replaced", "refused"}
Editor == [pc: Steps, plugin: Plugins \cup {Nobody}, revision: Contents \cup {Missing},
           content: Contents \cup {Missing}]
Closed == [pc |-> "closed", plugin |-> Nobody, revision |-> Missing, content |-> Missing]

Upload == [pc: {"idle", "staged", "answered"}, plugin: Plugins \cup {Nobody},
           content: Contents \cup {Missing}]
NoUpload(pc) == [pc |-> pc, plugin |-> Nobody, content |-> Missing]

TypeOK ==
    /\ file \in [Plugins -> Contents \cup {Missing, Irregular}]
    /\ lock \in Editors \cup {Nobody}
    /\ editor \in [Editors -> Editor]
    /\ upload \in [Uploads -> Upload]
    /\ tampered \subseteq Editors
    /\ manual \in 0 .. MaxManual
    /\ faults \in 0 .. MaxFaults

Init ==
    /\ file \in [Plugins -> Contents \cup {Missing}]
    /\ lock = Nobody
    /\ editor = [e \in Editors |-> Closed]
    /\ upload = [u \in Uploads |-> NoUpload("idle")]
    /\ tampered = {}
    /\ manual = 0
    /\ faults = 0

Fault == faults < MaxFaults /\ faults' = faults + 1
Goto(e, step) == editor' = [editor EXCEPT ![e].pc = step]
Readable(p) == file[p] \in Contents

\* Definitions whose name starts with Wrong are plausible defects of the
\* definition that follows them.  No specification uses them: each is put in
\* the place of that definition to see that a property notices it.

-----------------------------------------------------------------------------
(* Editing *)

\* get_source; an open client may reload.
OpenSource(e, p) ==
    /\ editor[e].pc \in {"closed", "open"}
    /\ Readable(p)
    /\ editor' = [editor EXCEPT ![e] = [pc |-> "open", plugin |-> p,
                                        revision |-> file[p], content |-> file[p]]]
    /\ UNCHANGED <<file, lock, upload, tampered, manual, faults>>

\* save_source: the source is inspected and the file looked at before the lock.
BeginSave(e, content) ==
    /\ editor[e].pc = "open"
    /\ content \notin Broken /\ Readable(editor[e].plugin)
    /\ editor' = [editor EXCEPT ![e].pc = "waiting", ![e].content = content]
    /\ UNCHANGED <<file, lock, upload, tampered, manual, faults>>

\* flock
TakeLock(e) ==
    /\ editor[e].pc = "waiting" /\ lock = Nobody
    /\ lock' = e
    /\ Goto(e, "locked")
    /\ UNCHANGED <<file, upload, tampered, manual, faults>>

\* The file must still be there, a regular file, and what the client opened.
Compare(e) ==
    /\ editor[e].pc = "locked"
    /\ Goto(e, IF file[editor[e].plugin] = editor[e].revision THEN "comparing" ELSE "refused")
    /\ UNCHANGED <<file, lock, upload, tampered, manual, faults>>

\* The new source is written beside it ...
Stage(e) ==
    /\ editor[e].pc = "comparing"
    /\ Goto(e, "staged")
    /\ UNCHANGED <<file, lock, upload, tampered, manual, faults>>

WrongRecheck(e) ==
    /\ editor[e].pc = "staged"
    /\ Goto(e, "rechecked")
    /\ tampered' = tampered \ {e}
    /\ UNCHANGED <<file, lock, upload, manual, faults>>

\* ... the file is compared again, for manual changes made meanwhile ...
Recheck(e) ==
    /\ editor[e].pc = "staged"
    /\ Goto(e, IF file[editor[e].plugin] = editor[e].revision THEN "rechecked" ELSE "refused")
    /\ tampered' = tampered \ {e}
    /\ UNCHANGED <<file, lock, upload, manual, faults>>

\* ... and replaced, whatever it is by now.
Replace(e) ==
    /\ editor[e].pc = "rechecked"
    /\ file' = [file EXCEPT ![editor[e].plugin] = editor[e].content]
    /\ Goto(e, "replaced")
    /\ UNCHANGED <<lock, upload, tampered, manual, faults>>

\* The lock is dropped and the client is told: it goes on with
\* the revision it saved, or has to reload.
Release(e) ==
    /\ editor[e].pc \in {"replaced", "refused"}
    /\ editor' = [editor EXCEPT ![e] = IF @.pc = "refused" THEN Closed
                                       ELSE [@ EXCEPT !.pc = "open",
                                                      !.revision = editor[e].content]]
    /\ lock' = Nobody
    /\ UNCHANGED <<file, upload, tampered, manual, faults>>

WrongSaveFails(e) ==
    /\ editor[e].pc \notin {"closed", "open"}
    /\ Fault
    /\ editor' = [editor EXCEPT ![e] = Closed]
    /\ lock' = Nobody
    /\ UNCHANGED <<file, upload, tampered, manual>>

\* A storage error before the replacement, or a process that dies at any point:
\* the lock is dropped by the finally branch or the operating system.
SaveFails(e) ==
    /\ editor[e].pc \notin {"closed", "open"}
    /\ Fault
    /\ editor' = [editor EXCEPT ![e] = Closed]
    /\ lock' = IF lock = e THEN Nobody ELSE lock
    /\ UNCHANGED <<file, upload, tampered, manual>>

-----------------------------------------------------------------------------
(* Uploading, and the rest of the world *)

\* upload: a valid source is written to a temporary file ...
BeginUpload(u, p, content) ==
    /\ upload[u].pc = "idle"
    /\ content \notin Broken
    /\ upload' = [upload EXCEPT ![u] = [pc |-> "staged", plugin |-> p, content |-> content]]
    /\ UNCHANGED <<file, lock, editor, tampered, manual, faults>>

\* ... and linked under its name, which fails when the name is taken.
Link(u) ==
    LET p == upload[u].plugin
    IN /\ upload[u].pc = "staged"
       /\ file' = IF file[p] = Missing THEN [file EXCEPT ![p] = upload[u].content] ELSE file
       /\ upload' = [upload EXCEPT ![u] = NoUpload("answered")]
       /\ UNCHANGED <<lock, editor, tampered, manual, faults>>

\* A storage error, or the process dies.
UploadFails(u) ==
    /\ upload[u].pc = "staged"
    /\ Fault
    /\ upload' = [upload EXCEPT ![u] = NoUpload("answered")]
    /\ UNCHANGED <<file, lock, editor, tampered, manual>>

\* A developer writes, removes or replaces a plugin.
Tamper(p, new) ==
    /\ manual < MaxManual
    /\ manual' = manual + 1
    /\ file[p] # new
    /\ file' = [file EXCEPT ![p] = new]
    /\ tampered' = tampered \cup {e \in Editors : editor[e].pc = "rechecked"
                                                  /\ editor[e].plugin = p}
    /\ UNCHANGED <<lock, editor, upload, faults>>

-----------------------------------------------------------------------------

SaveStep(e) == TakeLock(e) \/ Compare(e) \/ Stage(e) \/ Recheck(e) \/ Replace(e) \/ Release(e)

Next ==
    \/ \E e \in Editors :
          \/ SaveStep(e) \/ SaveFails(e)
          \/ \E p \in Plugins : OpenSource(e, p)
          \/ \E content \in Contents : BeginSave(e, content)
    \/ \E u \in Uploads :
          \/ Link(u) \/ UploadFails(u)
          \/ \E p \in Plugins, content \in Contents : BeginUpload(u, p, content)
    \/ \E p \in Plugins, new \in Contents \cup {Missing, Irregular} : Tamper(p, new)

Spec == Init /\ [][Next]_vars

-----------------------------------------------------------------------------
(* Properties *)

\* Nobody's source is lost: a plugin that exists is changed by a save only, of
\* a client that had opened or saved exactly the source it replaces (uploads
\* never change one), or by hand.  The exception is a manual change made between
\* the recheck and the rename.
NoLostSave ==
    [][\A p \in Plugins : file[p] # Missing /\ file'[p] # file[p] /\ manual' = manual =>
          \E e \in Editors :
              /\ editor[e].pc = "rechecked" /\ editor'[e].pc = "replaced"
              /\ editor[e].plugin = p
              /\ file[p] = editor[e].revision \/ e \in tampered]_vars

-----------------------------------------------------------------------------
(* The inductive invariant, proved in FileStores_proofs *)

\* Whoever edits has a plugin and its source; an upload has a plugin and a source.
WorkIsNamed ==
    /\ \A e \in Editors : editor[e].pc # "closed" =>
           editor[e].plugin \in Plugins /\ {editor[e].revision, editor[e].content} \subseteq Contents
    /\ \A u \in Uploads : upload[u].pc = "staged" =>
           upload[u].plugin \in Plugins /\ upload[u].content \in Contents

\* One save at a time is past the lock.
LockIsExclusive ==
    \A e \in Editors :
        editor[e].pc \in {"locked", "comparing", "staged", "rechecked", "replaced", "refused"}
            => lock = e

\* What a save has rechecked is what it is going to replace, but for manual changes.
RecheckHolds ==
    \A e \in Editors : editor[e].pc = "rechecked" =>
        file[editor[e].plugin] = editor[e].revision \/ e \in tampered

IInv ==
    /\ TypeOK
    /\ WorkIsNamed
    /\ LockIsExclusive
    /\ RecheckHolds
=============================================================================
