--------------------------- MODULE StudyArtifacts ---------------------------
(***************************************************************************)
(* The files of one listening study: launch_run exports the material that  *)
(* participants hear (studies_service.py), finalize_listening_run publishes *)
(* the frozen results beside it (finalization.py).  Each is staged in a    *)
(* temporary directory and renamed into place, and a repetition finds the  *)
(* directory and compares instead.  Both actors may run twice, at the same *)
(* time, or die at any point (module RunLifecycle), and both read condition *)
(* data from an execution tree that other runs share and may rebuild.      *)
(***************************************************************************)
EXTENDS Naturals, FiniteSets

CONSTANTS Workers,
          Definitions,   \* what assemble_study makes of the bundles
          Samples,       \* the rest of what the bundles' hashes cover
          None,
          MaxSaves,      \* bound on the changes of a study while it is collecting
          MaxRebuilds,   \* bound on changes of the shared tree
          MaxUpgrades,   \* bound on changes of the analysis code or environment
          MaxFaults      \* bound on workers that die and files that get lost

VARIABLES
    shared,    \* the prepared bundles in the shared tree
    analysis,  \* version of the analysis code and environment
    material,  \* the published material, with definition.json and the hashes
    final,     \* the "finalized" directory
    study,     \* the study document
    worker,
    rebuilds, faults

vars == <<shared, analysis, material, final, study, worker, rebuilds, faults>>

Bundles == [definition: Definitions, samples: Samples]

Study == [status: {"collecting", "closed", "finalized"}, revision: Nat,
          definition: Definitions]

\* intact: every file the manifest and the code require is there.
Final == [revision: Nat, analysis: Nat, bundle: Bundles, intact: BOOLEAN]

\* preparing, exporting, saving: launch_run.  finalizing, writing, marking:
\* finalize_listening_run.  conflict: it found other final artifacts.
Worker == [pc: {"idle", "preparing", "exporting", "saving",
                "finalizing", "writing", "marking", "conflict"},
           bundle: Bundles, revision: Nat, analysis: Nat]

\* What the constants have to be; module FileStores assumes it.
ArtifactConstants ==
    /\ {MaxSaves, MaxRebuilds, MaxUpgrades, MaxFaults} \subseteq Nat
    /\ None \notin Bundles /\ None \notin Study /\ None \notin Final

TypeOK ==
    /\ shared \in Bundles
    /\ analysis \in 0 .. MaxUpgrades
    /\ material \in Bundles \cup {None}
    /\ final \in Final \cup {None}
    /\ study \in Study \cup {None}
    /\ worker \in [Workers -> Worker]
    /\ rebuilds \in 0 .. MaxRebuilds
    /\ faults \in 0 .. MaxFaults

Init ==
    /\ shared \in Bundles
    /\ analysis = 0
    /\ material = None
    /\ final = None
    /\ study = None
    /\ worker = [w \in Workers |-> [pc |-> "idle", bundle |-> shared,
                                    revision |-> 0, analysis |-> 0]]
    /\ rebuilds = 0
    /\ faults = 0

Fault == faults < MaxFaults /\ faults' = faults + 1
Environment == <<shared, analysis, rebuilds>>

Goto(w, step) == worker' = [worker EXCEPT ![w].pc = step]

\* Definitions whose name starts with Wrong are plausible defects of the
\* definition that follows them.  No specification uses them: each is put in
\* the place of that definition to see that a property notices it.

\* An exception: the actor fails its run, temporary directories go.
Fail(w) == Goto(w, "idle")

-----------------------------------------------------------------------------
(* launch_run: preparation of the study *)

\* prepare_studies: the condition data of the run's tree is read.
BeginPrepare(w) ==
    /\ worker[w].pc = "idle"
    /\ worker' = [worker EXCEPT ![w].pc = "preparing", ![w].bundle = shared]
    /\ UNCHANGED <<Environment, material, final, study, faults>>

WrongLookAtMaterial(w) ==
    /\ worker[w].pc = "preparing"
    /\ IF material = None
       THEN Goto(w, "exporting")
       ELSE Goto(w, "saving")
    /\ UNCHANGED <<Environment, material, final, study, faults>>

\* _publish_material: published material is compared, not replaced.
LookAtMaterial(w) ==
    /\ worker[w].pc = "preparing"
    /\ IF material = None
       THEN Goto(w, "exporting")
       ELSE IF material = worker[w].bundle
       THEN Goto(w, "saving")
       ELSE Fail(w)
    /\ UNCHANGED <<Environment, material, final, study, faults>>

\* A directory is not renamed over another one.
RenameMaterial(w) ==
    /\ worker[w].pc = "exporting"
    /\ IF material = None
       THEN material' = worker[w].bundle /\ Goto(w, "saving")
       ELSE Fail(w) /\ UNCHANGED material
    /\ UNCHANGED <<Environment, final, study, faults>>

Collecting(definition) == [status |-> "collecting", revision |-> 0, definition |-> definition]

WrongSaveStudy(w) ==
    /\ worker[w].pc = "saving"
    /\ study' = Collecting(worker[w].bundle.definition)
    /\ Goto(w, "idle")
    /\ UNCHANGED <<Environment, material, final, faults>>

\* save_prepared: inserted if absent.
SaveStudy(w) ==
    /\ worker[w].pc = "saving"
    /\ study' = IF study = None THEN Collecting(worker[w].bundle.definition) ELSE study
    /\ Goto(w, "idle")
    /\ UNCHANGED <<Environment, material, final, faults>>

-----------------------------------------------------------------------------
(* The collection (module ListeningStudy) *)

WrongCollect ==
    /\ study # None /\ study.status # "finalized" /\ study.revision < MaxSaves
    /\ study' = [study EXCEPT !.revision = @ + 1]
    /\ UNCHANGED <<Environment, material, final, worker, faults>>

\* Any change of a collecting study raises its revision.
Collect ==
    /\ study # None /\ study.status = "collecting" /\ study.revision < MaxSaves
    /\ study' = [study EXCEPT !.revision = @ + 1]
    /\ UNCHANGED <<Environment, material, final, worker, faults>>

Close ==
    /\ study # None /\ study.status = "collecting"
    /\ study' = [study EXCEPT !.status = "closed", !.revision = @ + 1]
    /\ UNCHANGED <<Environment, material, final, worker, faults>>

-----------------------------------------------------------------------------
(* finalize_listening_run *)

\* finalize_studies: a study that is collecting is refused, a finalized one is
\* done, a closed one is analysed (its digest covers the revision and the
\* analysis version).
BeginFinalize(w) ==
    /\ worker[w].pc = "idle"
    /\ study # None /\ study.status = "closed"
    /\ worker' = [worker EXCEPT ![w].pc = "finalizing", ![w].revision = study.revision,
                                ![w].analysis = analysis]
    /\ UNCHANGED <<Environment, material, final, study, faults>>

SameInput(w) == final.revision = worker[w].revision /\ final.analysis = worker[w].analysis

WrongLookAtFinal(w) ==
    /\ worker[w].pc = "finalizing"
    /\ IF final # None
       THEN Goto(w, "marking")
       ELSE worker' = [worker EXCEPT ![w].pc = "writing", ![w].bundle = shared]
    /\ UNCHANGED <<Environment, material, final, study, faults>>

\* publish_final_artifacts: a previous publication must be the same and whole;
\* otherwise the bundles are read again and must be those of the material.
LookAtFinal(w) ==
    /\ worker[w].pc = "finalizing"
    /\ \/ /\ final # None /\ ~SameInput(w)
          /\ Goto(w, "conflict")
       \/ /\ final # None /\ SameInput(w)
          /\ IF final.intact THEN Goto(w, "marking") ELSE Fail(w)
       \/ /\ final = None
          /\ IF shared = material /\ shared.definition = study.definition
             THEN worker' = [worker EXCEPT ![w].pc = "writing", ![w].bundle = shared]
             ELSE Fail(w)
    /\ UNCHANGED <<Environment, material, final, study, faults>>

RenameFinal(w) ==
    /\ worker[w].pc = "writing"
    /\ IF final = None
       THEN /\ final' = [revision |-> worker[w].revision, analysis |-> worker[w].analysis,
                         bundle |-> worker[w].bundle, intact |-> TRUE]
            /\ Goto(w, "marking")
       ELSE Fail(w) /\ UNCHANGED final
    /\ UNCHANGED <<Environment, material, study, faults>>

\* mark_finalized, or "Frozen study changed during finalization".
MarkFinalized(w) ==
    /\ worker[w].pc = "marking"
    /\ study' = IF study.status = "closed" /\ study.revision = worker[w].revision
                THEN [study EXCEPT !.status = "finalized", !.revision = @ + 1]
                ELSE study
    /\ Goto(w, "idle")
    /\ UNCHANGED <<Environment, material, final, faults>>

\* The actor fails its run with a conflict.
EndConflict(w) ==
    /\ worker[w].pc = "conflict"
    /\ Goto(w, "idle")
    /\ UNCHANGED <<Environment, material, final, study, faults>>

-----------------------------------------------------------------------------
(* The rest of the world *)

\* The process dies; nothing reads the temporary directory it leaves.
WorkerDies(w) ==
    /\ worker[w].pc # "idle"
    /\ Fault
    /\ Goto(w, "idle")
    /\ UNCHANGED <<Environment, material, final, study>>

\* A file of the final artifacts disappears.
LoseFile ==
    /\ final # None /\ final.intact
    /\ Fault
    /\ final' = [final EXCEPT !.intact = FALSE]
    /\ UNCHANGED <<Environment, material, study, worker>>

\* Another run rebuilds the shared tree.
Rebuild(bundle) ==
    /\ rebuilds < MaxRebuilds
    /\ rebuilds' = rebuilds + 1
    /\ bundle # shared
    /\ shared' = bundle
    /\ UNCHANGED <<analysis, material, final, study, worker, faults>>

\* A new version of the backend or its libraries is deployed.
Upgrade ==
    /\ analysis < MaxUpgrades
    /\ analysis' = analysis + 1
    /\ UNCHANGED <<shared, rebuilds, material, final, study, worker, faults>>

-----------------------------------------------------------------------------

WorkerStep(w) ==
    \/ BeginPrepare(w) \/ LookAtMaterial(w) \/ RenameMaterial(w) \/ SaveStudy(w)
    \/ BeginFinalize(w) \/ LookAtFinal(w) \/ RenameFinal(w) \/ MarkFinalized(w)
    \/ EndConflict(w) \/ WorkerDies(w)

Next ==
    \/ \E w \in Workers : WorkerStep(w)
    \/ Collect \/ Close \/ LoseFile \/ Upgrade
    \/ \E bundle \in Bundles : Rebuild(bundle)

Spec == Init /\ [][Next]_vars

-----------------------------------------------------------------------------
(* Properties *)

\* A study is collected for the material that was published, whichever launch
\* published it and whichever saved the study.
StudyHasItsMaterial ==
    study # None => material # None /\ material.definition = study.definition

\* The results of a finalized study are those of its frozen revision, computed
\* from the very material the participants heard.
FinalMatchesStudy ==
    study # None /\ study.status = "finalized" =>
        final # None /\ final.revision + 1 = study.revision /\ final.bundle = material

\* A launch that is repeated, late or concurrent never resets a collection.
CollectionIsKept ==
    [][study # None => /\ study'.definition = study.definition
                       /\ study'.revision >= study.revision
                       /\ study.status = "finalized" => study' = study]_vars

\* A finalization that is tried again meets a conflict only if the analysis
\* changed since the artifacts were published.
ConflictMeansUpgrade ==
    \A w \in Workers : worker[w].pc = "conflict" => final.analysis # worker[w].analysis

-----------------------------------------------------------------------------
(* The inductive invariant, proved in FileStores_proofs *)

\* The revision a study was closed at, as long as it is frozen.
Frozen(frozen) ==
    /\ study # None
    /\ \/ study.status = "closed" /\ study.revision = frozen
       \/ study.status = "finalized" /\ study.revision = frozen + 1

\* A launch saves the study only after the material of its own bundle is there.
LaunchesHaveMaterial ==
    \A w \in Workers : worker[w].pc = "saving" => material = worker[w].bundle

\* A finalization works on the frozen revision, writes the participants'
\* material and marks the study only when the results are there.
FinalizationsAreFrozen ==
    \A w \in Workers :
        /\ worker[w].pc \in {"finalizing", "writing", "marking"} => Frozen(worker[w].revision)
        /\ worker[w].pc = "writing" => worker[w].bundle = material
        /\ worker[w].pc \in {"marking", "conflict"} => final # None

\* Published results belong to the frozen revision and to the material.
ResultsAreFrozen ==
    /\ final # None => Frozen(final.revision) /\ final.bundle = material
    /\ study # None /\ study.status = "finalized" => final # None

IInv ==
    /\ TypeOK
    /\ StudyHasItsMaterial
    /\ LaunchesHaveMaterial
    /\ FinalizationsAreFrozen
    /\ ResultsAreFrozen
    /\ ConflictMeansUpgrade
=============================================================================
