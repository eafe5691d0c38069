-------------------------- MODULE FileStores_proofs --------------------------
(***************************************************************************)
(* The safety of the three file stores, for any sets of names, requests,   *)
(* editors, workers and contents and any number of faults.  Each library's *)
(* IInv is inductive; a step of one store leaves the variables of the      *)
(* others alone, so that their conjunction is an invariant of FileStores.  *)
(***************************************************************************)
EXTENDS FileStores, Integers, Sequences, FiniteSets, SequenceTheorems, TLAPS

-----------------------------------------------------------------------------
(* The material and the results of a study (StudyArtifacts) *)

\* What is there has its type.
LEMMA ArtifactsThere ==
    ASSUME Artifacts!TypeOK
    PROVE  /\ study # None => study \in Artifacts!Study
           /\ final # None => final \in Artifacts!Final
           /\ material # None => material \in Artifacts!Bundles
  BY DEF Artifacts!TypeOK

\* The bounds are numbers.
LEMMA ArtifactBounds ==
    {MaxSaves, MaxRebuilds, MaxUpgrades, MaxLosses} \subseteq Nat
  BY StoresAssumption DEF Artifacts!ArtifactConstants

\* The next revision of a study, under a new status.
LEMMA StudyUpdate ==
    ASSUME NEW s \in Artifacts!Study, NEW new \in {"collecting", "closed", "finalized"},
           NEW t, t = [s EXCEPT !.status = new, !.revision = @ + 1]
    PROVE  /\ t \in Artifacts!Study /\ t.definition = s.definition
           /\ t.revision = s.revision + 1 /\ t.status = new
<1> DEFINE u == [s EXCEPT !.status = new]
<1>1. /\ u \in Artifacts!Study /\ u.definition = s.definition
      /\ u.revision = s.revision /\ u.status = new
  BY DEF Artifacts!Study
<1>2. t = [u EXCEPT !.revision = s.revision + 1]
  OBVIOUS
<1> HIDE DEF u
<1> QED BY <1>1, <1>2 DEF Artifacts!Study

\* Every step keeps the types.
LEMMA ArtifactTypes ==
    ASSUME Artifacts!TypeOK, Artifacts!FinalizationsAreFrozen, Artifacts!Next
    PROVE  Artifacts!TypeOK'
<1>1. ASSUME NEW w \in Workers, Artifacts!WorkerStep(w) PROVE Artifacts!TypeOK'
  <2>1. CASE Artifacts!BeginPrepare(w)
    BY <2>1, ZenonT(60) DEF Artifacts!BeginPrepare, Artifacts!TypeOK, Artifacts!Worker,
       Artifacts!Environment
  <2>2. CASE Artifacts!LookAtMaterial(w)
    BY <2>2 DEF Artifacts!LookAtMaterial, Artifacts!Goto, Artifacts!Fail,
       Artifacts!TypeOK,
       Artifacts!Worker, Artifacts!Environment
  <2>3. CASE Artifacts!RenameMaterial(w)
    BY <2>3 DEF Artifacts!RenameMaterial, Artifacts!Goto, Artifacts!Fail,
       Artifacts!TypeOK,
       Artifacts!Worker, Artifacts!Environment
  <2>4. CASE Artifacts!SaveStudy(w)
    BY <2>4 DEF Artifacts!SaveStudy, Artifacts!Collecting, Artifacts!Goto,
       Artifacts!TypeOK,
       Artifacts!Worker, Artifacts!Study, Artifacts!Bundles, Artifacts!Environment
  <2>5. CASE Artifacts!BeginFinalize(w)
    <3>1. study.revision \in Nat /\ analysis \in Nat /\ worker[w] \in Artifacts!Worker
      BY <1>1, <2>5, ArtifactsThere DEF Artifacts!BeginFinalize, Artifacts!Study,
         Artifacts!TypeOK
    <3>2. PICK k \in Nat, n \in Nat : k = study.revision /\ n = analysis
      BY <3>1
    <3>3. [worker[w] EXCEPT !.pc = "finalizing", !.revision = k, !.analysis = n]
             \in Artifacts!Worker
      <4> DEFINE v == [worker[w] EXCEPT !.pc = "finalizing", !.revision = k]
      <4>1. v \in Artifacts!Worker
        BY <3>1 DEF Artifacts!Worker
      <4> HIDE DEF v
      <4>2. [v EXCEPT !.analysis = n] \in Artifacts!Worker
        BY <4>1 DEF Artifacts!Worker
      <4> QED BY <4>2 DEF v
    <3>4. worker' = [worker EXCEPT ![w] = [worker[w] EXCEPT !.pc = "finalizing",
                                                 !.revision = k, !.analysis = n]]
      BY <2>5, <3>2 DEF Artifacts!BeginFinalize
    <3> QED BY <2>5, <3>3, <3>4, ZenonT(60) DEF Artifacts!BeginFinalize, Artifacts!TypeOK,
            Artifacts!Environment
  <2>6. CASE Artifacts!LookAtFinal(w)
    BY <2>6 DEF Artifacts!LookAtFinal, Artifacts!Goto, Artifacts!Fail, Artifacts!TypeOK,
       Artifacts!Worker, Artifacts!Environment
  <2>7. CASE Artifacts!RenameFinal(w)
    <3>1. worker[w] \in Artifacts!Worker
      BY <1>1 DEF Artifacts!TypeOK
    <3>2. [revision |-> worker[w].revision, analysis |-> worker[w].analysis,
           bundle |-> worker[w].bundle, intact |-> TRUE] \in Artifacts!Final
      BY <3>1 DEF Artifacts!Worker, Artifacts!Final
    <3> QED BY <2>7, <3>2, ZenonT(60) DEF Artifacts!RenameFinal, Artifacts!Goto, Artifacts!Fail,
            Artifacts!TypeOK, Artifacts!Worker, Artifacts!Environment
  <2>8. CASE Artifacts!MarkFinalized(w)
    <3>1. CASE study.status = "closed" /\ study # None
      <4>1. [study EXCEPT !.status = "finalized", !.revision = @ + 1] \in Artifacts!Study
        BY <3>1, ArtifactsThere, StudyUpdate
      <4> QED BY <2>8, <4>1 DEF Artifacts!MarkFinalized, Artifacts!Goto, Artifacts!TypeOK,
              Artifacts!Worker, Artifacts!Environment
    <3>2. CASE study.status # "closed"
      BY <2>8, <3>2 DEF Artifacts!MarkFinalized, Artifacts!Goto, Artifacts!TypeOK,
         Artifacts!Worker, Artifacts!Environment
    <3>3. study # None
      BY <2>8 DEF Artifacts!MarkFinalized, Artifacts!FinalizationsAreFrozen,
         Artifacts!Frozen
    <3> QED BY <3>1, <3>2, <3>3
  <2>9. CASE Artifacts!EndConflict(w)
    BY <2>9 DEF Artifacts!EndConflict, Artifacts!Goto, Artifacts!TypeOK, Artifacts!Worker,
       Artifacts!Environment
  <2>10. CASE Artifacts!WorkerDies(w)
    BY <2>10, ArtifactBounds DEF Artifacts!WorkerDies, Artifacts!Fault, Artifacts!Goto,
       Artifacts!TypeOK,
       Artifacts!Worker, Artifacts!Environment
  <2> QED BY <1>1, <2>1, <2>2, <2>3, <2>4, <2>5, <2>6, <2>7, <2>8, <2>9, <2>10
          DEF Artifacts!WorkerStep
<1>2. ASSUME Artifacts!Collect \/ Artifacts!Close PROVE Artifacts!TypeOK'
  <2>1. study \in Artifacts!Study
    BY <1>2, ArtifactsThere DEF Artifacts!Collect, Artifacts!Close
  <2>2. [study EXCEPT !.revision = @ + 1] \in Artifacts!Study
    BY <2>1 DEF Artifacts!Study
  <2>3. [study EXCEPT !.status = "closed", !.revision = @ + 1] \in Artifacts!Study
    BY <2>1, StudyUpdate
  <2> QED BY <1>2, <2>2, <2>3 DEF Artifacts!Collect, Artifacts!Close, Artifacts!TypeOK,
          Artifacts!Environment
<1>3. ASSUME Artifacts!LoseFile PROVE Artifacts!TypeOK'
  <2>1. [final EXCEPT !.intact = FALSE] \in Artifacts!Final
    BY <1>3, ArtifactsThere DEF Artifacts!LoseFile, Artifacts!Final
  <2> QED BY <1>3, <2>1, ArtifactBounds DEF Artifacts!LoseFile, Artifacts!Fault,
             Artifacts!TypeOK,
          Artifacts!Environment
<1>4. ASSUME \/ Artifacts!Upgrade
             \/ \E bundle \in Artifacts!Bundles : Artifacts!Rebuild(bundle)
      PROVE  Artifacts!TypeOK'
  BY <1>4, ArtifactBounds DEF Artifacts!Upgrade, Artifacts!Rebuild, Artifacts!TypeOK
<1> QED BY <1>1, <1>2, <1>3, <1>4 DEF Artifacts!Next

\* Material and results appear once and stay; a frozen study stays frozen at its
\* revision; and no step resets a study.
LEMMA ArtifactsStay ==
    ASSUME Artifacts!IInv, Artifacts!Next
    PROVE  /\ material # None => material' = material
           /\ final # None => /\ final' # None /\ final'.revision = final.revision
                              /\ final'.analysis = final.analysis
                              /\ final'.bundle = final.bundle
           /\ study # None => /\ study' # None /\ study'.definition = study.definition
                              /\ study'.revision >= study.revision
                              /\ study.status = "finalized" => study' = study
           /\ \A frozen \in Nat : Artifacts!Frozen(frozen) => Artifacts!Frozen(frozen)'
<1>1. /\ study # None => study \in Artifacts!Study
      /\ final # None => final \in Artifacts!Final
  BY ArtifactsThere DEF Artifacts!IInv
<1>0. None \notin Artifacts!Study /\ None \notin Artifacts!Final
  BY StoresAssumption DEF Artifacts!ArtifactConstants
<1>2. material # None => material' = material
  BY DEF Artifacts!Next, Artifacts!WorkerStep, Artifacts!BeginPrepare,
     Artifacts!LookAtMaterial,
     Artifacts!RenameMaterial, Artifacts!SaveStudy, Artifacts!BeginFinalize,
     Artifacts!LookAtFinal, Artifacts!RenameFinal, Artifacts!MarkFinalized,
     Artifacts!EndConflict, Artifacts!WorkerDies, Artifacts!Collect, Artifacts!Close,
     Artifacts!LoseFile, Artifacts!Upgrade, Artifacts!Rebuild
<1>3. final # None => \/ final' = final
                      \/ final' = [final EXCEPT !.intact = FALSE]
  BY DEF Artifacts!Next, Artifacts!WorkerStep, Artifacts!BeginPrepare,
     Artifacts!LookAtMaterial,
     Artifacts!RenameMaterial, Artifacts!SaveStudy, Artifacts!BeginFinalize,
     Artifacts!LookAtFinal, Artifacts!RenameFinal, Artifacts!MarkFinalized,
     Artifacts!EndConflict, Artifacts!WorkerDies, Artifacts!Collect, Artifacts!Close,
     Artifacts!LoseFile, Artifacts!Upgrade, Artifacts!Rebuild
<1>4. study # None =>
         \/ study' = study
         \/ study.status = "collecting" /\ study' = [study EXCEPT !.revision = @ + 1]
         \/ /\ study.status = "collecting"
            /\ study' = [study EXCEPT !.status = "closed", !.revision = @ + 1]
         \/ /\ study.status = "closed"
            /\ study' = [study EXCEPT !.status = "finalized", !.revision = @ + 1]
  BY DEF Artifacts!Next, Artifacts!WorkerStep, Artifacts!BeginPrepare,
     Artifacts!LookAtMaterial,
     Artifacts!RenameMaterial, Artifacts!SaveStudy, Artifacts!BeginFinalize,
     Artifacts!LookAtFinal, Artifacts!RenameFinal, Artifacts!MarkFinalized,
     Artifacts!EndConflict, Artifacts!WorkerDies, Artifacts!Collect, Artifacts!Close,
     Artifacts!LoseFile, Artifacts!Upgrade, Artifacts!Rebuild
<1>5. final # None => /\ final' # None /\ final'.revision = final.revision
                      /\ final'.analysis = final.analysis
                      /\ final'.bundle = final.bundle
  <2>1. ASSUME final # None, final' = [final EXCEPT !.intact = FALSE]
        PROVE  /\ final' \in Artifacts!Final /\ final'.revision = final.revision
               /\ final'.analysis = final.analysis /\ final'.bundle = final.bundle
    BY <1>1, <2>1 DEF Artifacts!Final
  <2> QED BY <1>0, <1>3, <2>1
<1>6. study # None =>
         \/ study' = study
         \/ /\ study' \in Artifacts!Study /\ study'.definition = study.definition
            /\ study'.revision = study.revision + 1
            /\ \/ study.status = "collecting"
               \/ study.status = "closed" /\ study'.status = "finalized"
  <2>1. ASSUME study # None, NEW new \in {"collecting", "closed", "finalized"},
               study' = [study EXCEPT !.status = new, !.revision = @ + 1]
        PROVE  /\ study' \in Artifacts!Study /\ study'.definition = study.definition
               /\ study'.revision = study.revision + 1 /\ study'.status = new
    BY <1>1, <2>1, StudyUpdate, ZenonT(60)
  <2>2. ASSUME study # None, study' = [study EXCEPT !.revision = @ + 1]
        PROVE  /\ study' \in Artifacts!Study /\ study'.definition = study.definition
               /\ study'.revision = study.revision + 1
    BY <1>1, <2>2 DEF Artifacts!Study
  <2> QED BY <1>4, <2>1, <2>2
<1>7. study # None => study.revision \in Nat
  BY <1>1 DEF Artifacts!Study
<1>8. study # None => /\ study' # None /\ study'.definition = study.definition
                      /\ study'.revision >= study.revision
                      /\ study.status = "finalized" => study' = study
  BY <1>0, <1>6, <1>7
<1>9. \A frozen \in Nat : Artifacts!Frozen(frozen) => Artifacts!Frozen(frozen)'
  BY <1>6, <1>7, <1>8 DEF Artifacts!Frozen
<1> QED BY <1>2, <1>5, <1>8, <1>9


\* What a worker that moves has checked or done.
LEMMA WorkerMoves ==
    ASSUME Artifacts!TypeOK, Artifacts!Next, NEW v \in Workers
    PROVE  \/ worker'[v] = worker[v]
           \/ worker'[v].pc \in {"idle", "preparing", "exporting"}
           \/ worker'[v].pc = "saving" /\ material' = worker'[v].bundle
           \/ /\ worker'[v].pc = "finalizing"
              /\ study' # None /\ study'.status = "closed"
              /\ worker'[v].revision = study'.revision
           \/ /\ worker'[v].pc = "writing" /\ worker[v].pc = "finalizing"
              /\ worker'[v].revision = worker[v].revision
              /\ worker'[v].bundle = material'
           \/ /\ worker'[v].pc = "marking" /\ worker[v].pc \in {"finalizing", "writing"}
              /\ worker'[v].revision = worker[v].revision /\ final' # None
           \/ /\ worker'[v].pc = "conflict" /\ worker[v].pc = "finalizing"
              /\ worker'[v].analysis = worker[v].analysis
              /\ final # None /\ final' = final /\ ~Artifacts!SameInput(v)
<1>1. ASSUME NEW w \in Workers, Artifacts!WorkerStep(w), v # w PROVE worker'[v] = worker[v]
  BY <1>1 DEF Artifacts!TypeOK, Artifacts!WorkerStep, Artifacts!BeginPrepare,
     Artifacts!LookAtMaterial, Artifacts!RenameMaterial, Artifacts!SaveStudy,
     Artifacts!BeginFinalize, Artifacts!LookAtFinal, Artifacts!RenameFinal,
     Artifacts!MarkFinalized, Artifacts!EndConflict, Artifacts!WorkerDies, Artifacts!Goto,
     Artifacts!Fail
<1>2. CASE Artifacts!BeginPrepare(v)
  BY <1>2 DEF Artifacts!BeginPrepare, Artifacts!TypeOK, Artifacts!Worker
<1>3. CASE Artifacts!LookAtMaterial(v)
  BY <1>3 DEF Artifacts!LookAtMaterial, Artifacts!Goto, Artifacts!Fail, Artifacts!TypeOK,
     Artifacts!Worker
<1>4. CASE Artifacts!RenameMaterial(v)
  BY <1>4 DEF Artifacts!RenameMaterial, Artifacts!Goto, Artifacts!Fail, Artifacts!TypeOK,
     Artifacts!Worker
<1>5. CASE Artifacts!BeginFinalize(v)
  <2>1. worker[v] \in Artifacts!Worker
    BY DEF Artifacts!TypeOK
  <2>2. /\ worker'[v] = [worker[v] EXCEPT !.pc = "finalizing", !.revision = study.revision,
                                          !.analysis = analysis]
        /\ study # None /\ study.status = "closed" /\ study' = study
    BY <1>5 DEF Artifacts!BeginFinalize, Artifacts!TypeOK
  <2>3. worker'[v].pc = "finalizing" /\ worker'[v].revision = study.revision
    BY <2>1, <2>2 DEF Artifacts!Worker
  <2> QED BY <2>2, <2>3
<1>6. CASE Artifacts!LookAtFinal(v)
  BY <1>6 DEF Artifacts!LookAtFinal, Artifacts!Goto, Artifacts!Fail, Artifacts!TypeOK,
     Artifacts!Worker
<1>7. CASE Artifacts!RenameFinal(v)
  <2>1. worker[v] \in Artifacts!Worker
    BY DEF Artifacts!TypeOK
  <2>2. CASE final = None
    <3>1. [revision |-> worker[v].revision, analysis |-> worker[v].analysis,
           bundle |-> worker[v].bundle, intact |-> TRUE] \in Artifacts!Final
      BY <2>1 DEF Artifacts!Worker, Artifacts!Final
    <3>2. final' # None
      BY <1>7, <2>2, <3>1, StoresAssumption DEF Artifacts!RenameFinal,
         Artifacts!ArtifactConstants
    <3> QED BY <1>7, <2>1, <2>2, <3>2 DEF Artifacts!RenameFinal, Artifacts!Goto,
            Artifacts!TypeOK, Artifacts!Worker
  <2>3. CASE final # None
    BY <1>7, <2>1, <2>3 DEF Artifacts!RenameFinal, Artifacts!Goto, Artifacts!Fail,
       Artifacts!TypeOK, Artifacts!Worker
  <2> QED BY <2>2, <2>3
<1>8. CASE \/ Artifacts!SaveStudy(v) \/ Artifacts!MarkFinalized(v)
           \/ Artifacts!EndConflict(v) \/ Artifacts!WorkerDies(v)
  BY <1>8 DEF Artifacts!SaveStudy, Artifacts!MarkFinalized, Artifacts!EndConflict,
     Artifacts!WorkerDies, Artifacts!Goto, Artifacts!TypeOK, Artifacts!Worker
<1>9. CASE \/ Artifacts!Collect \/ Artifacts!Close \/ Artifacts!LoseFile \/ Artifacts!Upgrade
           \/ \E bundle \in Artifacts!Bundles : Artifacts!Rebuild(bundle)
  BY <1>9 DEF Artifacts!Collect, Artifacts!Close, Artifacts!LoseFile, Artifacts!Upgrade,
     Artifacts!Rebuild
<1>10. \/ Artifacts!WorkerStep(v) \/ \E w \in Workers : Artifacts!WorkerStep(w) /\ v # w
       \/ Artifacts!Collect \/ Artifacts!Close \/ Artifacts!LoseFile \/ Artifacts!Upgrade
       \/ \E bundle \in Artifacts!Bundles : Artifacts!Rebuild(bundle)
  BY DEF Artifacts!Next
<1> QED
  <2>1. CASE Artifacts!WorkerStep(v)
    BY <1>2, <1>3, <1>4, <1>5, <1>6, <1>7, <1>8, <2>1 DEF Artifacts!WorkerStep
  <2> QED BY <1>1, <1>9, <1>10, <2>1

\* What there is has a type that does not contain None.
LEMMA ArtifactsAreSomething ==
    /\ \A x \in Artifacts!Bundles : x # None
    /\ \A x \in Artifacts!Worker : x.bundle \in Artifacts!Bundles /\ x.revision \in Nat
    /\ \A x \in Artifacts!Final : x.bundle \in Artifacts!Bundles /\ x.revision \in Nat
<1>1. \A x \in Artifacts!Bundles : x # None
  BY StoresAssumption DEF Artifacts!ArtifactConstants
<1>2. \A x \in Artifacts!Worker : x.bundle \in Artifacts!Bundles /\ x.revision \in Nat
  BY DEF Artifacts!Worker
<1>3. \A x \in Artifacts!Final : x.bundle \in Artifacts!Bundles /\ x.revision \in Nat
  BY DEF Artifacts!Final
<1> QED BY <1>1, <1>2, <1>3

\* A study is saved, by whichever launch, for the material that is there.
LEMMA StudyKeepsItsMaterial ==
    ASSUME Artifacts!IInv, Artifacts!Next
    PROVE  Artifacts!StudyHasItsMaterial'
<1>1. CASE study # None
  BY <1>1, ArtifactsStay DEF Artifacts!IInv, Artifacts!StudyHasItsMaterial
<1>2. CASE study = None /\ study' # None
  <2>1. PICK w \in Workers : Artifacts!SaveStudy(w)
    BY <1>2 DEF Artifacts!Next, Artifacts!WorkerStep, Artifacts!BeginPrepare,
       Artifacts!LookAtMaterial, Artifacts!RenameMaterial, Artifacts!BeginFinalize,
       Artifacts!LookAtFinal, Artifacts!RenameFinal, Artifacts!MarkFinalized,
       Artifacts!EndConflict, Artifacts!WorkerDies, Artifacts!Collect, Artifacts!Close,
       Artifacts!LoseFile, Artifacts!Upgrade, Artifacts!Rebuild, Artifacts!IInv,
       Artifacts!FinalizationsAreFrozen, Artifacts!Frozen
  <2>2. study'.definition = worker[w].bundle.definition /\ material' = material
    BY <1>2, <2>1 DEF Artifacts!SaveStudy, Artifacts!Collecting
  <2>3. material = worker[w].bundle /\ material # None
    BY <2>1, ArtifactsAreSomething DEF Artifacts!SaveStudy, Artifacts!IInv,
       Artifacts!LaunchesHaveMaterial, Artifacts!TypeOK
  <2> QED BY <2>2, <2>3 DEF Artifacts!StudyHasItsMaterial
<1> QED BY <1>1, <1>2 DEF Artifacts!StudyHasItsMaterial

LEMMA LaunchesKeepMaterial ==
    ASSUME Artifacts!IInv, Artifacts!Next
    PROVE  Artifacts!LaunchesHaveMaterial'
<1> SUFFICES ASSUME NEW v \in Workers, worker'[v].pc = "saving"
             PROVE  material' = worker'[v].bundle
  BY DEF Artifacts!LaunchesHaveMaterial
<1>1. CASE worker'[v] = worker[v]
  <2>1. material = worker[v].bundle /\ worker[v].bundle \in Artifacts!Bundles
    BY <1>1, ArtifactsAreSomething DEF Artifacts!IInv, Artifacts!LaunchesHaveMaterial,
       Artifacts!TypeOK
  <2> QED BY <1>1, <2>1, ArtifactsStay, ArtifactsAreSomething
<1> QED BY <1>1, WorkerMoves DEF Artifacts!IInv

LEMMA FinalizationsStayFrozen ==
    ASSUME Artifacts!IInv, Artifacts!Next
    PROVE  Artifacts!FinalizationsAreFrozen'
<1> SUFFICES ASSUME NEW v \in Workers
             PROVE  /\ worker'[v].pc \in {"finalizing", "writing", "marking"}
                          => Artifacts!Frozen(worker[v].revision)'
                    /\ worker'[v].pc = "writing" => worker'[v].bundle = material'
                    /\ worker'[v].pc \in {"marking", "conflict"} => final' # None
  BY DEF Artifacts!FinalizationsAreFrozen
<1>1. /\ worker[v] \in Artifacts!Worker /\ Artifacts!TypeOK
      /\ worker[v].pc \in {"finalizing", "writing", "marking"}
            => Artifacts!Frozen(worker[v].revision)
      /\ worker[v].pc = "writing" => worker[v].bundle = material
      /\ worker[v].pc \in {"marking", "conflict"} => final # None
  BY DEF Artifacts!IInv, Artifacts!FinalizationsAreFrozen, Artifacts!TypeOK
<1>2. PICK r \in Nat : r = worker[v].revision
  BY <1>1, ArtifactsAreSomething
<1>3. worker[v].pc \in {"finalizing", "writing", "marking"} => Artifacts!Frozen(r)'
  <2>1. worker[v].pc \in {"finalizing", "writing", "marking"} => Artifacts!Frozen(r)
    BY <1>1, <1>2
  <2> QED BY <2>1, ArtifactsStay
<1>4. CASE worker'[v] = worker[v]
  <2>1. worker[v].pc \in {"finalizing", "writing", "marking"}
           => Artifacts!Frozen(worker[v].revision)'
    BY <1>2, <1>3, <1>4 DEF Artifacts!Frozen
  <2>2. worker[v].pc = "writing" => worker[v].bundle = material'
    BY <1>1, ArtifactsStay, ArtifactsAreSomething
  <2> QED BY <1>1, <1>4, <2>1, <2>2, ArtifactsStay
<1>5. ASSUME /\ worker'[v].pc \in {"writing", "marking"}
             /\ worker[v].pc \in {"finalizing", "writing"}
             /\ worker'[v].revision = worker[v].revision
      PROVE  Artifacts!Frozen(worker[v].revision)'
  BY <1>2, <1>3, <1>5 DEF Artifacts!Frozen
<1>6. CASE /\ worker'[v].pc = "finalizing"
           /\ study' # None /\ study'.status = "closed"
           /\ worker'[v].revision = study'.revision
  BY <1>6 DEF Artifacts!Frozen
<1> QED
  <2>1. worker'[v].pc \in {"finalizing", "writing", "marking"}
           => Artifacts!Frozen(worker[v].revision)'
    BY <1>1, <1>4, <1>5, <1>6, WorkerMoves
  <2>2. worker'[v].pc = "writing" => worker'[v].bundle = material'
    BY <1>1, <1>4, WorkerMoves
  <2>3. worker'[v].pc \in {"marking", "conflict"} => final' # None
    BY <1>1, <1>4, WorkerMoves
  <2> QED BY <2>1, <2>2, <2>3

\* Results appear for the frozen revision and the material, before the study is
\* marked finalized.
LEMMA ResultsStayFrozen ==
    ASSUME Artifacts!IInv, Artifacts!Next
    PROVE  Artifacts!ResultsAreFrozen'
<1>1. ASSUME final # None
      PROVE  Artifacts!Frozen(final.revision)' /\ final'.bundle = material'
  <2>1. /\ final \in Artifacts!Final /\ final.bundle = material
        /\ Artifacts!Frozen(final.revision)
    BY <1>1, ArtifactsThere DEF Artifacts!IInv, Artifacts!ResultsAreFrozen
  <2>2. PICK r \in Nat : r = final.revision
    BY <2>1, ArtifactsAreSomething
  <2>3. Artifacts!Frozen(r)
    BY <2>1, <2>2
  <2>4. Artifacts!Frozen(r)' /\ material # None
    BY <2>1, <2>3, ArtifactsStay, ArtifactsAreSomething
  <2>5. final'.revision = r /\ final'.bundle = material'
    BY <1>1, <2>1, <2>2, <2>4, ArtifactsStay
  <2> QED BY <2>4, <2>5 DEF Artifacts!Frozen
<1>2. ASSUME final = None, final' # None
      PROVE  Artifacts!Frozen(final.revision)' /\ final'.bundle = material'
  <2>1. PICK w \in Workers : Artifacts!RenameFinal(w)
    BY <1>2 DEF Artifacts!Next, Artifacts!WorkerStep, Artifacts!BeginPrepare,
       Artifacts!LookAtMaterial, Artifacts!RenameMaterial, Artifacts!SaveStudy,
       Artifacts!BeginFinalize, Artifacts!LookAtFinal, Artifacts!MarkFinalized,
       Artifacts!EndConflict, Artifacts!WorkerDies, Artifacts!Collect, Artifacts!Close,
       Artifacts!LoseFile, Artifacts!Upgrade, Artifacts!Rebuild
  <2>2. /\ Artifacts!Frozen(worker[w].revision) /\ worker[w].bundle = material
        /\ study' = study /\ material' = material
    BY <2>1 DEF Artifacts!RenameFinal, Artifacts!IInv, Artifacts!FinalizationsAreFrozen
  <2>3. final'.revision = worker[w].revision /\ final'.bundle = worker[w].bundle
    BY <1>2, <2>1 DEF Artifacts!RenameFinal
  <2> QED BY <2>2, <2>3 DEF Artifacts!Frozen
<1>3. ASSUME study' # None, study'.status = "finalized" PROVE final' # None
  <2>1. CASE study' = study
    BY <1>3, <2>1, ArtifactsStay DEF Artifacts!IInv, Artifacts!ResultsAreFrozen
  <2>2. CASE \E w \in Workers : Artifacts!MarkFinalized(w)
    BY <2>2 DEF Artifacts!MarkFinalized, Artifacts!IInv, Artifacts!FinalizationsAreFrozen
  <2>3. CASE \E w \in Workers : Artifacts!SaveStudy(w)
    BY <1>3, <2>1, <2>3 DEF Artifacts!SaveStudy, Artifacts!Collecting
  <2>4. CASE Artifacts!Close \/ Artifacts!Collect
    <3>1. study \in Artifacts!Study /\ study.status = "collecting"
      BY <2>4, ArtifactsThere DEF Artifacts!Close, Artifacts!Collect, Artifacts!IInv
    <3>2. study'.status \in {"collecting", "closed"}
      BY <2>4, <3>1 DEF Artifacts!Close, Artifacts!Collect, Artifacts!Study
    <3> QED BY <1>3, <3>2
  <2> QED BY <2>1, <2>2, <2>3, <2>4 DEF Artifacts!Next, Artifacts!WorkerStep,
          Artifacts!BeginPrepare, Artifacts!LookAtMaterial, Artifacts!RenameMaterial,
          Artifacts!BeginFinalize, Artifacts!LookAtFinal, Artifacts!RenameFinal,
          Artifacts!EndConflict, Artifacts!WorkerDies, Artifacts!LoseFile,
          Artifacts!Upgrade,
          Artifacts!Rebuild
<1> QED BY <1>1, <1>2, <1>3 DEF Artifacts!ResultsAreFrozen

\* Both the results and the finalization that meets them are of the frozen
\* revision, so that they differ by the analysis.
LEMMA ConflictsAreUpgrades ==
    ASSUME Artifacts!IInv, Artifacts!Next
    PROVE  Artifacts!ConflictMeansUpgrade'
<1> SUFFICES ASSUME NEW v \in Workers, worker'[v].pc = "conflict"
             PROVE  final'.analysis # worker'[v].analysis
  BY DEF Artifacts!ConflictMeansUpgrade
<1>1. CASE worker'[v] = worker[v]
  <2>1. final # None /\ final.analysis # worker[v].analysis
    BY <1>1 DEF Artifacts!IInv, Artifacts!FinalizationsAreFrozen,
       Artifacts!ConflictMeansUpgrade
  <2> QED BY <1>1, <2>1, ArtifactsStay
<1>2. CASE /\ worker[v].pc = "finalizing" /\ worker'[v].analysis = worker[v].analysis
           /\ final # None /\ final' = final /\ ~Artifacts!SameInput(v)
  <2>1. Artifacts!Frozen(final.revision) /\ Artifacts!Frozen(worker[v].revision)
    BY <1>2 DEF Artifacts!IInv, Artifacts!FinalizationsAreFrozen,
       Artifacts!ResultsAreFrozen
  <2>2. final.revision \in Nat /\ worker[v].revision \in Nat
    BY <1>2, ArtifactsThere, ArtifactsAreSomething DEF Artifacts!IInv, Artifacts!TypeOK
  <2>3. final.revision = worker[v].revision
    BY <2>1, <2>2 DEF Artifacts!Frozen
  <2> QED BY <1>2, <2>3 DEF Artifacts!SameInput
<1> QED BY <1>1, <1>2, WorkerMoves DEF Artifacts!IInv

LEMMA ArtifactsStart ==
    ASSUME Artifacts!Init PROVE Artifacts!IInv
<1>1. /\ shared \in Artifacts!Bundles /\ material = None /\ final = None /\ study = None
      /\ worker = [w \in Workers |-> [pc |-> "idle", bundle |-> shared, revision |-> 0,
                                      analysis |-> 0]]
      /\ analysis = 0 /\ rebuilds = 0 /\ losses = 0
  BY DEF Artifacts!Init
<1>2. Artifacts!TypeOK
  BY <1>1, ArtifactBounds DEF Artifacts!TypeOK, Artifacts!Worker
<1>3. \A w \in Workers : worker[w].pc = "idle"
  BY <1>1
<1> QED BY <1>1, <1>2, <1>3 DEF Artifacts!IInv, Artifacts!StudyHasItsMaterial,
        Artifacts!LaunchesHaveMaterial, Artifacts!FinalizationsAreFrozen,
        Artifacts!ResultsAreFrozen, Artifacts!ConflictMeansUpgrade

LEMMA ArtifactsStep ==
    ASSUME Artifacts!IInv, [Artifacts!Next]_(Artifacts!vars) PROVE Artifacts!IInv'
<1>1. CASE Artifacts!Next
  <2>1. Artifacts!TypeOK'
    BY <1>1, ArtifactTypes DEF Artifacts!IInv
  <2> QED BY <1>1, <2>1, StudyKeepsItsMaterial, LaunchesKeepMaterial,
             FinalizationsStayFrozen,
          ResultsStayFrozen, ConflictsAreUpgrades DEF Artifacts!IInv
<1>2. CASE UNCHANGED Artifacts!vars
  BY <1>2 DEF Artifacts!vars, Artifacts!IInv, Artifacts!TypeOK,
     Artifacts!StudyHasItsMaterial,
     Artifacts!LaunchesHaveMaterial, Artifacts!FinalizationsAreFrozen, Artifacts!Frozen,
     Artifacts!ResultsAreFrozen, Artifacts!ConflictMeansUpgrade
<1> QED BY <1>1, <1>2

-----------------------------------------------------------------------------
(* The plugin editor (PluginEditor) *)

LEMMA EditorFacts ==
    /\ Broken \subseteq Contents /\ Missing \notin Contents /\ Irregular \notin Contents
    /\ Missing # Irregular /\ Nobody \notin Editors /\ MaxManual \in Nat /\ MaxFaults \in Nat
  BY StoresAssumption DEF Editor!EditorConstants

\* A client at work.
Working(e) == /\ editor[e] \in Editor!Editor /\ editor[e].plugin \in Plugins
              /\ editor[e].revision \in Contents /\ editor[e].content \in Contents

\* A client that has saved goes on with the revision it saved.
LEMMA ReleaseChanges ==
    ASSUME NEW r \in Editor!Editor, NEW s,
           s = [r EXCEPT !.pc = "open", !.revision = r.content]
    PROVE  /\ s \in Editor!Editor /\ s.pc = "open" /\ s.plugin = r.plugin
           /\ s.revision = r.content /\ s.content = r.content
<1>1. PICK c \in Contents \cup {Missing} : c = r.content
  BY DEF Editor!Editor
<1>2. s = [r EXCEPT !.pc = "open", !.revision = c]
  BY <1>1
<1> QED BY <1>1, <1>2 DEF Editor!Editor, Editor!Steps

\* A client that goes to another step keeps the rest.
LEMMA GotoChanges ==
    ASSUME Editor!TypeOK, NEW e \in Editors, NEW step \in Editor!Steps, Editor!Goto(e, step)
    PROVE  /\ editor' \in [Editors -> Editor!Editor]
           /\ \A v \in Editors : v # e => editor'[v] = editor[v]
           /\ editor'[e].pc = step /\ editor'[e].plugin = editor[e].plugin
           /\ editor'[e].revision = editor[e].revision /\ editor'[e].content = editor[e].content
  BY DEF Editor!TypeOK, Editor!Goto, Editor!Editor

\* What the steps of the clients do to the client that takes one, and to the rest.
LEMMA EditorMoves ==
    ASSUME Editor!IInv, NEW e \in Editors,
           \/ Editor!SaveStep(e) \/ Editor!SaveFails(e)
           \/ \E p \in Plugins : Editor!OpenSource(e, p)
           \/ \E content \in Contents : Editor!BeginSave(e, content)
    PROVE  /\ editor' \in [Editors -> Editor!Editor]
           /\ \A v \in Editors : v # e => editor'[v] = editor[v]
           /\ editor'[e].pc # "closed" => Working(e)'
           /\ addition' = addition /\ manual' = manual
           /\ \/ source' = source
              \/ /\ editor[e].pc = "rechecked" /\ editor'[e].pc = "replaced"
                 /\ source' = [source EXCEPT ![editor[e].plugin] = editor[e].content]
           /\ \/ tampered' = tampered
              \/ editor[e].pc = "staged" /\ tampered' = tampered \ {e}
           /\ faults' \in 0 .. MaxFaults
           /\ editor'[e].pc = "rechecked" =>
                 source[editor'[e].plugin] = editor'[e].revision /\ source' = source
           /\ \/ lock' = lock /\ (lock = e \/ editor'[e].pc \in {"closed", "open", "waiting"})
              \/ lock = Nobody /\ lock' = e
              \/ lock = e /\ lock' = Nobody /\ editor'[e].pc \in {"closed", "open"}
<1>1. /\ Editor!TypeOK /\ editor[e] \in Editor!Editor
      /\ editor[e].pc # "closed" => Working(e)
      /\ editor[e].pc \in {"locked", "comparing", "staged", "rechecked", "replaced", "refused"}
            => lock = e
  BY DEF Editor!IInv, Editor!TypeOK, Editor!WorkIsNamed, Editor!LockIsExclusive, Working
<1>2. CASE Editor!TakeLock(e)
  <2>1. Editor!Goto(e, "locked") /\ editor[e].pc = "waiting"
    BY <1>2 DEF Editor!TakeLock
  <2> QED BY <1>1, <1>2, <2>1, GotoChanges DEF Editor!TakeLock, Editor!Steps, Working,
          Editor!TypeOK
<1>3. CASE Editor!Compare(e)
  <2>1. PICK step \in {"comparing", "refused"} : Editor!Goto(e, step)
    BY <1>3 DEF Editor!Compare
  <2> QED BY <1>1, <1>3, <2>1, GotoChanges DEF Editor!Compare, Editor!Steps, Working,
          Editor!TypeOK
<1>4. CASE Editor!Stage(e)
  <2>1. Editor!Goto(e, "staged")
    BY <1>4 DEF Editor!Stage
  <2> QED BY <1>1, <1>4, <2>1, GotoChanges DEF Editor!Stage, Editor!Steps, Working,
          Editor!TypeOK
<1>5. CASE Editor!Recheck(e)
  <2>1. PICK step \in {"rechecked", "refused"} :
           /\ Editor!Goto(e, step)
           /\ step = "rechecked" => source[editor[e].plugin] = editor[e].revision
    BY <1>5 DEF Editor!Recheck
  <2> QED BY <1>1, <1>5, <2>1, GotoChanges DEF Editor!Recheck, Editor!Steps, Working,
          Editor!TypeOK
<1>6. CASE Editor!Replace(e)
  <2>1. Editor!Goto(e, "replaced")
    BY <1>6 DEF Editor!Replace
  <2> QED BY <1>1, <1>6, <2>1, GotoChanges DEF Editor!Replace, Editor!Steps, Working,
          Editor!TypeOK
<1>7. CASE Editor!Release(e)
  <2> DEFINE s == [editor[e] EXCEPT !.pc = "open", !.revision = editor[e].content]
  <2>1. /\ s \in Editor!Editor /\ s.pc = "open" /\ s.plugin = editor[e].plugin
        /\ s.revision = editor[e].content /\ s.content = editor[e].content
    BY <1>1, ReleaseChanges
  <2>2. Editor!Closed \in Editor!Editor /\ Editor!Closed.pc = "closed"
    BY DEF Editor!Closed, Editor!Editor, Editor!Steps
  <2>3. /\ lock = e /\ Working(e) /\ lock' = Nobody /\ source' = source /\ tampered' = tampered
        /\ addition' = addition /\ manual' = manual /\ faults' = faults
    BY <1>1, <1>7 DEF Editor!Release
  <2>4. \/ editor' = [editor EXCEPT ![e] = s]
        \/ editor' = [editor EXCEPT ![e] = Editor!Closed]
    BY <1>7 DEF Editor!Release, Editor!TypeOK
  <2> HIDE DEF s
  <2>5. /\ editor' \in [Editors -> Editor!Editor]
        /\ \A v \in Editors : v # e => editor'[v] = editor[v]
        /\ editor'[e] \in {s, Editor!Closed}
    BY <1>1, <2>1, <2>2, <2>4 DEF Editor!TypeOK
  <2>6. editor'[e].pc # "closed" => Working(e)'
    BY <2>1, <2>2, <2>3, <2>5 DEF Working
  <2> QED BY <1>1, <2>1, <2>2, <2>3, <2>5, <2>6 DEF Editor!TypeOK
<1>8. CASE Editor!SaveFails(e)
  <2>1. Editor!Closed \in Editor!Editor /\ Editor!Closed.pc = "closed"
    BY DEF Editor!Closed, Editor!Editor, Editor!Steps
  <2> QED BY <1>1, <1>8, <2>1, EditorFacts DEF Editor!SaveFails, Editor!Fault,
             Editor!TypeOK
<1>9. CASE \E p \in Plugins : Editor!OpenSource(e, p)
  <2>1. PICK p \in Plugins : Editor!OpenSource(e, p)
    BY <1>9
  <2>2. PICK c \in Contents : c = source[p]
    BY <2>1 DEF Editor!OpenSource, Editor!Readable
  <2> DEFINE s == [pc |-> "open", plugin |-> p, revision |-> c, content |-> c]
  <2>3. /\ s \in Editor!Editor /\ s.pc = "open" /\ s.plugin = p
        /\ s.revision = c /\ s.content = c
    BY <2>2 DEF Editor!Editor, Editor!Steps
  <2>4. /\ editor' = [editor EXCEPT ![e] = s]
        /\ UNCHANGED <<source, lock, addition, tampered, manual, faults>>
    BY <2>1, <2>2 DEF Editor!OpenSource
  <2> HIDE DEF s
  <2> QED BY <1>1, <2>2, <2>3, <2>4 DEF Editor!TypeOK, Working
<1>10. CASE \E content \in Contents : Editor!BeginSave(e, content)
  <2>1. PICK c \in Contents : Editor!BeginSave(e, c)
    BY <1>10
  <2> DEFINE s == [editor[e] EXCEPT !.pc = "waiting", !.content = c]
  <2>2. /\ s \in Editor!Editor /\ s.pc = "waiting" /\ s.plugin = editor[e].plugin
        /\ s.revision = editor[e].revision /\ s.content = c
    BY <1>1 DEF Editor!Editor, Editor!Steps
  <2>3. /\ editor' = [editor EXCEPT ![e] = s] /\ editor[e].pc = "open"
        /\ UNCHANGED <<source, lock, addition, tampered, manual, faults>>
    BY <2>1 DEF Editor!BeginSave
  <2> HIDE DEF s
  <2> QED BY <1>1, <2>2, <2>3 DEF Editor!TypeOK, Working
<1> QED BY <1>2, <1>3, <1>4, <1>5, <1>6, <1>7, <1>8, <1>9, <1>10 DEF Editor!SaveStep

\* The steps of one client.
ClientStep(e) ==
    \/ Editor!SaveStep(e) \/ Editor!SaveFails(e)
    \/ \E p \in Plugins : Editor!OpenSource(e, p)
    \/ \E content \in Contents : Editor!BeginSave(e, content)

\* A client's own step keeps the invariant: only the holder of the lock replaces
\* a source, and no other client has rechecked.
LEMMA ClientsKeepInvariant ==
    ASSUME Editor!IInv, NEW e \in Editors, ClientStep(e)
    PROVE  Editor!IInv'
<1> DEFINE Past(v) == editor[v].pc \in
                         {"locked", "comparing", "staged", "rechecked", "replaced", "refused"}
<1>1. /\ editor' \in [Editors -> Editor!Editor]
      /\ \A v \in Editors : v # e => editor'[v] = editor[v]
      /\ editor'[e].pc # "closed" => Working(e)'
      /\ addition' = addition /\ manual' = manual /\ faults' \in 0 .. MaxFaults
      /\ \/ source' = source
         \/ /\ editor[e].pc = "rechecked" /\ editor'[e].pc = "replaced"
            /\ source' = [source EXCEPT ![editor[e].plugin] = editor[e].content]
      /\ \/ tampered' = tampered
         \/ editor[e].pc = "staged" /\ tampered' = tampered \ {e}
      /\ editor'[e].pc = "rechecked" =>
            source[editor'[e].plugin] = editor'[e].revision /\ source' = source
      /\ \/ lock' = lock /\ (lock = e \/ editor'[e].pc \in {"closed", "open", "waiting"})
         \/ lock = Nobody /\ lock' = e
         \/ lock = e /\ lock' = Nobody /\ editor'[e].pc \in {"closed", "open"}
  BY EditorMoves DEF ClientStep
<1>2. /\ source \in [Plugins -> Contents \cup {Missing, Irregular}]
      /\ lock \in Editors \cup {Nobody} /\ tampered \subseteq Editors
      /\ addition \in [PluginUploads -> Editor!Upload] /\ manual \in 0 .. MaxManual
      /\ editor[e].pc # "closed" => Working(e)
      /\ \A v \in Editors : Past(v) => lock = v
  BY DEF Editor!IInv, Editor!TypeOK, Editor!WorkIsNamed, Editor!LockIsExclusive, Working
<1>3. Editor!TypeOK'
  BY <1>1, <1>2 DEF Editor!TypeOK, Working
<1>4. Editor!WorkIsNamed'
  BY <1>1 DEF Editor!IInv, Editor!WorkIsNamed, Working
<1>5. Editor!LockIsExclusive'
  <2> SUFFICES ASSUME NEW v \in Editors, Past(v)' PROVE lock' = v
    BY DEF Editor!LockIsExclusive
  <2>1. CASE v = e
    BY <1>1, <2>1
  <2>2. CASE v # e
    <3>1. lock = v /\ v # Nobody
      BY <1>1, <1>2, <2>2, EditorFacts
    <3> QED BY <1>1, <2>2, <3>1
  <2> QED BY <2>1, <2>2
<1>6. Editor!RecheckHolds'
  <2> SUFFICES ASSUME NEW v \in Editors, editor'[v].pc = "rechecked"
               PROVE  source'[editor'[v].plugin] = editor'[v].revision \/ v \in tampered'
    BY DEF Editor!RecheckHolds
  <2>1. CASE v = e
    BY <1>1, <2>1
  <2>2. CASE v # e
    <3>1. /\ lock = v /\ editor'[v] = editor[v]
          /\ source[editor[v].plugin] = editor[v].revision \/ v \in tampered
      BY <1>1, <1>2, <2>2 DEF Editor!IInv, Editor!RecheckHolds
    <3>2. source' = source
      BY <1>1, <1>2, <2>2, <3>1
    <3> QED BY <1>1, <2>2, <3>1, <3>2
  <2> QED BY <2>1, <2>2
<1> QED BY <1>3, <1>4, <1>5, <1>6 DEF Editor!IInv

\* An upload that links its file takes a name that is free, which no save that
\* has rechecked is about to replace.
LEMMA PluginUploadsKeepInvariant ==
    ASSUME Editor!IInv, NEW u \in PluginUploads,
           \/ Editor!Link(u) \/ Editor!UploadFails(u)
           \/ \E p \in Plugins, content \in Contents : Editor!BeginUpload(u, p, content)
    PROVE  Editor!IInv' /\ editor' = editor /\ manual' = manual
           /\ \A p \in Plugins : source[p] # Missing => source'[p] = source[p]
<1>1. /\ Editor!TypeOK
      /\ addition[u].pc = "staged" =>
            addition[u].plugin \in Plugins /\ addition[u].content \in Contents
  BY DEF Editor!IInv, Editor!WorkIsNamed
<1>2. /\ addition' \in [PluginUploads -> Editor!Upload]
      /\ \A v \in PluginUploads : v # u => addition'[v] = addition[v]
      /\ addition'[u].pc = "staged" =>
            addition'[u].plugin \in Plugins /\ addition'[u].content \in Contents
      /\ UNCHANGED <<lock, editor, tampered, manual>> /\ faults' \in 0 .. MaxFaults
      /\ \/ source' = source
         \/ /\ addition[u].pc = "staged" /\ source[addition[u].plugin] = Missing
            /\ source' = [source EXCEPT ![addition[u].plugin] = addition[u].content]
  <2>1. CASE Editor!Link(u)
    BY <2>1 DEF Editor!IInv, Editor!TypeOK, Editor!Link, Editor!NoUpload, Editor!Upload
  <2>2. CASE Editor!UploadFails(u)
    BY <2>2, EditorFacts DEF Editor!IInv, Editor!TypeOK, Editor!UploadFails,
       Editor!NoUpload,
       Editor!Upload, Editor!Fault
  <2>3. CASE \E p \in Plugins, content \in Contents : Editor!BeginUpload(u, p, content)
    BY <2>3 DEF Editor!IInv, Editor!TypeOK, Editor!BeginUpload, Editor!Upload
  <2> QED BY <2>1, <2>2, <2>3
<1>3. source' \in [Plugins -> Contents \cup {Missing, Irregular}]
  BY <1>1, <1>2 DEF Editor!TypeOK
<1>4. \A p \in Plugins : source[p] # Missing => source'[p] = source[p]
  BY <1>1, <1>2 DEF Editor!TypeOK
<1>5. Editor!TypeOK'
  BY <1>1, <1>2, <1>3 DEF Editor!TypeOK
<1>6. Editor!WorkIsNamed'
  BY <1>2 DEF Editor!IInv, Editor!WorkIsNamed
<1>7. Editor!RecheckHolds'
  <2> SUFFICES ASSUME NEW v \in Editors, editor[v].pc = "rechecked", v \notin tampered
               PROVE  source'[editor[v].plugin] = editor[v].revision
    BY <1>2 DEF Editor!RecheckHolds
  <2>1. /\ source[editor[v].plugin] = editor[v].revision
        /\ editor[v].plugin \in Plugins /\ editor[v].revision \in Contents
    BY DEF Editor!IInv, Editor!RecheckHolds, Editor!WorkIsNamed
  <2> QED BY <1>4, <2>1, EditorFacts
<1> QED BY <1>2, <1>4, <1>5, <1>6, <1>7 DEF Editor!IInv, Editor!LockIsExclusive

LEMMA TamperingKeepsInvariant ==
    ASSUME Editor!IInv, NEW p \in Plugins, NEW new \in Contents \cup {Missing, Irregular},
           Editor!Tamper(p, new)
    PROVE  Editor!IInv' /\ manual' # manual
<1>1. /\ UNCHANGED <<lock, editor, addition, faults>> /\ manual' = manual + 1
      /\ manual < MaxManual /\ source' = [source EXCEPT ![p] = new]
      /\ tampered' = tampered \cup {e \in Editors : editor[e].pc = "rechecked"
                                                  /\ editor[e].plugin = p}
  BY DEF Editor!Tamper
<1>2. Editor!TypeOK' /\ manual' # manual
  BY <1>1, EditorFacts DEF Editor!IInv, Editor!TypeOK
<1>3. Editor!RecheckHolds'
  BY <1>1 DEF Editor!IInv, Editor!TypeOK, Editor!RecheckHolds, Editor!WorkIsNamed
<1> QED BY <1>1, <1>2, <1>3 DEF Editor!IInv, Editor!LockIsExclusive, Editor!WorkIsNamed

LEMMA EditorStart ==
    ASSUME Editor!Init PROVE Editor!IInv
<1>1. Editor!TypeOK
  BY EditorFacts DEF Editor!Init, Editor!TypeOK, Editor!Closed, Editor!Editor,
     Editor!Steps,
     Editor!NoUpload, Editor!Upload
<1>2. /\ \A e \in Editors : editor[e].pc = "closed"
      /\ \A u \in PluginUploads : addition[u].pc = "idle"
  BY DEF Editor!Init, Editor!Closed, Editor!NoUpload
<1> QED BY <1>1, <1>2 DEF Editor!IInv, Editor!WorkIsNamed, Editor!LockIsExclusive,
        Editor!RecheckHolds

LEMMA EditorNext ==
    ASSUME Editor!Next
    PROVE  \/ \E e \in Editors : ClientStep(e)
           \/ \E u \in PluginUploads :
                 \/ Editor!Link(u) \/ Editor!UploadFails(u)
                 \/ \E p \in Plugins, content \in Contents : Editor!BeginUpload(u, p, content)
           \/ \E p \in Plugins, new \in Contents \cup {Missing, Irregular} : Editor!Tamper(p, new)
  BY DEF Editor!Next, ClientStep

LEMMA EditorStep ==
    ASSUME Editor!IInv, [Editor!Next]_(Editor!vars) PROVE Editor!IInv'
<1>1. CASE Editor!Next
  BY <1>1, EditorNext, ClientsKeepInvariant, PluginUploadsKeepInvariant,
     TamperingKeepsInvariant
<1>2. CASE UNCHANGED Editor!vars
  BY <1>2 DEF Editor!vars, Editor!IInv, Editor!TypeOK, Editor!WorkIsNamed,
     Editor!LockIsExclusive, Editor!RecheckHolds
<1> QED BY <1>1, <1>2

\* What a save replaces is what it has rechecked.
LEMMA SavesReplaceTheirRevision ==
    ASSUME Editor!IInv, Editor!Next, NEW p \in Plugins,
           source[p] # Missing, source'[p] # source[p], manual' = manual
    PROVE  \E e \in Editors :
              /\ editor[e].pc = "rechecked" /\ editor'[e].pc = "replaced"
              /\ editor[e].plugin = p
              /\ source[p] = editor[e].revision \/ e \in tampered
<1>1. PICK e \in Editors : ClientStep(e)
  BY EditorNext, PluginUploadsKeepInvariant, TamperingKeepsInvariant
<1>2. /\ editor[e].pc = "rechecked" /\ editor'[e].pc = "replaced"
      /\ source' = [source EXCEPT ![editor[e].plugin] = editor[e].content]
  BY <1>1, EditorMoves DEF ClientStep
<1>3. editor[e].plugin = p
  BY <1>2 DEF Editor!IInv, Editor!TypeOK
<1> QED BY <1>2, <1>3 DEF Editor!IInv, Editor!RecheckHolds

-----------------------------------------------------------------------------
(* The tracks (TrackLibrary) *)

LEMMA TrackFacts ==
    /\ MaxFaults \in Nat
    /\ \A b \in Batches : /\ b \in Seq(Tracks!Item) /\ Len(b) \in Nat
                          /\ DOMAIN b = 1 .. Len(b) /\ 1 \in DOMAIN b
                          /\ \A i \in DOMAIN b : b[i] \in Tracks!Item
<1>1. MaxFaults \in Nat /\ Batches \subseteq Seq(Tracks!Item) \ {<<>>}
  BY StoresAssumption DEF Tracks!LibraryConstants
<1>2. ASSUME NEW b \in Batches
      PROVE  /\ b \in Seq(Tracks!Item) /\ Len(b) \in Nat /\ DOMAIN b = 1 .. Len(b)
             /\ \A i \in DOMAIN b : b[i] \in Tracks!Item
             /\ 1 \in DOMAIN b
  <2>1. b \in Seq(Tracks!Item) /\ b # <<>>
    BY <1>1
  <2>2. Len(b) \in Nat /\ Len(b) # 0 /\ DOMAIN b = 1 .. Len(b)
    BY <2>1
  <2>3. \A i \in DOMAIN b : b[i] \in Tracks!Item
    BY <2>1
  <2> QED BY <2>1, <2>2, <2>3
<1> QED BY <1>1, <1>2

\* An upload at work has a file before it.
LEMMA CurrentIsAnItem ==
    ASSUME Tracks!TypeOK, NEW u \in TrackUploads, upload[u].pc \notin {"idle", "answered"}
    PROVE  /\ upload[u].batch \in Batches /\ Tracks!Current(u) \in Tracks!Item
           /\ Tracks!Current(u).name \in Names
<1>1. /\ upload[u].batch \in Batches \cup {<<>>}
      /\ upload[u].at \in DOMAIN upload[u].batch
  BY DEF Tracks!TypeOK, Tracks!Upload
<1>2. upload[u].batch \in Batches
  BY <1>1
<1>3. Tracks!Current(u) \in Tracks!Item
  BY <1>1, <1>2, TrackFacts DEF Tracks!Current
<1> QED BY <1>2, <1>3 DEF Tracks!Item

\* The records a request may become.
LEMMA UploadRecords ==
    ASSUME NEW r \in Tracks!Upload
    PROVE  /\ Tracks!NoUpload("answered") \in Tracks!Upload
           /\ Tracks!NoUpload("answered").pc = "answered"
           /\ [r EXCEPT !.surprised = TRUE] \in Tracks!Upload
           /\ \A step \in {"publishing", "reading"} : [r EXCEPT !.pc = step] \in Tracks!Upload
           /\ [r EXCEPT !.pc = "receiving", !.surprised = FALSE] \in Tracks!Upload
<1>1. r \in [pc : {"idle", "opening", "receiving", "publishing", "reading", "answered"},
             batch : Batches \cup {<<>>}, overwrite : BOOLEAN, at : Nat, surprised : BOOLEAN]
  BY DEF Tracks!Upload
<1>2. /\ Tracks!NoUpload("answered") \in Tracks!Upload
      /\ Tracks!NoUpload("answered").pc = "answered"
  BY DEF Tracks!NoUpload, Tracks!Upload
<1>3. [r EXCEPT !.surprised = TRUE] \in Tracks!Upload
  BY <1>1 DEF Tracks!Upload
<1>4. \A step \in {"publishing", "reading"} : [r EXCEPT !.pc = step] \in Tracks!Upload
  BY <1>1 DEF Tracks!Upload
<1>5. [r EXCEPT !.pc = "receiving", !.surprised = FALSE] \in Tracks!Upload
  BY <1>1 DEF Tracks!Upload
<1> QED BY <1>2, <1>3, <1>4, <1>5

\* A request turned to another file of its batch.
LEMMA UploadAt ==
    ASSUME NEW r \in Tracks!Upload, NEW n \in Nat
    PROVE  /\ [r EXCEPT !.pc = "opening", !.at = n] \in Tracks!Upload
           /\ [r EXCEPT !.pc = "opening", !.at = n].pc = "opening"
           /\ [r EXCEPT !.pc = "opening", !.at = n].at = n
           /\ [r EXCEPT !.pc = "opening", !.at = n].batch = r.batch
  BY DEF Tracks!Upload

\* What an upload's own step does to it, to the others and to the files.
UploadMove(u) ==
    /\ upload' \in [TrackUploads -> Tracks!Upload]
    /\ \A v \in TrackUploads : v # u =>
          /\ upload'[v].pc = upload[v].pc /\ upload'[v].batch = upload[v].batch
          /\ upload'[v].at = upload[v].at /\ upload'[v].overwrite = upload[v].overwrite
          /\ upload[v].surprised => upload'[v].surprised
    /\ upload'[u].pc # "idle"
    /\ upload'[u].pc # "answered" => upload'[u].at \in DOMAIN upload'[u].batch
    /\ UNCHANGED <<deletion, status, tracks, raced>> /\ faults' \in 0 .. MaxFaults
    /\ \/ file' = file
       \/ /\ upload[u].pc = "publishing" /\ upload'[u].pc = "reading"
          /\ file' = [file EXCEPT ![Tracks!Current(u).name] =
                         IF Tracks!Current(u).valid THEN "track" ELSE "broken"]
          /\ \A v \in TrackUploads :
                /\ v # u /\ upload[v].pc \in {"receiving", "publishing"}
                /\ Tracks!Current(v).name = Tracks!Current(u).name
                => upload'[v].surprised
    /\ upload'[u].pc = "receiving" =>
          /\ file' = file
          /\ upload'[u].batch = upload[u].batch /\ upload'[u].at = upload[u].at
          /\ upload'[u].overwrite \/ ~Tracks!Exists(Tracks!Current(u).name)
    /\ upload'[u].pc = "publishing" =>
          /\ file' = file /\ upload[u].pc = "receiving" /\ Tracks!Current(u).valid
          /\ upload'[u].batch = upload[u].batch /\ upload'[u].at = upload[u].at
          /\ upload'[u].overwrite = upload[u].overwrite
          /\ upload'[u].surprised = upload[u].surprised

\* A request that is set to a record.
LEMMA SetUploadChanges ==
    ASSUME Tracks!TypeOK, NEW u \in TrackUploads, NEW new \in Tracks!Upload,
           Tracks!SetUpload(u, new)
    PROVE  /\ upload' \in [TrackUploads -> Tracks!Upload] /\ upload'[u] = new
           /\ \A v \in TrackUploads : v # u => upload'[v] = upload[v]
  BY DEF Tracks!SetUpload, Tracks!TypeOK

LEMMA UploadMoves ==
    ASSUME Tracks!TypeOK, Tracks!RequestsStartFirst, NEW u \in TrackUploads,
           Tracks!UploadStep(u)
    PROVE  UploadMove(u)
<1> DEFINE r == upload[u]
<1>1. /\ r \in Tracks!Upload
      /\ file \in [Names -> {"none", "track", "broken"}] /\ faults \in 0 .. MaxFaults
      /\ r.pc \notin {"idle", "answered"} => r.at \in DOMAIN r.batch
      /\ r.pc = "idle" => r.at = 1
  BY DEF Tracks!TypeOK, Tracks!RequestsStartFirst
<1>2. ASSUME Tracks!AnswerUpload(u), file' = file, faults' \in 0 .. MaxFaults,
             UNCHANGED <<deletion, status, tracks, raced>>
      PROVE  UploadMove(u)
  <2>1. /\ upload' \in [TrackUploads -> Tracks!Upload] /\ upload'[u].pc = "answered"
        /\ \A v \in TrackUploads : v # u => upload'[v] = upload[v]
    BY <1>1, <1>2, UploadRecords, SetUploadChanges DEF Tracks!AnswerUpload
  <2> QED BY <1>2, <2>1 DEF UploadMove
<1>3. ASSUME NEW batch \in Batches, NEW overwrite \in BOOLEAN,
             Tracks!BeginUpload(u, batch, overwrite)
      PROVE  UploadMove(u)
  <2> DEFINE s == [r EXCEPT !.pc = "opening", !.batch = batch, !.overwrite = overwrite]
  <2>1. r.at = 1 /\ UNCHANGED <<file, deletion, status, tracks, raced, faults>>
    BY <1>1, <1>3 DEF Tracks!BeginUpload, Tracks!Documents
  <2>2. s \in Tracks!Upload /\ s.pc = "opening" /\ s.at = 1 /\ s.batch = batch
    <3> DEFINE t == [r EXCEPT !.pc = "opening", !.batch = batch]
    <3>1. t \in Tracks!Upload /\ t.pc = "opening" /\ t.at = 1 /\ t.batch = batch
      BY <1>1, <2>1 DEF Tracks!Upload
    <3>2. s = [t EXCEPT !.overwrite = overwrite]
      OBVIOUS
    <3> HIDE DEF s, t
    <3> QED BY <3>1, <3>2 DEF Tracks!Upload
  <2>3. CASE Tracks!AnswerUpload(u)
    BY <1>1, <1>2, <2>1, <2>3
  <2>4. CASE Tracks!SetUpload(u, s)
    <3> HIDE DEF s
    <3>1. /\ upload' \in [TrackUploads -> Tracks!Upload] /\ upload'[u] = s
          /\ \A v \in TrackUploads : v # u => upload'[v] = upload[v]
      BY <2>2, <2>4, SetUploadChanges
    <3>2. s.at \in DOMAIN s.batch
      BY <2>2, TrackFacts
    <3> QED BY <1>1, <2>1, <2>2, <3>1, <3>2 DEF UploadMove
  <2> QED BY <1>3, <2>3, <2>4 DEF Tracks!BeginUpload
<1>4. CASE Tracks!OpenUpload(u)
  <2> DEFINE s == [r EXCEPT !.pc = "receiving", !.surprised = FALSE]
  <2>1. r.pc = "opening" /\ UNCHANGED <<file, deletion, status, tracks, raced, faults>>
    BY <1>4 DEF Tracks!OpenUpload, Tracks!Documents
  <2>2. /\ s \in Tracks!Upload /\ s.pc = "receiving" /\ s.at = r.at
        /\ s.batch = r.batch /\ s.overwrite = r.overwrite
    BY <1>1, UploadRecords DEF Tracks!Upload
  <2>3. CASE Tracks!AnswerUpload(u)
    BY <1>1, <1>2, <2>1, <2>3
  <2>4. CASE /\ Tracks!SetUpload(u, s)
             /\ r.overwrite \/ ~Tracks!Exists(Tracks!Current(u).name)
    <3> HIDE DEF s
    <3>1. /\ upload' \in [TrackUploads -> Tracks!Upload] /\ upload'[u] = s
          /\ \A v \in TrackUploads : v # u => upload'[v] = upload[v]
      BY <2>2, <2>4, SetUploadChanges
    <3> QED BY <1>1, <2>1, <2>2, <2>4, <3>1 DEF UploadMove
  <2> QED BY <1>4, <2>3, <2>4 DEF Tracks!OpenUpload
<1>5. CASE Tracks!Receive(u)
  <2> DEFINE s == [r EXCEPT !.pc = "publishing"]
  <2>1. r.pc = "receiving" /\ UNCHANGED <<file, deletion, status, tracks, raced, faults>>
    BY <1>5 DEF Tracks!Receive, Tracks!Documents
  <2>2. /\ s \in Tracks!Upload /\ s.pc = "publishing" /\ s.at = r.at
        /\ s.batch = r.batch /\ s.overwrite = r.overwrite /\ s.surprised = r.surprised
    BY <1>1, UploadRecords DEF Tracks!Upload
  <2>3. CASE Tracks!AnswerUpload(u)
    BY <1>1, <1>2, <2>1, <2>3
  <2>4. CASE Tracks!SetUpload(u, s) /\ Tracks!Current(u).valid
    <3> HIDE DEF s
    <3>1. /\ upload' \in [TrackUploads -> Tracks!Upload] /\ upload'[u] = s
          /\ \A v \in TrackUploads : v # u => upload'[v] = upload[v]
      BY <2>2, <2>4, SetUploadChanges
    <3> QED BY <1>1, <2>1, <2>2, <2>4, <3>1 DEF UploadMove
  <2> QED BY <1>5, <2>3, <2>4 DEF Tracks!Receive
<1>6. CASE Tracks!Publish(u)
  <2> DEFINE Touched(v) == /\ upload[v].pc \in {"receiving", "publishing"}
                           /\ Tracks!Current(v).name = Tracks!Current(u).name
             s == [r EXCEPT !.pc = "reading"]
             t(v) == [upload[v] EXCEPT !.surprised = TRUE]
  <2>1. /\ r.pc = "publishing" /\ UNCHANGED <<deletion, status, tracks, raced, faults>>
        /\ file' = [file EXCEPT ![Tracks!Current(u).name] =
                       IF Tracks!Current(u).valid THEN "track" ELSE "broken"]
    BY <1>6 DEF Tracks!Publish, Tracks!Documents
  <2>2. s \in Tracks!Upload /\ s.pc = "reading" /\ s.at = r.at /\ s.batch = r.batch
    BY <1>1, UploadRecords DEF Tracks!Upload
  <2>3. ASSUME NEW v \in TrackUploads
        PROVE  /\ t(v) \in Tracks!Upload /\ t(v).pc = upload[v].pc
               /\ t(v).batch = upload[v].batch /\ t(v).at = upload[v].at
               /\ t(v).overwrite = upload[v].overwrite /\ t(v).surprised
    <3>1. upload[v] \in Tracks!Upload
      BY DEF Tracks!TypeOK
    <3> QED BY <3>1, UploadRecords DEF Tracks!Upload
  <2>4. upload' = [v \in TrackUploads |-> IF v = u THEN s
                                          ELSE IF Touched(v) THEN t(v) ELSE upload[v]]
    BY <1>6 DEF Tracks!Publish
  <2> HIDE DEF s, t
  <2>5. upload' \in [TrackUploads -> Tracks!Upload]
    BY <2>2, <2>3, <2>4 DEF Tracks!TypeOK
  <2>6. upload'[u] = s
    BY <2>4
  <2>7. \A v \in TrackUploads : v # u => upload'[v] = IF Touched(v) THEN t(v) ELSE upload[v]
    BY <2>4
  <2>8. \A v \in TrackUploads : v # u =>
           /\ upload'[v].pc = upload[v].pc /\ upload'[v].batch = upload[v].batch
           /\ upload'[v].at = upload[v].at /\ upload'[v].overwrite = upload[v].overwrite
           /\ upload[v].surprised => upload'[v].surprised
           /\ Touched(v) => upload'[v].surprised
    BY <2>3, <2>7
  <2> QED BY <1>1, <2>1, <2>2, <2>5, <2>6, <2>8 DEF UploadMove
<1>7. CASE Tracks!ReadBack(u)
  <2> DEFINE s == [r EXCEPT !.pc = "opening", !.at = r.at + 1]
  <2>1. r.pc = "reading" /\ UNCHANGED <<file, deletion, status, tracks, raced, faults>>
    BY <1>7 DEF Tracks!ReadBack, Tracks!Documents
  <2>2. CASE Tracks!AnswerUpload(u)
    BY <1>1, <1>2, <2>1, <2>2
  <2>3. CASE Tracks!SetUpload(u, s) /\ r.at # Len(r.batch)
    <3>1. r.at \in 1 .. Len(r.batch) /\ Len(r.batch) \in Nat /\ DOMAIN r.batch = 1 .. Len(r.batch)
      BY <1>1, <2>1, CurrentIsAnItem, TrackFacts
    <3>2. r.at + 1 \in Nat /\ r.at + 1 \in DOMAIN r.batch
      BY <2>3, <3>1
    <3>3. PICK n \in Nat : n = r.at + 1
      BY <3>2
    <3>4. /\ [r EXCEPT !.pc = "opening", !.at = n] \in Tracks!Upload
          /\ [r EXCEPT !.pc = "opening", !.at = n].pc = "opening"
          /\ [r EXCEPT !.pc = "opening", !.at = n].at = n
          /\ [r EXCEPT !.pc = "opening", !.at = n].batch = r.batch
      BY <1>1, UploadAt
    <3>5. s \in Tracks!Upload /\ s.pc = "opening" /\ s.at = n /\ s.batch = r.batch
      BY <3>3, <3>4
    <3> HIDE DEF s
    <3>6. /\ upload' \in [TrackUploads -> Tracks!Upload] /\ upload'[u] = s
          /\ \A v \in TrackUploads : v # u => upload'[v] = upload[v]
      BY <2>3, <3>5, SetUploadChanges
    <3> QED BY <1>1, <2>1, <3>2, <3>3, <3>5, <3>6 DEF UploadMove
  <2> QED BY <1>7, <2>2, <2>3 DEF Tracks!ReadBack
<1>8. CASE Tracks!UploadFails(u)
  BY <1>1, <1>2, <1>8, TrackFacts DEF Tracks!UploadFails, Tracks!Fault, Tracks!Documents
<1> QED BY <1>3, <1>4, <1>5, <1>6, <1>7, <1>8 DEF Tracks!UploadStep

\* An upload's step keeps the invariant: it only adds tracks that were
\* validated, and makes the others with their name in flight surprised.
LEMMA UploadsKeepInvariant ==
    ASSUME Tracks!IInv, NEW u \in TrackUploads, Tracks!UploadStep(u)
    PROVE  Tracks!IInv'
<1>1. Tracks!TypeOK /\ Tracks!RequestsStartFirst /\ Tracks!PublishedFilesAreValid
  BY DEF Tracks!IInv
<1>2. UploadMove(u)
  BY <1>1, UploadMoves
<1>3. upload[u].pc = "publishing" =>
         Tracks!Current(u).valid /\ Tracks!Current(u).name \in Names
  BY <1>1, CurrentIsAnItem DEF Tracks!PublishedFilesAreValid
<1>4. \/ file' = file
      \/ /\ upload[u].pc = "publishing" /\ upload'[u].pc = "reading"
         /\ file' = [file EXCEPT ![Tracks!Current(u).name] = "track"]
         /\ \A v \in TrackUploads :
               /\ v # u /\ upload[v].pc \in {"receiving", "publishing"}
               /\ Tracks!Current(v).name = Tracks!Current(u).name
               => upload'[v].surprised
  BY <1>2, <1>3 DEF UploadMove
<1>5. /\ file' \in [Names -> {"none", "track", "broken"}]
      /\ \A n \in Names : file'[n] = file[n] \/ file'[n] = "track"
  BY <1>1, <1>3, <1>4 DEF Tracks!TypeOK
<1>6. Tracks!TypeOK'
  <2>1. ASSUME NEW v \in TrackUploads, upload'[v].pc \notin {"idle", "answered"}
        PROVE  upload'[v].at \in DOMAIN upload'[v].batch
    <3>1. CASE v = u
      BY <1>2, <2>1, <3>1 DEF UploadMove
    <3>2. CASE v # u
      <4>1. /\ upload'[v].pc = upload[v].pc /\ upload'[v].batch = upload[v].batch
            /\ upload'[v].at = upload[v].at
        BY <1>2, <3>2 DEF UploadMove
      <4> QED BY <1>1, <2>1, <4>1 DEF Tracks!TypeOK
    <3> QED BY <3>1, <3>2
  <2>2. /\ upload' \in [TrackUploads -> Tracks!Upload] /\ faults' \in 0 .. MaxFaults
        /\ UNCHANGED <<deletion, status, tracks, raced>>
    BY <1>2 DEF UploadMove
  <2>3. Tracks!Deletion' = Tracks!Deletion /\ Tracks!Upload' = Tracks!Upload
    BY DEF Tracks!Deletion, Tracks!Upload
  <2> QED BY <1>1, <1>5, <2>1, <2>2, <2>3 DEF Tracks!TypeOK
<1>7. Tracks!RequestsStartFirst'
  BY <1>1, <1>2 DEF UploadMove, Tracks!RequestsStartFirst
<1>8. Tracks!PublishedFilesAreValid'
  <2>1. \A n \in Names : file'[n] # "broken"
    BY <1>1, <1>5 DEF Tracks!PublishedFilesAreValid
  <2>2. ASSUME NEW v \in TrackUploads, upload'[v].pc = "publishing"
        PROVE  Tracks!Current(v)'.valid
    <3>1. /\ Tracks!Current(v).valid
          /\ upload'[v].batch = upload[v].batch /\ upload'[v].at = upload[v].at
      BY <1>1, <1>2, <2>2 DEF UploadMove, Tracks!PublishedFilesAreValid
    <3> QED BY <3>1 DEF Tracks!Current
  <2> QED BY <2>1, <2>2 DEF Tracks!PublishedFilesAreValid
<1>9. Tracks!DeletionsSpareRuns'
  BY <1>1, <1>2, <1>5 DEF UploadMove, Tracks!IInv, Tracks!DeletionsSpareRuns,
     Tracks!Active,
     Tracks!Safe, Tracks!Exists, Tracks!TypeOK
<1>10. Tracks!UploadsKnowTheirNames'
  <2> SUFFICES ASSUME NEW v \in TrackUploads, upload'[v].pc \in {"receiving", "publishing"}
               PROVE  \/ upload'[v].overwrite \/ upload'[v].surprised
                      \/ ~Tracks!Exists(Tracks!Current(v).name)'
    BY DEF Tracks!UploadsKnowTheirNames
  <2>1. upload'[v].batch = upload[v].batch /\ upload'[v].at = upload[v].at
    BY <1>2 DEF UploadMove
  <2>2. PICK n : n = Tracks!Current(v).name
    OBVIOUS
  <2>3. Tracks!Current(v)'.name = n
    BY <2>1, <2>2 DEF Tracks!Current
  <2>4. SUFFICES upload'[v].overwrite \/ upload'[v].surprised \/ file'[n] = "none"
    BY <2>3 DEF Tracks!Exists
  <2>5. CASE v = u
    <3>1. file' = file
      BY <1>2, <2>5 DEF UploadMove
    <3>2. CASE upload'[u].pc = "receiving"
      BY <1>2, <2>2, <2>5, <3>1, <3>2 DEF UploadMove, Tracks!Exists
    <3>3. CASE upload'[u].pc = "publishing"
      BY <1>2, <2>2, <2>5, <3>1, <3>3 DEF UploadMove, Tracks!Exists, Tracks!IInv,
         Tracks!UploadsKnowTheirNames
    <3> QED BY <2>5, <3>2, <3>3
  <2>6. CASE v # u
    <3>1. /\ upload'[v].overwrite = upload[v].overwrite /\ upload'[v].pc = upload[v].pc
          /\ upload[v].surprised => upload'[v].surprised
      BY <1>2, <2>6 DEF UploadMove
    <3>2. upload[v].overwrite \/ upload[v].surprised \/ file[n] = "none"
      BY <2>2, <3>1 DEF Tracks!IInv, Tracks!UploadsKnowTheirNames, Tracks!Exists
    <3>3. n \in Names
      BY <1>1, <2>2, <3>1, CurrentIsAnItem
    <3>4. \/ file'[n] = file[n]
          \/ upload'[v].surprised
      BY <1>1, <1>3, <1>4, <2>2, <2>6, <3>1, <3>3 DEF Tracks!TypeOK
    <3> QED BY <3>1, <3>2, <3>4
  <2> QED BY <2>5, <2>6
<1> QED BY <1>6, <1>7, <1>8, <1>9, <1>10 DEF Tracks!IInv

\* What a deletion's own step does to it and to the files.
DeletionMove(d) ==
    /\ deletion' \in [Deletions -> Tracks!Deletion]
    /\ \A v \in Deletions : v # d => deletion'[v] = deletion[v]
    /\ UNCHANGED <<upload, status, tracks, raced>> /\ faults' \in 0 .. MaxFaults
    /\ \/ file' = file
       \/ /\ deletion[d].pc = "deleting"
          /\ \E n \in deletion[d].left : file' = [file EXCEPT ![n] = "none"]
    /\ deletion'[d].pc = "deleting" => deletion'[d].left \subseteq deletion[d].left
    /\ deletion'[d].pc = "deleting" /\ deletion[d].pc # "deleting" =>
          \A r \in Runs : Tracks!Active(r) => tracks[r] \cap deletion[d].left = {}

LEMMA DeletionMoves ==
    ASSUME Tracks!TypeOK, NEW d \in Deletions, Tracks!DeletionStep(d)
    PROVE  DeletionMove(d)
<1>1. /\ deletion[d].pc \in {"idle", "checking", "deleting", "answered"}
      /\ deletion[d].left \subseteq Names /\ deletion[d] \in Tracks!Deletion
      /\ deletion \in [Deletions -> Tracks!Deletion] /\ faults \in 0 .. MaxFaults
  BY DEF Tracks!TypeOK, Tracks!Deletion
<1>2. /\ Tracks!NoDeletion("answered") \in Tracks!Deletion
      /\ Tracks!NoDeletion("answered").pc = "answered"
  BY DEF Tracks!NoDeletion, Tracks!Deletion
<1>3. CASE \E names \in (SUBSET Names) \ {{}} : Tracks!BeginDeletion(d, names)
  <2>1. PICK names \in (SUBSET Names) \ {{}} : Tracks!BeginDeletion(d, names)
    BY <1>3
  <2>2. PICK new \in Tracks!Deletion : new.pc # "deleting" /\ Tracks!SetDeletion(d, new)
    <3>1. [pc |-> "checking", left |-> names] \in Tracks!Deletion
      BY DEF Tracks!Deletion
    <3> QED BY <1>2, <2>1, <3>1 DEF Tracks!BeginDeletion, Tracks!AnswerDeletion
  <2> QED BY <1>1, <2>1, <2>2 DEF DeletionMove, Tracks!BeginDeletion, Tracks!SetDeletion,
          Tracks!Documents
<1>4. CASE Tracks!CheckRuns(d)
  <2> DEFINE s == [deletion[d] EXCEPT !.pc = "deleting"]
  <2>1. s \in Tracks!Deletion /\ s.pc = "deleting" /\ s.left = deletion[d].left
    BY <1>1 DEF Tracks!Deletion
  <2>2. UNCHANGED <<file, upload, status, tracks, raced, faults>>
    BY <1>4 DEF Tracks!CheckRuns, Tracks!Documents
  <2>3. CASE Tracks!AnswerDeletion(d)
    BY <1>1, <1>2, <2>2, <2>3 DEF DeletionMove, Tracks!AnswerDeletion, Tracks!SetDeletion
  <2>4. CASE /\ Tracks!SetDeletion(d, s)
             /\ \A r \in Runs : Tracks!Active(r) => tracks[r] \cap deletion[d].left = {}
    <3> HIDE DEF s
    <3> QED BY <1>1, <2>1, <2>2, <2>4 DEF DeletionMove, Tracks!SetDeletion
  <2> QED BY <1>4, <2>3, <2>4 DEF Tracks!CheckRuns, Tracks!BlockingStatuses, Tracks!Active
<1>5. CASE Tracks!Unlink(d)
  <2>1. PICK n \in deletion[d].left :
           /\ file' = [file EXCEPT ![n] = "none"]
           /\ \/ Tracks!SetDeletion(d, [deletion[d] EXCEPT !.left = @ \ {n}])
              \/ Tracks!AnswerDeletion(d)
    BY <1>5 DEF Tracks!Unlink
  <2> DEFINE s == [deletion[d] EXCEPT !.left = @ \ {n}]
  <2>2. s \in Tracks!Deletion /\ s.left \subseteq deletion[d].left
    BY <1>1 DEF Tracks!Deletion
  <2>3. deletion[d].pc = "deleting" /\ UNCHANGED <<upload, status, tracks, raced, faults>>
    BY <1>5 DEF Tracks!Unlink, Tracks!Documents
  <2>4. PICK new \in Tracks!Deletion :
           /\ Tracks!SetDeletion(d, new)
           /\ new.pc = "deleting" => new.left \subseteq deletion[d].left
    BY <1>2, <2>1, <2>2 DEF Tracks!AnswerDeletion
  <2> QED BY <1>1, <2>1, <2>3, <2>4 DEF DeletionMove, Tracks!SetDeletion
<1>6. CASE Tracks!DeletionDies(d)
  BY <1>1, <1>2, <1>6, TrackFacts DEF DeletionMove, Tracks!DeletionDies, Tracks!Fault,
     Tracks!AnswerDeletion, Tracks!SetDeletion, Tracks!Documents
<1> QED BY <1>3, <1>4, <1>5, <1>6 DEF Tracks!DeletionStep

\* A deletion's step keeps the invariant: it unlinks nothing that a safe run needs,
\* and starts to unlink only what no active run names.
LEMMA DeletionsKeepInvariant ==
    ASSUME Tracks!IInv, NEW d \in Deletions, Tracks!DeletionStep(d)
    PROVE  Tracks!IInv'
<1>1. Tracks!TypeOK /\ DeletionMove(d)
  BY DeletionMoves DEF Tracks!IInv
<1>2. /\ file \in [Names -> {"none", "track", "broken"}]
      /\ deletion[d].left \subseteq Names
  BY <1>1 DEF Tracks!TypeOK, Tracks!Deletion
<1>3. /\ file' \in [Names -> {"none", "track", "broken"}]
      /\ \A n \in Names : \/ file'[n] = file[n]
                          \/ /\ file'[n] = "none"
                             /\ deletion[d].pc = "deleting" /\ n \in deletion[d].left
  BY <1>1, <1>2 DEF DeletionMove
<1>4. Tracks!TypeOK'
  BY <1>1, <1>3 DEF DeletionMove, Tracks!TypeOK
<1>5. Tracks!PublishedFilesAreValid'
  BY <1>1, <1>3 DEF DeletionMove, Tracks!IInv, Tracks!PublishedFilesAreValid,
     Tracks!Current
<1>6. Tracks!DeletionsSpareRuns'
  <2> SUFFICES ASSUME NEW r \in Runs, Tracks!Active(r)', r \notin raced',
                      NEW n \in tracks'[r]
               PROVE  /\ file'[n] # "none"
                      /\ \A v \in Deletions :
                            deletion'[v].pc = "deleting" => n \notin deletion'[v].left
    BY DEF Tracks!DeletionsSpareRuns, Tracks!Safe, Tracks!Exists
  <2>1. UNCHANGED <<upload, status, tracks, raced>>
    BY <1>1 DEF DeletionMove
  <2>2. Tracks!Active(r) /\ r \notin raced /\ n \in tracks[r] /\ n \in Names
    BY <1>1, <2>1 DEF Tracks!Active, Tracks!TypeOK
  <2>3. /\ file[n] # "none"
        /\ \A v \in Deletions : deletion[v].pc = "deleting" => n \notin deletion[v].left
    BY <2>2 DEF Tracks!IInv, Tracks!DeletionsSpareRuns, Tracks!Safe, Tracks!Exists
  <2>4. file'[n] # "none"
    BY <1>3, <2>2, <2>3
  <2>5. ASSUME NEW v \in Deletions, deletion'[v].pc = "deleting" PROVE n \notin deletion'[v].left
    BY <1>1, <2>2, <2>3, <2>5 DEF DeletionMove
  <2> QED BY <2>4, <2>5
<1>7. Tracks!UploadsKnowTheirNames'
  <2> SUFFICES ASSUME NEW v \in TrackUploads, upload[v].pc \in {"receiving", "publishing"}
               PROVE  \/ upload[v].overwrite \/ upload[v].surprised
                      \/ file'[Tracks!Current(v).name] = "none"
    BY <1>1 DEF DeletionMove, Tracks!UploadsKnowTheirNames, Tracks!Exists, Tracks!Current
  <2>1. Tracks!Current(v).name \in Names
    BY <1>1, CurrentIsAnItem
  <2> QED BY <1>3, <2>1 DEF Tracks!IInv, Tracks!UploadsKnowTheirNames, Tracks!Exists
<1> QED BY <1>1, <1>4, <1>5, <1>6, <1>7 DEF DeletionMove, Tracks!IInv,
        Tracks!RequestsStartFirst

\* A run's step keeps the invariant: one that becomes active without its tracks
\* being safe is recorded, and no other change makes a run active.
LEMMA RunsKeepInvariant ==
    ASSUME Tracks!IInv, NEW r \in Runs, Tracks!RunStep(r)
    PROVE  Tracks!IInv'
<1>1. Tracks!TypeOK
  BY DEF Tracks!IInv
<1>2. /\ status' \in [Runs -> Tracks!Statuses \cup {"none", "preparing"}]
      /\ tracks' \in [Runs -> SUBSET Names] /\ raced' \subseteq Runs
      /\ raced \subseteq raced'
      /\ UNCHANGED <<file, upload, deletion, faults>>
      /\ \A v \in Runs : Tracks!Active(v)' =>
            /\ tracks'[v] = tracks[v]
            /\ Tracks!Active(v) \/ Tracks!Safe(v) \/ v \in raced'
  <2>1. CASE \E chosen \in (SUBSET Names) \ {{}} : Tracks!PrepareRun(r, chosen)
    BY <1>1, <2>1 DEF Tracks!PrepareRun, Tracks!TypeOK, Tracks!Active, Tracks!Statuses
  <2>2. ASSUME NEW new \in Tracks!Statuses, Tracks!Activate(r, new)
        PROVE  /\ status' \in [Runs -> Tracks!Statuses \cup {"none", "preparing"}]
               /\ tracks' \in [Runs -> SUBSET Names] /\ raced' \subseteq Runs
               /\ raced \subseteq raced'
               /\ UNCHANGED <<file, upload, deletion, faults>>
               /\ \A v \in Runs : Tracks!Active(v)' =>
                     /\ tracks'[v] = tracks[v]
                     /\ Tracks!Active(v) \/ Tracks!Safe(v) \/ v \in raced'
    BY <1>1, <2>2 DEF Tracks!Activate, Tracks!TypeOK, Tracks!Active
  <2>3. CASE Tracks!SaveRun(r) \/ Tracks!Requeue(r)
    BY <2>2, <2>3 DEF Tracks!SaveRun, Tracks!Requeue, Tracks!Statuses
  <2>4. CASE Tracks!Advance(r)
    BY <1>1, <2>4 DEF Tracks!Advance, Tracks!TypeOK, Tracks!Active, Tracks!Statuses
  <2> QED BY <2>1, <2>3, <2>4 DEF Tracks!RunStep
<1>3. Tracks!TypeOK'
  BY <1>1, <1>2 DEF Tracks!TypeOK
<1>4. Tracks!DeletionsSpareRuns'
  <2> SUFFICES ASSUME NEW v \in Runs, Tracks!Active(v)', v \notin raced'
               PROVE  Tracks!Safe(v)'
    BY DEF Tracks!DeletionsSpareRuns
  <2>1. Tracks!Safe(v) /\ tracks'[v] = tracks[v]
    BY <1>2 DEF Tracks!IInv, Tracks!DeletionsSpareRuns
  <2> QED BY <1>2, <2>1 DEF Tracks!Safe, Tracks!Exists
<1> QED BY <1>2, <1>3, <1>4 DEF Tracks!IInv, Tracks!RequestsStartFirst,
        Tracks!PublishedFilesAreValid, Tracks!UploadsKnowTheirNames, Tracks!Exists,
        Tracks!Current

LEMMA TracksStart ==
    ASSUME Tracks!Init PROVE Tracks!IInv
<1>1. Tracks!TypeOK
  BY TrackFacts DEF Tracks!Init, Tracks!TypeOK, Tracks!NoUpload, Tracks!Upload,
     Tracks!NoDeletion, Tracks!Deletion
<1>2. \A u \in TrackUploads : upload[u].pc = "idle" /\ upload[u].at = 1
  BY DEF Tracks!Init, Tracks!NoUpload
<1> QED BY <1>1, <1>2 DEF Tracks!Init, Tracks!IInv, Tracks!RequestsStartFirst,
        Tracks!PublishedFilesAreValid, Tracks!DeletionsSpareRuns, Tracks!Active,
        Tracks!UploadsKnowTheirNames

LEMMA TracksStep ==
    ASSUME Tracks!IInv, [Tracks!Next]_(Tracks!vars) PROVE Tracks!IInv'
<1>1. CASE Tracks!Next
  BY <1>1, UploadsKeepInvariant, DeletionsKeepInvariant, RunsKeepInvariant DEF Tracks!Next
<1>2. CASE UNCHANGED Tracks!vars
  BY <1>2 DEF Tracks!vars, Tracks!IInv, Tracks!TypeOK, Tracks!RequestsStartFirst,
     Tracks!PublishedFilesAreValid, Tracks!DeletionsSpareRuns, Tracks!Active, Tracks!Safe,
     Tracks!Exists, Tracks!UploadsKnowTheirNames, Tracks!Current
<1> QED BY <1>1, <1>2

-----------------------------------------------------------------------------
(* The stores together *)

\* An idle library counts the faults of the other one.
LEMMA TracksIdle ==
    ASSUME Tracks!IInv, UNCHANGED TrackVars, faults' \in 0 .. MaxFaults
    PROVE  Tracks!IInv'
  BY DEF TrackVars, Tracks!IInv, Tracks!TypeOK, Tracks!RequestsStartFirst,
     Tracks!PublishedFilesAreValid, Tracks!DeletionsSpareRuns, Tracks!Active, Tracks!Safe,
     Tracks!Exists, Tracks!UploadsKnowTheirNames, Tracks!Current

LEMMA EditorIdle ==
    ASSUME Editor!IInv, UNCHANGED PluginVars, faults' \in 0 .. MaxFaults
    PROVE  Editor!IInv'
  BY DEF PluginVars, Editor!IInv, Editor!TypeOK, Editor!WorkIsNamed,
     Editor!LockIsExclusive,
     Editor!RecheckHolds

\* A step is one of the store in use; the others stay, but for the faults.
LEMMA StoresMove ==
    ASSUME [Next]_<<used, TrackVars, PluginVars, ArtifactVars, faults>>
    PROVE  /\ \/ Tracks!Next
              \/ UNCHANGED TrackVars
           /\ \/ Editor!Next
              \/ UNCHANGED PluginVars
           /\ [Artifacts!Next]_(Artifacts!vars)
           /\ \/ Tracks!Next \/ Editor!Next
              \/ UNCHANGED faults
<1>1. CASE Next
  BY <1>1 DEF Next, ArtifactVars, Artifacts!vars
<1>2. CASE UNCHANGED <<used, TrackVars, PluginVars, ArtifactVars, faults>>
  BY <1>2 DEF ArtifactVars, Artifacts!vars
<1> QED BY <1>1, <1>2

LEMMA InvariantIsKept ==
    ASSUME IInv, [Next]_<<used, TrackVars, PluginVars, ArtifactVars, faults>>
    PROVE  IInv'
<1>1. Tracks!IInv /\ Editor!IInv /\ Artifacts!IInv
  BY DEF IInv
<1>2. faults' \in 0 .. MaxFaults
  <2>1. CASE Tracks!Next
    BY <1>1, <2>1, TracksStep DEF Tracks!IInv, Tracks!TypeOK
  <2>2. CASE Editor!Next
    BY <1>1, <2>2, EditorStep DEF Editor!IInv, Editor!TypeOK
  <2>3. CASE UNCHANGED faults
    BY <1>1, <2>3 DEF Tracks!IInv, Tracks!TypeOK
  <2> QED BY <2>1, <2>2, <2>3, StoresMove
<1>3. Tracks!IInv'
  BY <1>1, <1>2, StoresMove, TracksStep, TracksIdle
<1>4. Editor!IInv'
  BY <1>1, <1>2, StoresMove, EditorStep, EditorIdle
<1>5. Artifacts!IInv'
  BY <1>1, StoresMove, ArtifactsStep
<1> QED BY <1>3, <1>4, <1>5 DEF IInv

\* The types of the three stores, and what makes each correct from one step to
\* the next, for every number of requests, editors, workers and faults.
THEOREM Invariant == Spec => []IInv
<1>1. Init => IInv
  BY TracksStart, EditorStart, ArtifactsStart DEF Init, IInv
<1>2. IInv /\ [Next]_<<used, TrackVars, PluginVars, ArtifactVars, faults>> => IInv'
  BY InvariantIsKept
<1> QED BY <1>1, <1>2, PTL DEF Spec

\* A run that became active while its tracks were safe keeps a whole, readable
\* file under each of their names as long as it is active (delete_tracks, save).
THEOREM ActiveRunsKeepTracks == Spec => []TracksKept
<1>1. IInv => TracksKept
  <2> SUFFICES ASSUME IInv, NEW r \in Runs, Tracks!Active(r), r \notin raced,
                      NEW n \in tracks[r]
               PROVE  file[n] = "track"
    BY DEF TracksKept, Tracks!TracksKept
  <2>1. n \in Names /\ file[n] \in {"none", "track", "broken"}
    BY DEF IInv, Tracks!IInv, Tracks!TypeOK
  <2>2. file[n] # "none"
    BY DEF IInv, Tracks!IInv, Tracks!DeletionsSpareRuns, Tracks!Safe, Tracks!Exists
  <2> QED BY <2>1, <2>2 DEF IInv, Tracks!IInv, Tracks!PublishedFilesAreValid
<1> QED BY <1>1, Invariant, PTL

\* An upload without permission replaces only what another upload published
\* under its feet (save, which looks before it streams the body).
THEOREM UploadsOverwriteNothingSeen == Spec => OverwriteNeedsPermission
<1>1. ASSUME IInv, [Next]_<<used, TrackVars, PluginVars, ArtifactVars, faults>>
      PROVE  [\A u \in TrackUploads :
                 upload[u].pc = "publishing" /\ upload'[u].pc = "reading" =>
                     \/ upload[u].overwrite \/ upload[u].surprised
                     \/ ~Tracks!Exists(Tracks!Current(u).name)]_(Tracks!vars)
  BY <1>1 DEF IInv, Tracks!IInv, Tracks!UploadsKnowTheirNames
<1> QED BY <1>1, Invariant, PTL DEF Spec, OverwriteNeedsPermission,
        Tracks!OverwriteNeedsPermission

\* A save of the editor replaces only the source its client had opened or saved
\* (save_source); nothing else but a manual change touches an existing plugin.
THEOREM SavesLoseNothing == Spec => NoLostSave
<1>1. ASSUME IInv, [Next]_<<used, TrackVars, PluginVars, ArtifactVars, faults>>
      PROVE  [\A p \in Plugins : source[p] # Missing /\ source'[p] # source[p] /\ manual' = manual =>
                 \E e \in Editors :
                     /\ editor[e].pc = "rechecked" /\ editor'[e].pc = "replaced"
                     /\ editor[e].plugin = p
                     /\ source[p] = editor[e].revision \/ e \in tampered]_(Editor!vars)
  <2>1. Editor!Next \/ UNCHANGED source
    BY <1>1, StoresMove DEF PluginVars
  <2> QED BY <1>1, <2>1, SavesReplaceTheirRevision DEF IInv
<1> QED BY <1>1, Invariant, PTL DEF Spec, NoLostSave, Editor!NoLostSave

\* A study is collected for the material that was published, whichever of
\* several launches published it and whichever saved it (prepare_studies).
THEOREM StudiesHaveTheirMaterial == Spec => []StudyHasItsMaterial
<1>1. IInv => StudyHasItsMaterial
  BY DEF IInv, Artifacts!IInv, StudyHasItsMaterial
<1> QED BY <1>1, Invariant, PTL

\* The results of a finalized study are those of its frozen revision and of the
\* material its participants heard (publish_final_artifacts, mark_finalized).
THEOREM ResultsMatchStudy == Spec => []FinalMatchesStudy
<1>1. IInv => FinalMatchesStudy
  <2> SUFFICES ASSUME IInv, study # None, study.status = "finalized"
               PROVE  final # None /\ final.revision + 1 = study.revision
                      /\ final.bundle = material
    BY DEF FinalMatchesStudy, Artifacts!FinalMatchesStudy
  <2> QED BY DEF IInv, Artifacts!IInv, Artifacts!ResultsAreFrozen, Artifacts!Frozen
<1> QED BY <1>1, Invariant, PTL

\* A finalization that is repeated meets a conflict only if the analysis changed
\* since the results were published (publish_final_artifacts).
THEOREM ConflictsAreExplained == Spec => []ConflictMeansUpgrade
<1>1. IInv => ConflictMeansUpgrade
  BY DEF IInv, Artifacts!IInv, ConflictMeansUpgrade
<1> QED BY <1>1, Invariant, PTL

\* A launch that is repeated, late or concurrent never resets a collection, and
\* a finalized study never changes (save_prepared, mark_finalized).
THEOREM CollectionsAreKept == Spec => CollectionIsKept
<1>1. ASSUME IInv, [Next]_<<used, TrackVars, PluginVars, ArtifactVars, faults>>
      PROVE  [study # None => /\ study'.definition = study.definition
                              /\ study'.revision >= study.revision
                              /\ study.status = "finalized" => study' = study]_(Artifacts!vars)
  <2>1. CASE Artifacts!Next
    BY <1>1, <2>1, ArtifactsStay DEF IInv
  <2>2. CASE UNCHANGED Artifacts!vars
    BY <2>2
  <2> QED BY <1>1, <2>1, <2>2, StoresMove
<1> QED BY <1>1, Invariant, PTL DEF Spec, CollectionIsKept, Artifacts!CollectionIsKept
=============================================================================
