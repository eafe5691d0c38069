------------------------ MODULE RunLifecycle_proofs ------------------------
(***************************************************************************)
(* The safety of the run lifecycle, for any sets of runs, workers and      *)
(* handlers and any number of faults.  IInv (RunLifecycle) is inductive:   *)
(* one lemma for each of its conjuncts, with one step for every action     *)
(* that changes a variable of the conjunct and one for the others          *)
(* together.  The safety properties follow from it.                        *)
(***************************************************************************)
EXTENDS RunLifecycle, TLAPS

\* What the compare-and-set of transition_status does: one run's status and
\* failure report change together, only from the expected status, and no other
\* run is touched.
LEMMA TransitionEffect ==
    ASSUME StoreOK, NEW r \in Runs, NEW expected, NEW new \in Statuses,
           NEW report \in BOOLEAN, TransitionStatus(r, expected, new, report)
    PROVE  /\ status' \in [Runs -> Statuses]
           /\ failure' \in [Runs -> BOOLEAN]
           /\ \A s \in Runs \ {r} : status'[s] = status[s] /\ failure'[s] = failure[s]
           /\ status[r] = expected => status'[r] = new /\ failure'[r] = report
           /\ status[r] # expected => status' = status /\ failure' = failure
  BY DEF TransitionStatus, StoreOK

-----------------------------------------------------------------------------
(* Types *)

\* Every step keeps the types of what is stored.
LEMMA StoreStep ==
    ASSUME TypeOK, Next
    PROVE  StoreOK'
<1>1. ASSUME NEW r \in Runs, SaveRun(r) PROVE StoreOK'
  BY <1>1 DEF SaveRun, TypeOK, StoreOK, Statuses
<1>2. ASSUME NEW h \in Handlers, NEW source \in Runs, NEW r \in Runs, RetryRun(h, source, r)
      PROVE  StoreOK'
  BY <1>2 DEF RetryRun, TypeOK, StoreOK, Statuses
<1>3. ASSUME NEW h \in Handlers, NEW r \in Runs, ExecuteRun(h, r)
      PROVE  StoreOK'
  BY <1>3, TransitionEffect DEF ExecuteRun, TypeOK, StoreOK, WorkersOK,
         HandlersOK, Statuses, QueueSources
<1>4. ASSUME NEW h \in Handlers, NEW r \in Runs, CloseStudy(h, r)
      PROVE  StoreOK'
  BY <1>4 DEF CloseStudy, TypeOK, StoreOK, WorkersOK, HandlersOK, Statuses,
         StudyStatuses
<1>5. ASSUME NEW h \in Handlers, QueueFinalization(h) PROVE StoreOK'
  BY <1>5, TransitionEffect DEF QueueFinalization, TypeOK, StoreOK, WorkersOK,
         HandlersOK, Statuses, QueueSources
<1>6. ASSUME NEW h \in Handlers, SendMessage(h) PROVE StoreOK'
  BY <1>6 DEF SendMessage, Enqueue, MessageOf, TypeOK, StoreOK, WorkersOK,
         HandlersOK, Statuses, StudyStatuses, Kinds, QueueSources
<1>7. ASSUME NEW h \in Handlers, SendRaises(h) PROVE StoreOK'
  <2>1. MessageOf(handler[h].from) \in Kinds /\ handler[h].run \in Runs
    BY <1>7 DEF SendRaises, MessageOf, TypeOK, HandlersOK, QueueSources, Kinds
  <2>2. broker' \in [Kinds -> [Runs -> Nat]]
    <3>1. CASE Enqueue(MessageOf(handler[h].from), handler[h].run)
      BY <2>1, <3>1 DEF Enqueue, TypeOK, StoreOK
    <3>2. CASE UNCHANGED broker
      BY <3>2 DEF TypeOK, StoreOK
    <3> QED BY <1>7, <3>1, <3>2 DEF SendRaises
  <2>3. faults' \in Nat
    BY <1>7 DEF SendRaises, Fault, TypeOK, StoreOK
  <2> QED BY <1>7, <2>2, <2>3 DEF SendRaises, TypeOK, StoreOK
<1>8. ASSUME NEW h \in Handlers, RollBack(h) PROVE StoreOK'
  <2>1. handler[h].run \in Runs /\ handler[h].from \in Statuses
    BY <1>8 DEF RollBack, TypeOK, HandlersOK, QueueSources, Statuses
  <2>2. TransitionStatus(handler[h].run, "queued", handler[h].from, FALSE)
    BY <1>8 DEF RollBack
  <2>3. status' \in [Runs -> Statuses] /\ failure' \in [Runs -> BOOLEAN]
    BY <2>1, <2>2, TransitionEffect DEF TypeOK
  <2> QED BY <1>8, <2>3 DEF RollBack, TypeOK, StoreOK
<1>9. ASSUME NEW h \in Handlers, DeleteRun(h) PROVE StoreOK'
  BY <1>9 DEF DeleteRun, TypeOK, StoreOK, Statuses
<1>10. ASSUME NEW h \in Handlers, HandlerDies(h) PROVE StoreOK'
  BY <1>10 DEF HandlerDies, Fault, TypeOK, StoreOK, WorkersOK, HandlersOK,
         Statuses, StudyStatuses
<1>11. ASSUME NEW w \in Workers, NEW k \in Kinds, NEW r \in Runs, Receive(w, k, r)
      PROVE  StoreOK'
  BY <1>11 DEF Receive, TypeOK, StoreOK, Statuses
<1>12. ASSUME NEW w \in Workers, Claim(w) PROVE StoreOK'
  BY <1>12, TransitionEffect DEF Claim, TypeOK, StoreOK, WorkersOK, HandlersOK,
         Statuses, QueueSources
<1>13. ASSUME NEW w \in Workers, TestbenchEnds(w) PROVE StoreOK'
  BY <1>13 DEF TestbenchEnds, TypeOK, StoreOK, WorkersOK, HandlersOK, Statuses,
         StudyStatuses
<1>14. ASSUME NEW w \in Workers, SettleLaunch(w) PROVE StoreOK'
  BY <1>14, TransitionEffect DEF SettleLaunch, TypeOK, StoreOK, WorkersOK,
         HandlersOK, Statuses, QueueSources
<1>15. ASSUME NEW w \in Workers, PublishArtifacts(w) PROVE StoreOK'
  BY <1>15 DEF PublishArtifacts, TypeOK, StoreOK, WorkersOK, HandlersOK,
         Statuses, StudyStatuses
<1>16. ASSUME NEW w \in Workers, MarkFinalized(w) PROVE StoreOK'
  BY <1>16 DEF MarkFinalized, TypeOK, StoreOK, WorkersOK, HandlersOK, Statuses,
         StudyStatuses
<1>17. ASSUME NEW w \in Workers, SettleFinalize(w) PROVE StoreOK'
  BY <1>17, TransitionEffect DEF SettleFinalize, TypeOK, StoreOK, WorkersOK,
         HandlersOK, Statuses, QueueSources
<1>18. ASSUME NEW w \in Workers, FailRun(w) PROVE StoreOK'
  BY <1>18, TransitionEffect DEF FailRun, TypeOK, StoreOK, WorkersOK,
         HandlersOK, Statuses, QueueSources
<1>19. ASSUME NEW w \in Workers, PublishCompletion(w) PROVE StoreOK'
  BY <1>19 DEF PublishCompletion, TypeOK, StoreOK, Statuses
<1>20. ASSUME NEW w \in Workers, WorkerDies(w) PROVE StoreOK'
  BY <1>20 DEF WorkerDies, Fault, Enqueue, TypeOK, StoreOK, WorkersOK,
         HandlersOK, Statuses, StudyStatuses
<1>21. ASSUME NEW w \in Workers, ActorRaises(w) PROVE StoreOK'
  BY <1>21 DEF ActorRaises, Fault, Enqueue, TypeOK, StoreOK, WorkersOK,
         HandlersOK, Statuses, StudyStatuses, Kinds, QueueSources
<1>22. ASSUME NEW h \in Handlers,
             \E r \in Runs : RetryFinalization(h, r) \/ CheckDelete(h, r)
      PROVE  StoreOK'
  BY <1>22 DEF RetryFinalization, CheckDelete, TypeOK, StoreOK
<1>23. ASSUME NEW w \in Workers, Acknowledge(w)
      PROVE  StoreOK'
  BY <1>23 DEF Acknowledge, TypeOK, StoreOK
<1> QED BY <1>1, <1>2, <1>3, <1>4, <1>5, <1>6, <1>7, <1>8, <1>9, <1>10, <1>11,
        <1>12, <1>13, <1>14, <1>15, <1>16, <1>17, <1>18, <1>19, <1>20, <1>21,
        <1>22, <1>23
        DEF Next, Request, HandlerStep, WorkerStep

\* Every step keeps the types of the workers.
LEMMA WorkersStep ==
    ASSUME TypeOK, Next
    PROVE  WorkersOK'
<1>1. ASSUME NEW w \in Workers, NEW k \in Kinds, NEW r \in Runs, Receive(w, k, r)
      PROVE  WorkersOK'
  BY <1>1 DEF Receive, TypeOK, WorkersOK, WorkerSteps
<1>2. ASSUME NEW w \in Workers, Claim(w) PROVE WorkersOK'
  BY <1>2 DEF Claim, GoTo, TypeOK, WorkersOK, WorkerSteps
<1>3. ASSUME NEW w \in Workers, TestbenchEnds(w) PROVE WorkersOK'
  BY <1>3 DEF TestbenchEnds, GoTo, TypeOK, WorkersOK, WorkerSteps
<1>4. ASSUME NEW w \in Workers, SettleLaunch(w) PROVE WorkersOK'
  BY <1>4 DEF SettleLaunch, GoTo, TypeOK, WorkersOK, WorkerSteps
<1>5. ASSUME NEW w \in Workers, PublishArtifacts(w) PROVE WorkersOK'
  BY <1>5 DEF PublishArtifacts, GoTo, TypeOK, WorkersOK, WorkerSteps
<1>6. ASSUME NEW w \in Workers, MarkFinalized(w) PROVE WorkersOK'
  BY <1>6 DEF MarkFinalized, GoTo, TypeOK, WorkersOK, WorkerSteps
<1>7. ASSUME NEW w \in Workers, SettleFinalize(w) PROVE WorkersOK'
  BY <1>7 DEF SettleFinalize, GoTo, TypeOK, WorkersOK, WorkerSteps
<1>8. ASSUME NEW w \in Workers, FailRun(w) PROVE WorkersOK'
  BY <1>8 DEF FailRun, GoTo, TypeOK, WorkersOK, WorkerSteps
<1>9. ASSUME NEW w \in Workers, PublishCompletion(w) PROVE WorkersOK'
  BY <1>9 DEF PublishCompletion, GoTo, TypeOK, WorkersOK, WorkerSteps
<1>10. ASSUME NEW w \in Workers, Acknowledge(w) PROVE WorkersOK'
  BY <1>10 DEF Acknowledge, Release, IdleWorker, TypeOK, WorkersOK, WorkerSteps,
         Kinds
<1>11. ASSUME NEW w \in Workers, WorkerDies(w) PROVE WorkersOK'
  BY <1>11 DEF WorkerDies, Release, IdleWorker, TypeOK, WorkersOK, WorkerSteps,
         Kinds
<1>12. ASSUME NEW w \in Workers, ActorRaises(w) PROVE WorkersOK'
  BY <1>12 DEF ActorRaises, Release, IdleWorker, TypeOK, WorkersOK, WorkerSteps,
         Kinds
<1>13. ASSUME NEW r \in Runs, SaveRun(r)
      PROVE  WorkersOK'
  BY <1>13 DEF SaveRun, TypeOK, WorkersOK
<1>14. ASSUME NEW h \in Handlers,
             \/ \E r \in Runs : ExecuteRun(h, r) \/ CloseStudy(h, r) \/ RetryFinalization(h, r) \/ CheckDelete(h, r)
             \/ \E source, r \in Runs : RetryRun(h, source, r)
             \/ QueueFinalization(h) \/ SendMessage(h) \/ SendRaises(h)
             \/ RollBack(h) \/ DeleteRun(h) \/ HandlerDies(h)
      PROVE  WorkersOK'
  BY <1>14 DEF RetryRun, ExecuteRun, CloseStudy, RetryFinalization,
         QueueFinalization, SendMessage, SendRaises, RollBack, CheckDelete,
         DeleteRun, HandlerDies, TypeOK, WorkersOK
<1> QED BY <1>1, <1>2, <1>3, <1>4, <1>5, <1>6, <1>7, <1>8, <1>9, <1>10, <1>11,
        <1>12, <1>13, <1>14
        DEF Next, Request, HandlerStep, WorkerStep

\* Every step keeps the types of the handlers.
LEMMA HandlersStep ==
    ASSUME TypeOK, Next
    PROVE  HandlersOK'
<1>1. ASSUME NEW h \in Handlers, NEW source \in Runs, NEW r \in Runs, RetryRun(h, source, r)
      PROVE  HandlersOK'
  BY <1>1 DEF RetryRun, Start, TypeOK, HandlersOK, HandlerSteps, QueueSources
<1>2. ASSUME NEW h \in Handlers, NEW r \in Runs, ExecuteRun(h, r)
      PROVE  HandlersOK'
  BY <1>2 DEF ExecuteRun, Start, Reply, IdleHandler, TypeOK, HandlersOK,
         HandlerSteps, QueueSources
<1>3. ASSUME NEW h \in Handlers, NEW r \in Runs, CloseStudy(h, r)
      PROVE  HandlersOK'
  BY <1>3 DEF CloseStudy, Start, TypeOK, HandlersOK, HandlerSteps, QueueSources
<1>4. ASSUME NEW h \in Handlers, NEW r \in Runs, RetryFinalization(h, r)
      PROVE  HandlersOK'
  BY <1>4 DEF RetryFinalization, Start, TypeOK, HandlersOK, HandlerSteps,
         QueueSources
<1>5. ASSUME NEW h \in Handlers, QueueFinalization(h) PROVE HandlersOK'
  BY <1>5 DEF QueueFinalization, Proceed, Reply, IdleHandler, TypeOK,
         HandlersOK, HandlerSteps, QueueSources
<1>6. ASSUME NEW h \in Handlers, SendMessage(h) PROVE HandlersOK'
  BY <1>6 DEF SendMessage, Reply, IdleHandler, TypeOK, HandlersOK, HandlerSteps,
         QueueSources
<1>7. ASSUME NEW h \in Handlers, SendRaises(h) PROVE HandlersOK'
  BY <1>7 DEF SendRaises, Proceed, TypeOK, HandlersOK, HandlerSteps
<1>8. ASSUME NEW h \in Handlers, RollBack(h) PROVE HandlersOK'
  BY <1>8 DEF RollBack, Reply, IdleHandler, TypeOK, HandlersOK, HandlerSteps,
         QueueSources
<1>9. ASSUME NEW h \in Handlers, NEW r \in Runs, CheckDelete(h, r)
      PROVE  HandlersOK'
  BY <1>9 DEF CheckDelete, Start, TypeOK, HandlersOK, HandlerSteps, QueueSources
<1>10. ASSUME NEW h \in Handlers, DeleteRun(h) PROVE HandlersOK'
  BY <1>10 DEF DeleteRun, Reply, IdleHandler, TypeOK, HandlersOK, HandlerSteps,
         QueueSources
<1>11. ASSUME NEW h \in Handlers, HandlerDies(h) PROVE HandlersOK'
  BY <1>11 DEF HandlerDies, Reply, IdleHandler, TypeOK, HandlersOK,
         HandlerSteps, QueueSources
<1>12. ASSUME NEW r \in Runs, SaveRun(r)
      PROVE  HandlersOK'
  BY <1>12 DEF SaveRun, TypeOK, HandlersOK
<1>13. ASSUME NEW w \in Workers,
             \/ \E k \in Kinds, r \in Runs : Receive(w, k, r)
             \/ Claim(w) \/ TestbenchEnds(w) \/ SettleLaunch(w)
             \/ PublishArtifacts(w) \/ MarkFinalized(w) \/ SettleFinalize(w)
             \/ FailRun(w) \/ PublishCompletion(w) \/ Acknowledge(w)
             \/ WorkerDies(w) \/ ActorRaises(w)
      PROVE  HandlersOK'
  BY <1>13 DEF Receive, Claim, TestbenchEnds, SettleLaunch, PublishArtifacts,
         MarkFinalized, SettleFinalize, FailRun, PublishCompletion, Acknowledge,
         WorkerDies, ActorRaises, TypeOK, HandlersOK
<1> QED BY <1>1, <1>2, <1>3, <1>4, <1>5, <1>6, <1>7, <1>8, <1>9, <1>10, <1>11,
        <1>12, <1>13
        DEF Next, Request, HandlerStep, WorkerStep

-----------------------------------------------------------------------------
(* The conjuncts of the invariant *)

\* Only a run that is QUEUED is claimed, so by no worker yet, and only its own
\* worker or a deletion takes a RUNNING run to another status.
LEMMA ExclusiveStep ==
    ASSUME TypeOK, ExclusiveExecution, Next
    PROVE  ExclusiveExecution'
<1>1. ASSUME NEW r \in Runs, SaveRun(r) PROVE ExclusiveExecution'
  BY <1>1 DEF SaveRun, TypeOK, StoreOK, WorkersOK, ExclusiveExecution, Executes,
         Owning
<1>2. ASSUME NEW h \in Handlers, NEW source \in Runs, NEW r \in Runs, RetryRun(h, source, r)
      PROVE  ExclusiveExecution'
  BY <1>2 DEF RetryRun, TypeOK, StoreOK, WorkersOK, ExclusiveExecution,
         Executes, Owning
<1>3. ASSUME NEW h \in Handlers, NEW r \in Runs, ExecuteRun(h, r)
      PROVE  ExclusiveExecution'
  BY <1>3 DEF ExecuteRun, TransitionStatus, TypeOK, StoreOK, WorkersOK,
         ExclusiveExecution, Executes, Owning
<1>4. ASSUME NEW h \in Handlers, QueueFinalization(h) PROVE ExclusiveExecution'
  BY <1>4 DEF QueueFinalization, TransitionStatus, TypeOK, StoreOK, WorkersOK,
         HandlersOK, QueueSources, Kinds, ExclusiveExecution, Executes, Owning
<1>5. ASSUME NEW h \in Handlers, RollBack(h) PROVE ExclusiveExecution'
  BY <1>5 DEF RollBack, TransitionStatus, TypeOK, StoreOK, WorkersOK,
         ExclusiveExecution, Executes, Owning
<1>6. ASSUME NEW h \in Handlers, DeleteRun(h) PROVE ExclusiveExecution'
  BY <1>6 DEF DeleteRun, TypeOK, StoreOK, WorkersOK, ExclusiveExecution,
         Executes, Owning
<1>7. ASSUME NEW w \in Workers, NEW k \in Kinds, NEW r \in Runs, Receive(w, k, r)
      PROVE  ExclusiveExecution'
  BY <1>7 DEF Receive, TypeOK, StoreOK, WorkersOK, ExclusiveExecution, Executes,
         Owning
<1>8. ASSUME NEW w \in Workers, Claim(w) PROVE ExclusiveExecution'
  BY <1>8 DEF Claim, TransitionStatus, GoTo, TypeOK, StoreOK, WorkersOK,
         ExclusiveExecution, Executes, Owning
<1>9. ASSUME NEW w \in Workers, TestbenchEnds(w) PROVE ExclusiveExecution'
  BY <1>9 DEF TestbenchEnds, GoTo, TypeOK, StoreOK, WorkersOK,
         ExclusiveExecution, Executes, Owning
<1>10. ASSUME NEW w \in Workers, SettleLaunch(w) PROVE ExclusiveExecution'
  BY <1>10 DEF SettleLaunch, TransitionStatus, GoTo, TypeOK, StoreOK, WorkersOK,
         ExclusiveExecution, Executes, Owning
<1>11. ASSUME NEW w \in Workers, PublishArtifacts(w) PROVE ExclusiveExecution'
  BY <1>11 DEF PublishArtifacts, GoTo, TypeOK, StoreOK, WorkersOK,
         ExclusiveExecution, Executes, Owning
<1>12. ASSUME NEW w \in Workers, MarkFinalized(w) PROVE ExclusiveExecution'
  BY <1>12 DEF MarkFinalized, GoTo, TypeOK, StoreOK, WorkersOK,
         ExclusiveExecution, Executes, Owning
<1>13. ASSUME NEW w \in Workers, SettleFinalize(w) PROVE ExclusiveExecution'
  BY <1>13 DEF SettleFinalize, TransitionStatus, GoTo, TypeOK, StoreOK,
         WorkersOK, ExclusiveExecution, Executes, Owning
<1>14. ASSUME NEW w \in Workers, FailRun(w) PROVE ExclusiveExecution'
  BY <1>14 DEF FailRun, TransitionStatus, GoTo, TypeOK, StoreOK, WorkersOK,
         ExclusiveExecution, Executes, Owning
<1>15. ASSUME NEW w \in Workers, PublishCompletion(w) PROVE ExclusiveExecution'
  BY <1>15 DEF PublishCompletion, GoTo, TypeOK, StoreOK, WorkersOK,
         ExclusiveExecution, Executes, Owning
<1>16. ASSUME NEW w \in Workers, Acknowledge(w) PROVE ExclusiveExecution'
  BY <1>16 DEF Acknowledge, Release, IdleWorker, TypeOK, StoreOK, WorkersOK,
         ExclusiveExecution, Executes, Owning
<1>17. ASSUME NEW w \in Workers, WorkerDies(w) PROVE ExclusiveExecution'
  BY <1>17 DEF WorkerDies, Release, IdleWorker, TypeOK, StoreOK, WorkersOK,
         ExclusiveExecution, Executes, Owning
<1>18. ASSUME NEW w \in Workers, ActorRaises(w) PROVE ExclusiveExecution'
  BY <1>18 DEF ActorRaises, Release, IdleWorker, TypeOK, StoreOK, WorkersOK,
         ExclusiveExecution, Executes, Owning
<1>19. ASSUME NEW h \in Handlers,
             \/ \E r \in Runs : CloseStudy(h, r) \/ RetryFinalization(h, r) \/ CheckDelete(h, r)
             \/ SendMessage(h) \/ SendRaises(h) \/ HandlerDies(h)
      PROVE  ExclusiveExecution'
  BY <1>19 DEF CloseStudy, RetryFinalization, SendMessage, SendRaises,
         CheckDelete, HandlerDies, ExclusiveExecution, Executes, Owning
<1> QED BY <1>1, <1>2, <1>3, <1>4, <1>5, <1>6, <1>7, <1>8, <1>9, <1>10, <1>11,
        <1>12, <1>13, <1>14, <1>15, <1>16, <1>17, <1>18, <1>19
        DEF Next, Request, HandlerStep, WorkerStep

\* A worker lets go of a RUNNING run by settling it, or is recorded as lost.
LEMMA RunningStep ==
    ASSUME TypeOK, ExclusiveExecution, RunningRunHasWorker, Next
    PROVE  RunningRunHasWorker'
<1>1. ASSUME NEW r \in Runs, SaveRun(r) PROVE RunningRunHasWorker'
  BY <1>1 DEF SaveRun, TypeOK, StoreOK, WorkersOK, RunningRunHasWorker,
         Executes, Owning
<1>2. ASSUME NEW h \in Handlers, NEW source \in Runs, NEW r \in Runs, RetryRun(h, source, r)
      PROVE  RunningRunHasWorker'
  BY <1>2 DEF RetryRun, TypeOK, StoreOK, WorkersOK, RunningRunHasWorker,
         Executes, Owning
<1>3. ASSUME NEW h \in Handlers, NEW r \in Runs, ExecuteRun(h, r)
      PROVE  RunningRunHasWorker'
  BY <1>3 DEF ExecuteRun, TransitionStatus, TypeOK, StoreOK, WorkersOK,
         RunningRunHasWorker, Executes, Owning
<1>4. ASSUME NEW h \in Handlers, QueueFinalization(h)
      PROVE  RunningRunHasWorker'
  BY <1>4 DEF QueueFinalization, TransitionStatus, TypeOK, StoreOK, WorkersOK,
         RunningRunHasWorker, Executes, Owning
<1>5. ASSUME NEW h \in Handlers, RollBack(h) PROVE RunningRunHasWorker'
  BY <1>5 DEF RollBack, TransitionStatus, TypeOK, StoreOK, WorkersOK,
         HandlersOK, QueueSources, Kinds, RunningRunHasWorker, Executes, Owning,
         ExclusiveExecution
<1>6. ASSUME NEW h \in Handlers, DeleteRun(h) PROVE RunningRunHasWorker'
  BY <1>6 DEF DeleteRun, TypeOK, StoreOK, WorkersOK, RunningRunHasWorker,
         Executes, Owning
<1>7. ASSUME NEW h \in Handlers, HandlerDies(h) PROVE RunningRunHasWorker'
  BY <1>7 DEF HandlerDies, TypeOK, StoreOK, WorkersOK, RunningRunHasWorker,
         Executes, Owning
<1>8. ASSUME NEW w \in Workers, NEW k \in Kinds, NEW r \in Runs, Receive(w, k, r)
      PROVE  RunningRunHasWorker'
  BY <1>8 DEF Receive, TypeOK, StoreOK, WorkersOK, RunningRunHasWorker,
         Executes, Owning
<1>9. ASSUME NEW w \in Workers, Claim(w) PROVE RunningRunHasWorker'
  <2> SUFFICES ASSUME NEW r \in Runs, status'[r] = "running", r \notin abandoned'
               PROVE  \E v \in Workers : Executes(v, r)'
    BY DEF RunningRunHasWorker
  <2>1. CASE worker[w].run = r /\ status[r] = "queued"
    BY <1>9, <2>1 DEF Claim, GoTo, TypeOK, WorkersOK, Executes, Owning
  <2>2. CASE worker[w].run # r \/ status[r] # "queued"
    <3>1. status[r] = "running" /\ r \notin abandoned
      BY <1>9, <2>2 DEF Claim, TransitionStatus, TypeOK, StoreOK, WorkersOK
    <3>2. PICK v \in Workers : Executes(v, r)
      BY <3>1 DEF RunningRunHasWorker
    <3>3. v # w
      BY <1>9, <3>2 DEF Claim, Executes, Owning
    <3>4. worker'[v] = worker[v]
      BY <1>9, <3>3 DEF Claim, GoTo, TypeOK, WorkersOK
    <3> QED BY <3>2, <3>4 DEF Executes
  <2> QED BY <2>1, <2>2
<1>10. ASSUME NEW w \in Workers, TestbenchEnds(w) PROVE RunningRunHasWorker'
  BY <1>10 DEF TestbenchEnds, GoTo, TypeOK, StoreOK, WorkersOK,
         RunningRunHasWorker, Executes, Owning
<1>11. ASSUME NEW w \in Workers, SettleLaunch(w) PROVE RunningRunHasWorker'
  BY <1>11 DEF SettleLaunch, TransitionStatus, GoTo, TypeOK, StoreOK, WorkersOK,
         RunningRunHasWorker, Executes, Owning
<1>12. ASSUME NEW w \in Workers, PublishArtifacts(w) PROVE RunningRunHasWorker'
  BY <1>12 DEF PublishArtifacts, GoTo, TypeOK, StoreOK, WorkersOK,
         RunningRunHasWorker, Executes, Owning
<1>13. ASSUME NEW w \in Workers, MarkFinalized(w) PROVE RunningRunHasWorker'
  BY <1>13 DEF MarkFinalized, GoTo, TypeOK, StoreOK, WorkersOK,
         RunningRunHasWorker, Executes, Owning
<1>14. ASSUME NEW w \in Workers, SettleFinalize(w) PROVE RunningRunHasWorker'
  BY <1>14 DEF SettleFinalize, TransitionStatus, GoTo, TypeOK, StoreOK,
         WorkersOK, RunningRunHasWorker, Executes, Owning
<1>15. ASSUME NEW w \in Workers, FailRun(w) PROVE RunningRunHasWorker'
  BY <1>15 DEF FailRun, TransitionStatus, GoTo, TypeOK, StoreOK, WorkersOK,
         RunningRunHasWorker, Executes, Owning
<1>16. ASSUME NEW w \in Workers, PublishCompletion(w)
      PROVE  RunningRunHasWorker'
  BY <1>16 DEF PublishCompletion, GoTo, TypeOK, StoreOK, WorkersOK,
         RunningRunHasWorker, Executes, Owning
<1>17. ASSUME NEW w \in Workers, Acknowledge(w) PROVE RunningRunHasWorker'
  BY <1>17 DEF Acknowledge, Release, IdleWorker, TypeOK, StoreOK, WorkersOK,
         RunningRunHasWorker, Executes, Owning
<1>18. ASSUME NEW w \in Workers, WorkerDies(w) PROVE RunningRunHasWorker'
  BY <1>18 DEF WorkerDies, Release, IdleWorker, TypeOK, StoreOK, WorkersOK,
         RunningRunHasWorker, Executes, Owning
<1>19. ASSUME NEW w \in Workers, ActorRaises(w) PROVE RunningRunHasWorker'
  BY <1>19 DEF ActorRaises, Release, IdleWorker, TypeOK, StoreOK, WorkersOK,
         RunningRunHasWorker, Executes, Owning
<1>20. ASSUME NEW h \in Handlers,
             \/ \E r \in Runs : CloseStudy(h, r) \/ RetryFinalization(h, r) \/ CheckDelete(h, r)
             \/ SendMessage(h) \/ SendRaises(h)
      PROVE  RunningRunHasWorker'
  BY <1>20 DEF CloseStudy, RetryFinalization, SendMessage, SendRaises,
         CheckDelete, RunningRunHasWorker, Executes, Owning
<1> QED BY <1>1, <1>2, <1>3, <1>4, <1>5, <1>6, <1>7, <1>8, <1>9, <1>10, <1>11,
        <1>12, <1>13, <1>14, <1>15, <1>16, <1>17, <1>18, <1>19, <1>20
        DEF Next, Request, HandlerStep, WorkerStep

\* A QUEUED run is handed from the handler to the broker to the worker.
LEMMA QueuedStep ==
    ASSUME TypeOK, QueuedRunHasMessage, Next
    PROVE  QueuedRunHasMessage'
<1>1. ASSUME NEW r \in Runs, SaveRun(r) PROVE QueuedRunHasMessage'
  BY <1>1 DEF SaveRun, TypeOK, StoreOK, WorkersOK, HandlersOK,
         QueuedRunHasMessage
<1>2. ASSUME NEW h \in Handlers, NEW source \in Runs, NEW r \in Runs, RetryRun(h, source, r)
      PROVE  QueuedRunHasMessage'
  BY <1>2 DEF RetryRun, Start, TypeOK, StoreOK, WorkersOK, HandlersOK,
         QueuedRunHasMessage
<1>3. ASSUME NEW h \in Handlers, NEW r \in Runs, ExecuteRun(h, r)
      PROVE  QueuedRunHasMessage'
  <2> SUFFICES ASSUME NEW s \in Runs, status'[s] = "queued", s \notin abandoned
               PROVE  \/ \E k \in Kinds : broker'[k][s] > 0
                      \/ \E w \in Workers : worker'[w].pc = "received" /\ worker'[w].run = s
                      \/ \E g \in Handlers : /\ handler'[g].pc \in {"sending", "rollback"}
                                            /\ handler'[g].run = s
    BY <1>3 DEF QueuedRunHasMessage, ExecuteRun
  <2>1. CASE s = r /\ status[s] # "queued"
    <3>1. handler'[h].pc = "sending" /\ handler'[h].run = s
      BY <1>3, <2>1 DEF ExecuteRun, TransitionStatus, Start, TypeOK, HandlersOK
    <3> QED BY <3>1
  <2>2. CASE s # r \/ status[s] = "queued"
    <3>1. status[s] = "queued"
      BY <1>3, <2>2 DEF ExecuteRun, TransitionStatus, TypeOK, StoreOK
    <3>2. broker' = broker /\ worker' = worker
      BY <1>3 DEF ExecuteRun
    <3>3. \A g \in Handlers : handler[g].pc \in {"sending", "rollback"}
                             => handler'[g] = handler[g]
      BY <1>3 DEF ExecuteRun, Start, Reply, TypeOK, HandlersOK
    <3> QED BY <3>1, <3>2, <3>3 DEF QueuedRunHasMessage
  <2> QED BY <2>1, <2>2
<1>4. ASSUME NEW h \in Handlers, NEW r \in Runs, CloseStudy(h, r)
      PROVE  QueuedRunHasMessage'
  BY <1>4 DEF CloseStudy, Start, TypeOK, StoreOK, WorkersOK, HandlersOK,
         QueuedRunHasMessage
<1>5. ASSUME NEW h \in Handlers, NEW r \in Runs, RetryFinalization(h, r)
      PROVE  QueuedRunHasMessage'
  BY <1>5 DEF RetryFinalization, Start, TypeOK, StoreOK, WorkersOK, HandlersOK,
         QueuedRunHasMessage
<1>6. ASSUME NEW h \in Handlers, QueueFinalization(h)
      PROVE  QueuedRunHasMessage'
  <2> SUFFICES ASSUME NEW r \in Runs, status'[r] = "queued", r \notin abandoned
               PROVE  \/ \E k \in Kinds : broker'[k][r] > 0
                      \/ \E w \in Workers : worker'[w].pc = "received" /\ worker'[w].run = r
                      \/ \E g \in Handlers : /\ handler'[g].pc \in {"sending", "rollback"}
                                            /\ handler'[g].run = r
    BY <1>6 DEF QueuedRunHasMessage, QueueFinalization
  <2>1. CASE handler[h].run = r /\ status[r] # "queued"
    <3>1. handler'[h].pc = "sending" /\ handler'[h].run = r
      BY <1>6, <2>1 DEF QueueFinalization, TransitionStatus, Proceed, TypeOK, HandlersOK
    <3> QED BY <3>1
  <2>2. CASE handler[h].run # r \/ status[r] = "queued"
    <3>1. status[r] = "queued"
      BY <1>6, <2>2 DEF QueueFinalization, TransitionStatus, TypeOK, StoreOK, HandlersOK
    <3>2. broker' = broker /\ worker' = worker
      BY <1>6 DEF QueueFinalization
    <3>3. \A g \in Handlers : handler[g].pc \in {"sending", "rollback"}
                             => handler'[g] = handler[g]
      BY <1>6 DEF QueueFinalization, Proceed, Reply, TypeOK, HandlersOK
    <3> QED BY <3>1, <3>2, <3>3 DEF QueuedRunHasMessage
  <2> QED BY <2>1, <2>2
<1>7. ASSUME NEW h \in Handlers, SendMessage(h) PROVE QueuedRunHasMessage'
  BY <1>7 DEF SendMessage, Enqueue, MessageOf, Reply, IdleHandler, TypeOK,
         StoreOK, WorkersOK, HandlersOK, QueueSources, Kinds,
         QueuedRunHasMessage
<1>8. ASSUME NEW h \in Handlers, SendRaises(h) PROVE QueuedRunHasMessage'
  BY <1>8 DEF SendRaises, Enqueue, MessageOf, Proceed, TypeOK, StoreOK,
         WorkersOK, HandlersOK, QueueSources, Kinds, QueuedRunHasMessage
<1>9. ASSUME NEW h \in Handlers, RollBack(h) PROVE QueuedRunHasMessage'
  BY <1>9 DEF RollBack, TransitionStatus, Reply, IdleHandler, TypeOK, StoreOK,
         WorkersOK, HandlersOK, QueueSources, Kinds, QueuedRunHasMessage
<1>10. ASSUME NEW h \in Handlers, NEW r \in Runs, CheckDelete(h, r)
      PROVE  QueuedRunHasMessage'
  BY <1>10 DEF CheckDelete, Start, TypeOK, StoreOK, WorkersOK, HandlersOK,
         QueuedRunHasMessage
<1>11. ASSUME NEW h \in Handlers, DeleteRun(h) PROVE QueuedRunHasMessage'
  BY <1>11 DEF DeleteRun, Reply, IdleHandler, TypeOK, StoreOK, WorkersOK,
         HandlersOK, QueuedRunHasMessage
<1>12. ASSUME NEW h \in Handlers, HandlerDies(h) PROVE QueuedRunHasMessage'
  BY <1>12 DEF HandlerDies, Reply, IdleHandler, TypeOK, StoreOK, WorkersOK,
         HandlersOK, QueuedRunHasMessage
<1>13. ASSUME NEW w \in Workers, NEW k \in Kinds, NEW r \in Runs, Receive(w, k, r)
      PROVE  QueuedRunHasMessage'
  BY <1>13 DEF Receive, TypeOK, StoreOK, WorkersOK, HandlersOK,
         QueuedRunHasMessage
<1>14. ASSUME NEW w \in Workers, Claim(w) PROVE QueuedRunHasMessage'
  BY <1>14 DEF Claim, TransitionStatus, GoTo, TypeOK, StoreOK, WorkersOK,
         HandlersOK, QueuedRunHasMessage
<1>15. ASSUME NEW w \in Workers, TestbenchEnds(w) PROVE QueuedRunHasMessage'
  BY <1>15 DEF TestbenchEnds, GoTo, TypeOK, StoreOK, WorkersOK, HandlersOK,
         QueuedRunHasMessage
<1>16. ASSUME NEW w \in Workers, SettleLaunch(w) PROVE QueuedRunHasMessage'
  BY <1>16 DEF SettleLaunch, TransitionStatus, GoTo, TypeOK, StoreOK, WorkersOK,
         HandlersOK, QueuedRunHasMessage
<1>17. ASSUME NEW w \in Workers, PublishArtifacts(w) PROVE QueuedRunHasMessage'
  BY <1>17 DEF PublishArtifacts, GoTo, TypeOK, StoreOK, WorkersOK, HandlersOK,
         QueuedRunHasMessage
<1>18. ASSUME NEW w \in Workers, MarkFinalized(w) PROVE QueuedRunHasMessage'
  BY <1>18 DEF MarkFinalized, GoTo, TypeOK, StoreOK, WorkersOK, HandlersOK,
         QueuedRunHasMessage
<1>19. ASSUME NEW w \in Workers, SettleFinalize(w) PROVE QueuedRunHasMessage'
  BY <1>19 DEF SettleFinalize, TransitionStatus, GoTo, TypeOK, StoreOK,
         WorkersOK, HandlersOK, QueuedRunHasMessage
<1>20. ASSUME NEW w \in Workers, FailRun(w) PROVE QueuedRunHasMessage'
  BY <1>20 DEF FailRun, TransitionStatus, GoTo, TypeOK, StoreOK, WorkersOK,
         HandlersOK, QueuedRunHasMessage
<1>21. ASSUME NEW w \in Workers, PublishCompletion(w)
      PROVE  QueuedRunHasMessage'
  BY <1>21 DEF PublishCompletion, GoTo, TypeOK, StoreOK, WorkersOK, HandlersOK,
         QueuedRunHasMessage
<1>22. ASSUME NEW w \in Workers, Acknowledge(w) PROVE QueuedRunHasMessage'
  BY <1>22 DEF Acknowledge, Release, IdleWorker, TypeOK, StoreOK, WorkersOK,
         HandlersOK, QueuedRunHasMessage
<1>23. ASSUME NEW w \in Workers, WorkerDies(w) PROVE QueuedRunHasMessage'
  BY <1>23 DEF WorkerDies, Enqueue, Release, IdleWorker, TypeOK, StoreOK,
         WorkersOK, HandlersOK, QueueSources, Kinds, QueuedRunHasMessage
<1>24. ASSUME NEW w \in Workers, ActorRaises(w) PROVE QueuedRunHasMessage'
  BY <1>24 DEF ActorRaises, Enqueue, Release, IdleWorker, TypeOK, StoreOK,
         WorkersOK, HandlersOK, QueueSources, Kinds, QueuedRunHasMessage
<1> QED BY <1>1, <1>2, <1>3, <1>4, <1>5, <1>6, <1>7, <1>8, <1>9, <1>10, <1>11,
        <1>12, <1>13, <1>14, <1>15, <1>16, <1>17, <1>18, <1>19, <1>20, <1>21,
        <1>22, <1>23, <1>24
        DEF Next, Request, HandlerStep, WorkerStep

\* A study that is not collecting any more never collects again.
LEMMA QueuedAfterCloseStep ==
    ASSUME TypeOK, QueuedAfterClose, Next
    PROVE  QueuedAfterClose'
<1>1. ASSUME NEW h \in Handlers, NEW source \in Runs, NEW r \in Runs, RetryRun(h, source, r)
      PROVE  QueuedAfterClose'
  BY <1>1 DEF RetryRun, Start, TypeOK, StoreOK, HandlersOK, QueuedAfterClose
<1>2. ASSUME NEW h \in Handlers, NEW r \in Runs, ExecuteRun(h, r)
      PROVE  QueuedAfterClose'
  BY <1>2 DEF ExecuteRun, Start, Reply, IdleHandler, TypeOK, StoreOK,
         HandlersOK, QueuedAfterClose
<1>3. ASSUME NEW h \in Handlers, NEW r \in Runs, CloseStudy(h, r)
      PROVE  QueuedAfterClose'
  BY <1>3 DEF CloseStudy, Start, TypeOK, StoreOK, HandlersOK, QueuedAfterClose
<1>4. ASSUME NEW h \in Handlers, NEW r \in Runs, RetryFinalization(h, r)
      PROVE  QueuedAfterClose'
  BY <1>4 DEF RetryFinalization, Start, TypeOK, StoreOK, HandlersOK,
         QueuedAfterClose
<1>5. ASSUME NEW h \in Handlers, QueueFinalization(h) PROVE QueuedAfterClose'
  BY <1>5 DEF QueueFinalization, Proceed, Reply, IdleHandler, TypeOK, StoreOK,
         HandlersOK, QueuedAfterClose
<1>6. ASSUME NEW h \in Handlers, SendMessage(h) PROVE QueuedAfterClose'
  BY <1>6 DEF SendMessage, Reply, IdleHandler, TypeOK, StoreOK, HandlersOK,
         QueuedAfterClose
<1>7. ASSUME NEW h \in Handlers, SendRaises(h) PROVE QueuedAfterClose'
  BY <1>7 DEF SendRaises, Proceed, TypeOK, StoreOK, HandlersOK, QueuedAfterClose
<1>8. ASSUME NEW h \in Handlers, RollBack(h) PROVE QueuedAfterClose'
  BY <1>8 DEF RollBack, Reply, IdleHandler, TypeOK, StoreOK, HandlersOK,
         QueuedAfterClose
<1>9. ASSUME NEW h \in Handlers, NEW r \in Runs, CheckDelete(h, r)
      PROVE  QueuedAfterClose'
  BY <1>9 DEF CheckDelete, Start, TypeOK, StoreOK, HandlersOK, QueuedAfterClose
<1>10. ASSUME NEW h \in Handlers, DeleteRun(h) PROVE QueuedAfterClose'
  BY <1>10 DEF DeleteRun, Reply, IdleHandler, TypeOK, StoreOK, HandlersOK,
         QueuedAfterClose
<1>11. ASSUME NEW h \in Handlers, HandlerDies(h) PROVE QueuedAfterClose'
  BY <1>11 DEF HandlerDies, Reply, IdleHandler, TypeOK, StoreOK, HandlersOK,
         QueuedAfterClose
<1>12. ASSUME NEW w \in Workers, TestbenchEnds(w) PROVE QueuedAfterClose'
  BY <1>12 DEF TestbenchEnds, TypeOK, StoreOK, HandlersOK, QueuedAfterClose
<1>13. ASSUME NEW w \in Workers, MarkFinalized(w) PROVE QueuedAfterClose'
  BY <1>13 DEF MarkFinalized, TypeOK, StoreOK, HandlersOK, QueuedAfterClose
<1>14. ASSUME NEW r \in Runs, SaveRun(r)
      PROVE  QueuedAfterClose'
  BY <1>14 DEF SaveRun, QueuedAfterClose
<1>15. ASSUME NEW w \in Workers,
             \/ \E k \in Kinds, r \in Runs : Receive(w, k, r)
             \/ Claim(w) \/ SettleLaunch(w) \/ PublishArtifacts(w)
             \/ SettleFinalize(w) \/ FailRun(w) \/ PublishCompletion(w)
             \/ Acknowledge(w) \/ WorkerDies(w) \/ ActorRaises(w)
      PROVE  QueuedAfterClose'
  BY <1>15 DEF Receive, Claim, SettleLaunch, PublishArtifacts, SettleFinalize,
         FailRun, PublishCompletion, Acknowledge, WorkerDies, ActorRaises,
         QueuedAfterClose
<1> QED BY <1>1, <1>2, <1>3, <1>4, <1>5, <1>6, <1>7, <1>8, <1>9, <1>10, <1>11,
        <1>12, <1>13, <1>14, <1>15
        DEF Next, Request, HandlerStep, WorkerStep

\* Finalize messages come from handlers that saw a frozen study.
LEMMA FinalizeStep ==
    ASSUME TypeOK, QueuedAfterClose, FinalizeAfterClose, Next
    PROVE  FinalizeAfterClose'
<1>1. ASSUME NEW h \in Handlers, NEW r \in Runs, CloseStudy(h, r)
      PROVE  FinalizeAfterClose'
  BY <1>1 DEF CloseStudy, TypeOK, StoreOK, WorkersOK, FinalizeAfterClose
<1>2. ASSUME NEW h \in Handlers, SendMessage(h) PROVE FinalizeAfterClose'
  BY <1>2 DEF SendMessage, Enqueue, MessageOf, TypeOK, StoreOK, WorkersOK,
         FinalizeAfterClose, QueuedAfterClose, MessageOf
<1>3. ASSUME NEW h \in Handlers, SendRaises(h) PROVE FinalizeAfterClose'
  BY <1>3 DEF SendRaises, Enqueue, MessageOf, TypeOK, StoreOK, WorkersOK,
         HandlersOK, QueueSources, Kinds, FinalizeAfterClose, QueuedAfterClose,
         MessageOf
<1>4. ASSUME NEW w \in Workers, NEW k \in Kinds, NEW r \in Runs, Receive(w, k, r)
      PROVE  FinalizeAfterClose'
  BY <1>4 DEF Receive, TypeOK, StoreOK, WorkersOK, HandlersOK, QueueSources,
         Kinds, FinalizeAfterClose, QueuedAfterClose, MessageOf
<1>5. ASSUME NEW w \in Workers, Claim(w) PROVE FinalizeAfterClose'
  BY <1>5 DEF Claim, GoTo, TypeOK, StoreOK, WorkersOK, FinalizeAfterClose
<1>6. ASSUME NEW w \in Workers, TestbenchEnds(w) PROVE FinalizeAfterClose'
  BY <1>6 DEF TestbenchEnds, GoTo, TypeOK, StoreOK, WorkersOK,
         FinalizeAfterClose
<1>7. ASSUME NEW w \in Workers, SettleLaunch(w) PROVE FinalizeAfterClose'
  BY <1>7 DEF SettleLaunch, GoTo, TypeOK, StoreOK, WorkersOK, FinalizeAfterClose
<1>8. ASSUME NEW w \in Workers, PublishArtifacts(w) PROVE FinalizeAfterClose'
  BY <1>8 DEF PublishArtifacts, GoTo, TypeOK, StoreOK, WorkersOK,
         FinalizeAfterClose
<1>9. ASSUME NEW w \in Workers, MarkFinalized(w) PROVE FinalizeAfterClose'
  BY <1>9 DEF MarkFinalized, GoTo, TypeOK, StoreOK, WorkersOK,
         FinalizeAfterClose
<1>10. ASSUME NEW w \in Workers, SettleFinalize(w) PROVE FinalizeAfterClose'
  BY <1>10 DEF SettleFinalize, GoTo, TypeOK, StoreOK, WorkersOK,
         FinalizeAfterClose
<1>11. ASSUME NEW w \in Workers, FailRun(w) PROVE FinalizeAfterClose'
  BY <1>11 DEF FailRun, GoTo, TypeOK, StoreOK, WorkersOK, FinalizeAfterClose
<1>12. ASSUME NEW w \in Workers, PublishCompletion(w) PROVE FinalizeAfterClose'
  BY <1>12 DEF PublishCompletion, GoTo, TypeOK, StoreOK, WorkersOK,
         FinalizeAfterClose
<1>13. ASSUME NEW w \in Workers, Acknowledge(w) PROVE FinalizeAfterClose'
  BY <1>13 DEF Acknowledge, Release, IdleWorker, TypeOK, StoreOK, WorkersOK,
         FinalizeAfterClose
<1>14. ASSUME NEW w \in Workers, WorkerDies(w) PROVE FinalizeAfterClose'
  BY <1>14 DEF WorkerDies, Enqueue, Release, IdleWorker, TypeOK, StoreOK,
         WorkersOK, FinalizeAfterClose
<1>15. ASSUME NEW w \in Workers, ActorRaises(w) PROVE FinalizeAfterClose'
  BY <1>15 DEF ActorRaises, Enqueue, Release, IdleWorker, TypeOK, StoreOK,
         WorkersOK, HandlersOK, QueueSources, Kinds, FinalizeAfterClose,
         QueuedAfterClose, MessageOf
<1>16. ASSUME NEW r \in Runs, SaveRun(r)
      PROVE  FinalizeAfterClose'
  BY <1>16 DEF SaveRun, FinalizeAfterClose
<1>17. ASSUME NEW h \in Handlers,
             \/ \E r \in Runs : ExecuteRun(h, r) \/ RetryFinalization(h, r) \/ CheckDelete(h, r)
             \/ \E source, r \in Runs : RetryRun(h, source, r)
             \/ QueueFinalization(h) \/ RollBack(h) \/ DeleteRun(h)
             \/ HandlerDies(h)
      PROVE  FinalizeAfterClose'
  BY <1>17 DEF RetryRun, ExecuteRun, RetryFinalization, QueueFinalization,
         RollBack, CheckDelete, DeleteRun, HandlerDies, FinalizeAfterClose
<1> QED BY <1>1, <1>2, <1>3, <1>4, <1>5, <1>6, <1>7, <1>8, <1>9, <1>10, <1>11,
        <1>12, <1>13, <1>14, <1>15, <1>16, <1>17
        DEF Next, Request, HandlerStep, WorkerStep

\* What a worker has stored stays stored.
LEMMA ProgressStep ==
    ASSUME TypeOK, ExclusiveExecution, ProgressIsStored, Next
    PROVE  ProgressIsStored'
<1>1. ASSUME NEW r \in Runs, SaveRun(r) PROVE ProgressIsStored'
  BY <1>1 DEF SaveRun, TypeOK, StoreOK, WorkersOK, ProgressIsStored
<1>2. ASSUME NEW h \in Handlers, NEW source \in Runs, NEW r \in Runs, RetryRun(h, source, r)
      PROVE  ProgressIsStored'
  BY <1>2 DEF RetryRun, TypeOK, StoreOK, WorkersOK, ProgressIsStored
<1>3. ASSUME NEW h \in Handlers, NEW r \in Runs, ExecuteRun(h, r)
      PROVE  ProgressIsStored'
  BY <1>3 DEF ExecuteRun, TransitionStatus, TypeOK, StoreOK, WorkersOK,
         ProgressIsStored
<1>4. ASSUME NEW h \in Handlers, NEW r \in Runs, CloseStudy(h, r)
      PROVE  ProgressIsStored'
  BY <1>4 DEF CloseStudy, TypeOK, StoreOK, WorkersOK, ProgressIsStored
<1>5. ASSUME NEW h \in Handlers, QueueFinalization(h) PROVE ProgressIsStored'
  BY <1>5 DEF QueueFinalization, TransitionStatus, TypeOK, StoreOK, WorkersOK,
         HandlersOK, QueueSources, Kinds, ProgressIsStored, ExclusiveExecution,
         Executes, Owning
<1>6. ASSUME NEW h \in Handlers, RollBack(h) PROVE ProgressIsStored'
  BY <1>6 DEF RollBack, TransitionStatus, TypeOK, StoreOK, WorkersOK,
         ProgressIsStored
<1>7. ASSUME NEW h \in Handlers, DeleteRun(h) PROVE ProgressIsStored'
  BY <1>7 DEF DeleteRun, TypeOK, StoreOK, WorkersOK, ProgressIsStored
<1>8. ASSUME NEW w \in Workers, NEW k \in Kinds, NEW r \in Runs, Receive(w, k, r)
      PROVE  ProgressIsStored'
  BY <1>8 DEF Receive, TypeOK, StoreOK, WorkersOK, ProgressIsStored
<1>9. ASSUME NEW w \in Workers, Claim(w) PROVE ProgressIsStored'
  BY <1>9 DEF Claim, TransitionStatus, GoTo, TypeOK, StoreOK, WorkersOK,
         HandlersOK, QueueSources, Kinds, ProgressIsStored, ExclusiveExecution,
         Executes, Owning
<1>10. ASSUME NEW w \in Workers, TestbenchEnds(w) PROVE ProgressIsStored'
  BY <1>10 DEF TestbenchEnds, GoTo, TypeOK, StoreOK, WorkersOK, ProgressIsStored
<1>11. ASSUME NEW w \in Workers, SettleLaunch(w) PROVE ProgressIsStored'
  BY <1>11 DEF SettleLaunch, TransitionStatus, GoTo, TypeOK, StoreOK, WorkersOK,
         ProgressIsStored, ExclusiveExecution, Executes, Owning
<1>12. ASSUME NEW w \in Workers, PublishArtifacts(w) PROVE ProgressIsStored'
  BY <1>12 DEF PublishArtifacts, GoTo, TypeOK, StoreOK, WorkersOK,
         ProgressIsStored
<1>13. ASSUME NEW w \in Workers, MarkFinalized(w) PROVE ProgressIsStored'
  BY <1>13 DEF MarkFinalized, GoTo, TypeOK, StoreOK, WorkersOK, ProgressIsStored
<1>14. ASSUME NEW w \in Workers, SettleFinalize(w) PROVE ProgressIsStored'
  BY <1>14 DEF SettleFinalize, TransitionStatus, GoTo, TypeOK, StoreOK,
         WorkersOK, ProgressIsStored
<1>15. ASSUME NEW w \in Workers, FailRun(w) PROVE ProgressIsStored'
  BY <1>15 DEF FailRun, TransitionStatus, GoTo, TypeOK, StoreOK, WorkersOK,
         ProgressIsStored
<1>16. ASSUME NEW w \in Workers, PublishCompletion(w) PROVE ProgressIsStored'
  BY <1>16 DEF PublishCompletion, GoTo, TypeOK, StoreOK, WorkersOK,
         ProgressIsStored
<1>17. ASSUME NEW w \in Workers, Acknowledge(w) PROVE ProgressIsStored'
  BY <1>17 DEF Acknowledge, Release, IdleWorker, TypeOK, StoreOK, WorkersOK,
         ProgressIsStored
<1>18. ASSUME NEW w \in Workers, WorkerDies(w) PROVE ProgressIsStored'
  BY <1>18 DEF WorkerDies, Release, IdleWorker, TypeOK, StoreOK, WorkersOK,
         ProgressIsStored
<1>19. ASSUME NEW w \in Workers, ActorRaises(w) PROVE ProgressIsStored'
  BY <1>19 DEF ActorRaises, Release, IdleWorker, TypeOK, StoreOK, WorkersOK,
         ProgressIsStored
<1>20. ASSUME NEW h \in Handlers,
             \/ \E r \in Runs : RetryFinalization(h, r) \/ CheckDelete(h, r)
             \/ SendMessage(h) \/ SendRaises(h) \/ HandlerDies(h)
      PROVE  ProgressIsStored'
  BY <1>20 DEF RetryFinalization, SendMessage, SendRaises, CheckDelete,
         HandlerDies, ProgressIsStored
<1> QED BY <1>1, <1>2, <1>3, <1>4, <1>5, <1>6, <1>7, <1>8, <1>9, <1>10, <1>11,
        <1>12, <1>13, <1>14, <1>15, <1>16, <1>17, <1>18, <1>19, <1>20
        DEF Next, Request, HandlerStep, WorkerStep

\* A run is settled after its results, its study and its artifacts are stored,
\* and is taken back to AWAITING_INPUT only while its study exists.
LEMMA ResultsStep ==
    ASSUME TypeOK, QueuedAfterClose, ProgressIsStored, ResultsBehindStatus, Next
    PROVE  ResultsBehindStatus'
<1>1. ASSUME NEW r \in Runs, SaveRun(r) PROVE ResultsBehindStatus'
  BY <1>1 DEF SaveRun, TypeOK, StoreOK, ResultsBehindStatus
<1>2. ASSUME NEW h \in Handlers, NEW source \in Runs, NEW r \in Runs, RetryRun(h, source, r)
      PROVE  ResultsBehindStatus'
  BY <1>2 DEF RetryRun, TypeOK, StoreOK, ResultsBehindStatus
<1>3. ASSUME NEW h \in Handlers, NEW r \in Runs, ExecuteRun(h, r)
      PROVE  ResultsBehindStatus'
  BY <1>3 DEF ExecuteRun, TransitionStatus, TypeOK, StoreOK, ResultsBehindStatus
<1>4. ASSUME NEW h \in Handlers, NEW r \in Runs, CloseStudy(h, r)
      PROVE  ResultsBehindStatus'
  BY <1>4 DEF CloseStudy, TypeOK, StoreOK, ResultsBehindStatus
<1>5. ASSUME NEW h \in Handlers, QueueFinalization(h)
      PROVE  ResultsBehindStatus'
  BY <1>5 DEF QueueFinalization, TransitionStatus, TypeOK, StoreOK,
         ResultsBehindStatus
<1>6. ASSUME NEW h \in Handlers, RollBack(h) PROVE ResultsBehindStatus'
  BY <1>6, RunsAssumption DEF RollBack, TransitionStatus, TypeOK, StoreOK,
         WorkersOK, HandlersOK, QueueSources, Kinds, ResultsBehindStatus,
         QueuedAfterClose, ProgressIsStored
<1>7. ASSUME NEW h \in Handlers, DeleteRun(h) PROVE ResultsBehindStatus'
  BY <1>7 DEF DeleteRun, TypeOK, StoreOK, ResultsBehindStatus
<1>8. ASSUME NEW w \in Workers, Claim(w) PROVE ResultsBehindStatus'
  BY <1>8 DEF Claim, TransitionStatus, TypeOK, StoreOK, ResultsBehindStatus
<1>9. ASSUME NEW w \in Workers, TestbenchEnds(w) PROVE ResultsBehindStatus'
  BY <1>9 DEF TestbenchEnds, TypeOK, StoreOK, ResultsBehindStatus
<1>10. ASSUME NEW w \in Workers, SettleLaunch(w) PROVE ResultsBehindStatus'
  BY <1>10 DEF SettleLaunch, TransitionStatus, TypeOK, StoreOK,
         ResultsBehindStatus, QueuedAfterClose, ProgressIsStored
<1>11. ASSUME NEW w \in Workers, PublishArtifacts(w) PROVE ResultsBehindStatus'
  BY <1>11 DEF PublishArtifacts, TypeOK, StoreOK, ResultsBehindStatus
<1>12. ASSUME NEW w \in Workers, MarkFinalized(w) PROVE ResultsBehindStatus'
  BY <1>12 DEF MarkFinalized, TypeOK, StoreOK, ResultsBehindStatus,
         QueuedAfterClose, ProgressIsStored
<1>13. ASSUME NEW w \in Workers, SettleFinalize(w) PROVE ResultsBehindStatus'
  BY <1>13 DEF SettleFinalize, TransitionStatus, TypeOK, StoreOK,
         ResultsBehindStatus, QueuedAfterClose, ProgressIsStored
<1>14. ASSUME NEW w \in Workers, FailRun(w) PROVE ResultsBehindStatus'
  BY <1>14 DEF FailRun, TransitionStatus, TypeOK, StoreOK, ResultsBehindStatus
<1>15. ASSUME NEW h \in Handlers,
             \/ \E r \in Runs : RetryFinalization(h, r) \/ CheckDelete(h, r)
             \/ SendMessage(h) \/ SendRaises(h) \/ HandlerDies(h)
      PROVE  ResultsBehindStatus'
  BY <1>15 DEF RetryFinalization, SendMessage, SendRaises, CheckDelete,
         HandlerDies, ResultsBehindStatus
<1>16. ASSUME NEW w \in Workers,
             \/ \E k \in Kinds, r \in Runs : Receive(w, k, r)
             \/ PublishCompletion(w) \/ Acknowledge(w) \/ WorkerDies(w)
             \/ ActorRaises(w)
      PROVE  ResultsBehindStatus'
  BY <1>16 DEF Receive, PublishCompletion, Acknowledge, WorkerDies, ActorRaises,
         ResultsBehindStatus
<1> QED BY <1>1, <1>2, <1>3, <1>4, <1>5, <1>6, <1>7, <1>8, <1>9, <1>10, <1>11,
        <1>12, <1>13, <1>14, <1>15, <1>16
        DEF Next, Request, HandlerStep, WorkerStep

\* Success is published by a worker whose run is COMPLETED, which only a
\* deletion undoes.
LEMMA AnnouncedStep ==
    ASSUME TypeOK, ProgressIsStored, AnnouncedSuccessIsFinal, Next
    PROVE  AnnouncedSuccessIsFinal'
<1>1. ASSUME NEW r \in Runs, SaveRun(r) PROVE AnnouncedSuccessIsFinal'
  BY <1>1 DEF SaveRun, TypeOK, StoreOK, AnnouncedSuccessIsFinal
<1>2. ASSUME NEW h \in Handlers, NEW source \in Runs, NEW r \in Runs, RetryRun(h, source, r)
      PROVE  AnnouncedSuccessIsFinal'
  BY <1>2 DEF RetryRun, TypeOK, StoreOK, AnnouncedSuccessIsFinal
<1>3. ASSUME NEW h \in Handlers, NEW r \in Runs, ExecuteRun(h, r)
      PROVE  AnnouncedSuccessIsFinal'
  BY <1>3 DEF ExecuteRun, TransitionStatus, TypeOK, StoreOK,
         AnnouncedSuccessIsFinal
<1>4. ASSUME NEW h \in Handlers, QueueFinalization(h)
      PROVE  AnnouncedSuccessIsFinal'
  BY <1>4 DEF QueueFinalization, TransitionStatus, TypeOK, StoreOK, WorkersOK,
         HandlersOK, QueueSources, Kinds, AnnouncedSuccessIsFinal,
         ProgressIsStored
<1>5. ASSUME NEW h \in Handlers, RollBack(h) PROVE AnnouncedSuccessIsFinal'
  BY <1>5 DEF RollBack, TransitionStatus, TypeOK, StoreOK,
         AnnouncedSuccessIsFinal
<1>6. ASSUME NEW h \in Handlers, DeleteRun(h) PROVE AnnouncedSuccessIsFinal'
  BY <1>6 DEF DeleteRun, TypeOK, StoreOK, AnnouncedSuccessIsFinal
<1>7. ASSUME NEW w \in Workers, Claim(w) PROVE AnnouncedSuccessIsFinal'
  BY <1>7 DEF Claim, TransitionStatus, TypeOK, StoreOK, AnnouncedSuccessIsFinal
<1>8. ASSUME NEW w \in Workers, SettleLaunch(w) PROVE AnnouncedSuccessIsFinal'
  BY <1>8 DEF SettleLaunch, TransitionStatus, TypeOK, StoreOK,
         AnnouncedSuccessIsFinal
<1>9. ASSUME NEW w \in Workers, SettleFinalize(w)
      PROVE  AnnouncedSuccessIsFinal'
  BY <1>9 DEF SettleFinalize, TransitionStatus, TypeOK, StoreOK,
         AnnouncedSuccessIsFinal
<1>10. ASSUME NEW w \in Workers, FailRun(w) PROVE AnnouncedSuccessIsFinal'
  BY <1>10 DEF FailRun, TransitionStatus, TypeOK, StoreOK,
         AnnouncedSuccessIsFinal
<1>11. ASSUME NEW w \in Workers, PublishCompletion(w)
      PROVE  AnnouncedSuccessIsFinal'
  BY <1>11 DEF PublishCompletion, TypeOK, StoreOK, AnnouncedSuccessIsFinal,
         ProgressIsStored
<1>12. ASSUME NEW h \in Handlers,
             \/ \E r \in Runs : CloseStudy(h, r) \/ RetryFinalization(h, r) \/ CheckDelete(h, r)
             \/ SendMessage(h) \/ SendRaises(h) \/ HandlerDies(h)
      PROVE  AnnouncedSuccessIsFinal'
  BY <1>12 DEF CloseStudy, RetryFinalization, SendMessage, SendRaises,
         CheckDelete, HandlerDies, AnnouncedSuccessIsFinal
<1>13. ASSUME NEW w \in Workers,
             \/ \E k \in Kinds, r \in Runs : Receive(w, k, r)
             \/ TestbenchEnds(w) \/ PublishArtifacts(w) \/ MarkFinalized(w)
             \/ Acknowledge(w) \/ WorkerDies(w) \/ ActorRaises(w)
      PROVE  AnnouncedSuccessIsFinal'
  BY <1>13 DEF Receive, TestbenchEnds, PublishArtifacts, MarkFinalized,
         Acknowledge, WorkerDies, ActorRaises, AnnouncedSuccessIsFinal
<1> QED BY <1>1, <1>2, <1>3, <1>4, <1>5, <1>6, <1>7, <1>8, <1>9, <1>10, <1>11,
        <1>12, <1>13
        DEF Next, Request, HandlerStep, WorkerStep

\* A failure report is written with FAILED and dropped with it.
LEMMA FailureStep ==
    ASSUME TypeOK, QueuedAfterClose, FinalizeAfterClose, FailureIsExplained, Next
    PROVE  FailureIsExplained'
<1>1. ASSUME NEW r \in Runs, SaveRun(r) PROVE FailureIsExplained'
  BY <1>1 DEF SaveRun, TypeOK, StoreOK, FailureIsExplained
<1>2. ASSUME NEW h \in Handlers, NEW source \in Runs, NEW r \in Runs, RetryRun(h, source, r)
      PROVE  FailureIsExplained'
  BY <1>2 DEF RetryRun, TypeOK, StoreOK, FailureIsExplained
<1>3. ASSUME NEW h \in Handlers, NEW r \in Runs, ExecuteRun(h, r)
      PROVE  FailureIsExplained'
  BY <1>3 DEF ExecuteRun, TransitionStatus, TypeOK, StoreOK, FailureIsExplained
<1>4. ASSUME NEW h \in Handlers, NEW r \in Runs, CloseStudy(h, r)
      PROVE  FailureIsExplained'
  BY <1>4 DEF CloseStudy, TypeOK, StoreOK, FailureIsExplained
<1>5. ASSUME NEW h \in Handlers, QueueFinalization(h) PROVE FailureIsExplained'
  BY <1>5 DEF QueueFinalization, TransitionStatus, TypeOK, StoreOK,
         FailureIsExplained
<1>6. ASSUME NEW h \in Handlers, RollBack(h) PROVE FailureIsExplained'
  BY <1>6 DEF RollBack, TransitionStatus, TypeOK, StoreOK, FailureIsExplained,
         QueuedAfterClose, FinalizeAfterClose
<1>7. ASSUME NEW h \in Handlers, DeleteRun(h) PROVE FailureIsExplained'
  BY <1>7 DEF DeleteRun, TypeOK, StoreOK, FailureIsExplained
<1>8. ASSUME NEW w \in Workers, Claim(w) PROVE FailureIsExplained'
  BY <1>8 DEF Claim, TransitionStatus, TypeOK, StoreOK, FailureIsExplained
<1>9. ASSUME NEW w \in Workers, TestbenchEnds(w) PROVE FailureIsExplained'
  BY <1>9 DEF TestbenchEnds, TypeOK, StoreOK, FailureIsExplained
<1>10. ASSUME NEW w \in Workers, SettleLaunch(w) PROVE FailureIsExplained'
  BY <1>10 DEF SettleLaunch, TransitionStatus, TypeOK, StoreOK,
         FailureIsExplained
<1>11. ASSUME NEW w \in Workers, MarkFinalized(w) PROVE FailureIsExplained'
  BY <1>11 DEF MarkFinalized, TypeOK, StoreOK, FailureIsExplained
<1>12. ASSUME NEW w \in Workers, SettleFinalize(w) PROVE FailureIsExplained'
  BY <1>12 DEF SettleFinalize, TransitionStatus, TypeOK, StoreOK,
         FailureIsExplained
<1>13. ASSUME NEW w \in Workers, FailRun(w) PROVE FailureIsExplained'
  <2> DEFINE r == worker[w].run
             report == worker[w].kind = "launch"
  <2>1. r \in Runs /\ worker[w].pc # "idle"
    BY <1>13 DEF FailRun, TypeOK, WorkersOK
  <2>2. TransitionStatus(r, "running", "failed", report) /\ study' = study
    BY <1>13 DEF FailRun
  <2>3. /\ \A s \in Runs \ {r} : status'[s] = status[s] /\ failure'[s] = failure[s]
        /\ status[r] = "running" => status'[r] = "failed" /\ failure'[r] = report
        /\ status[r] # "running" => status' = status /\ failure' = failure
    BY <2>1, <2>2 DEF TransitionStatus, TypeOK, StoreOK
  <2>4. study[r] \in {"none", "collecting"} => report
    BY <2>1 DEF FinalizeAfterClose
  <2>5. CASE status[r] = "running"
    <3> SUFFICES ASSUME NEW s \in Runs
                 PROVE  /\ failure'[s] => status'[s] = "failed"
                        /\ status'[s] = "failed" /\ study[s] \in {"none", "collecting"}
                           => failure'[s]
      BY <2>2 DEF FailureIsExplained
    <3>1. CASE s = r
      BY <2>3, <2>4, <2>5, <3>1
    <3>2. CASE s # r
      BY <2>3, <3>2 DEF FailureIsExplained
    <3> QED BY <3>1, <3>2
  <2>6. CASE status[r] # "running"
    BY <2>2, <2>3, <2>6 DEF FailureIsExplained
  <2> QED BY <2>5, <2>6
<1>14. ASSUME NEW h \in Handlers,
             \/ \E r \in Runs : RetryFinalization(h, r) \/ CheckDelete(h, r)
             \/ SendMessage(h) \/ SendRaises(h) \/ HandlerDies(h)
      PROVE  FailureIsExplained'
  BY <1>14 DEF RetryFinalization, SendMessage, SendRaises, CheckDelete,
         HandlerDies, FailureIsExplained, StoreOK, WorkersOK, HandlersOK
<1>15. ASSUME NEW w \in Workers,
             \/ \E k \in Kinds, r \in Runs : Receive(w, k, r)
             \/ PublishArtifacts(w) \/ PublishCompletion(w) \/ Acknowledge(w)
             \/ WorkerDies(w) \/ ActorRaises(w)
      PROVE  FailureIsExplained'
  BY <1>15 DEF Receive, PublishArtifacts, PublishCompletion, Acknowledge,
         WorkerDies, ActorRaises, FailureIsExplained
<1> QED BY <1>1, <1>2, <1>3, <1>4, <1>5, <1>6, <1>7, <1>8, <1>9, <1>10, <1>11,
        <1>12, <1>13, <1>14, <1>15
        DEF Next, Request, HandlerStep, WorkerStep

-----------------------------------------------------------------------------
(* The invariant, and what follows from it *)

\* No run is saved, no message sent and every process idle: IInv holds.
LEMMA Initially == Init => IInv
  BY RunsAssumption
     DEF Init, IInv, TypeOK, StoreOK, WorkersOK, HandlersOK, Statuses, StudyStatuses,
         Kinds, QueueSources, WorkerSteps, HandlerSteps, IdleWorker, IdleHandler,
         ExclusiveExecution, Executes, Owning, RunningRunHasWorker,
         QueuedRunHasMessage, QueuedAfterClose, FinalizeAfterClose,
         ProgressIsStored, ResultsBehindStatus, AnnouncedSuccessIsFinal,
         FailureIsExplained

\* Every step, of any process, preserves IInv.
LEMMA Inductive == IInv /\ [Next]_vars => IInv'
<1> SUFFICES ASSUME IInv, [Next]_vars PROVE IInv'
  OBVIOUS
<1>1. CASE Next
  BY <1>1, StoreStep, WorkersStep, HandlersStep, ExclusiveStep, RunningStep,
     QueuedStep, QueuedAfterCloseStep, FinalizeStep, ProgressStep, ResultsStep,
     AnnouncedStep, FailureStep
     DEF IInv, TypeOK
<1>2. CASE UNCHANGED vars
  <2>1. TypeOK'
    BY <1>2 DEF vars, IInv, TypeOK, StoreOK, WorkersOK, HandlersOK
  <2>2. ExclusiveExecution' /\ RunningRunHasWorker'
    BY <1>2 DEF vars, IInv, ExclusiveExecution, RunningRunHasWorker, Executes
  <2>3. QueuedRunHasMessage' /\ QueuedAfterClose' /\ FinalizeAfterClose'
    BY <1>2 DEF vars, IInv, QueuedRunHasMessage, QueuedAfterClose, FinalizeAfterClose
  <2>4. ProgressIsStored' /\ ResultsBehindStatus'
    BY <1>2 DEF vars, IInv, ProgressIsStored, ResultsBehindStatus
  <2>5. AnnouncedSuccessIsFinal' /\ FailureIsExplained'
    BY <1>2 DEF vars, IInv, AnnouncedSuccessIsFinal, FailureIsExplained
  <2> QED BY <2>1, <2>2, <2>3, <2>4, <2>5 DEF IInv
<1> QED BY <1>1, <1>2

\* IInv holds in every reachable state.
THEOREM Invariant == Spec => []IInv
  BY Initially, Inductive, PTL DEF Spec

\* The variables keep their types.
THEOREM TypeCorrect == Spec => []TypeOK
<1>1. IInv => TypeOK
  BY DEF IInv
<1> QED BY <1>1, Invariant, PTL

\* However often messages are delivered, a run is worked on by one worker only,
\* and is RUNNING meanwhile.
THEOREM Exclusive == Spec => []ExclusiveExecution
<1>1. IInv => ExclusiveExecution
  BY DEF IInv
<1> QED BY <1>1, Invariant, PTL

\* No QUEUED run is forgotten by a system whose processes survive.
THEOREM NoLostWakeUp == Spec => []QueuedRunHasMessage
<1>1. IInv => QueuedRunHasMessage
  BY DEF IInv
<1> QED BY <1>1, Invariant, PTL

\* No RUNNING run is forgotten by a system whose workers survive.
THEOREM NoOrphanedRun == Spec => []RunningRunHasWorker
<1>1. IInv => RunningRunHasWorker
  BY DEF IInv
<1> QED BY <1>1, Invariant, PTL

\* The status of a run never claims a result that is not stored.
THEOREM TruthfulStatus == Spec => []ResultsBehindStatus
<1>1. IInv => ResultsBehindStatus
  BY DEF IInv
<1> QED BY <1>1, Invariant, PTL

\* Subscribers are told of success only once it is final.
THEOREM TruthfulAnnouncement == Spec => []AnnouncedSuccessIsFinal
<1>1. IInv => AnnouncedSuccessIsFinal
  BY DEF IInv
<1> QED BY <1>1, Invariant, PTL

\* A failure report goes with FAILED, in both directions before a collection
\* is closed.
THEOREM ExplainedFailure == Spec => []FailureIsExplained
<1>1. IInv => FailureIsExplained
  BY DEF IInv
<1> QED BY <1>1, Invariant, PTL

\* No finalization is on its way before the collection is frozen.
THEOREM NoEarlyFinalization == Spec => []FinalizeAfterClose
<1>1. IInv => FinalizeAfterClose
  BY DEF IInv
<1> QED BY <1>1, Invariant, PTL

-----------------------------------------------------------------------------
(* What no step ever does *)

\* The expected status of a compare-and-set is never COMPLETED or deleted.
LEMMA CompletedStep ==
    ASSUME TypeOK, Next
    PROVE  CompletedStays
<1>1. ASSUME NEW r \in Runs, SaveRun(r) PROVE CompletedStays
  BY <1>1 DEF SaveRun, CompletedStays, QueueSources, Kinds, StoreOK, WorkersOK,
         HandlersOK, TypeOK
<1>2. ASSUME NEW h \in Handlers, NEW source \in Runs, NEW r \in Runs, RetryRun(h, source, r)
      PROVE  CompletedStays
  BY <1>2 DEF RetryRun, CompletedStays, StoreOK, WorkersOK, HandlersOK, TypeOK
<1>3. ASSUME NEW h \in Handlers, NEW r \in Runs, ExecuteRun(h, r) PROVE CompletedStays
  BY <1>3 DEF ExecuteRun, TransitionStatus, CompletedStays, StoreOK, WorkersOK,
         HandlersOK, TypeOK
<1>4. ASSUME NEW h \in Handlers, QueueFinalization(h) PROVE CompletedStays
  BY <1>4 DEF QueueFinalization, TransitionStatus, CompletedStays, QueueSources,
         Kinds, StoreOK, WorkersOK, HandlersOK, TypeOK
<1>5. ASSUME NEW h \in Handlers, RollBack(h) PROVE CompletedStays
  BY <1>5 DEF RollBack, TransitionStatus, CompletedStays, StoreOK, WorkersOK,
         HandlersOK, TypeOK
<1>6. ASSUME NEW h \in Handlers, DeleteRun(h) PROVE CompletedStays
  BY <1>6 DEF DeleteRun, CompletedStays, StoreOK, WorkersOK, HandlersOK, TypeOK
<1>7. ASSUME NEW w \in Workers, Claim(w) PROVE CompletedStays
  BY <1>7 DEF Claim, TransitionStatus, CompletedStays, StoreOK, WorkersOK,
         HandlersOK, TypeOK
<1>8. ASSUME NEW w \in Workers, SettleLaunch(w) PROVE CompletedStays
  BY <1>8 DEF SettleLaunch, TransitionStatus, CompletedStays, StoreOK,
         WorkersOK, HandlersOK, TypeOK
<1>9. ASSUME NEW w \in Workers, SettleFinalize(w) PROVE CompletedStays
  BY <1>9 DEF SettleFinalize, TransitionStatus, CompletedStays, StoreOK,
         WorkersOK, HandlersOK, TypeOK
<1>10. ASSUME NEW w \in Workers, FailRun(w) PROVE CompletedStays
  BY <1>10 DEF FailRun, TransitionStatus, CompletedStays, StoreOK, WorkersOK,
         HandlersOK, TypeOK
<1>11. ASSUME NEW h \in Handlers,
             \/ \E r \in Runs : CloseStudy(h, r) \/ RetryFinalization(h, r) \/ CheckDelete(h, r)
             \/ SendMessage(h) \/ SendRaises(h) \/ HandlerDies(h)
      PROVE  CompletedStays
  BY <1>11 DEF CloseStudy, RetryFinalization, SendMessage, SendRaises,
         CheckDelete, HandlerDies, CompletedStays
<1>12. ASSUME NEW w \in Workers,
             \/ \E k \in Kinds, r \in Runs : Receive(w, k, r)
             \/ TestbenchEnds(w) \/ PublishArtifacts(w) \/ MarkFinalized(w)
             \/ PublishCompletion(w) \/ Acknowledge(w) \/ WorkerDies(w)
             \/ ActorRaises(w)
      PROVE  CompletedStays
  BY <1>12 DEF Receive, TestbenchEnds, PublishArtifacts, MarkFinalized,
         PublishCompletion, Acknowledge, WorkerDies, ActorRaises, CompletedStays
<1> QED BY <1>1, <1>2, <1>3, <1>4, <1>5, <1>6, <1>7, <1>8, <1>9, <1>10, <1>11,
        <1>12
        DEF Next, Request, HandlerStep, WorkerStep

\* Only close_study and mark_finalized change a study that exists.
LEMMA StudyStep ==
    ASSUME TypeOK, Next
    PROVE  StudyAdvances
<1>1. ASSUME NEW h \in Handlers, NEW r \in Runs, CloseStudy(h, r) PROVE StudyAdvances
  BY <1>1 DEF CloseStudy, StudyAdvances, StoreOK, WorkersOK, HandlersOK, TypeOK
<1>2. ASSUME NEW w \in Workers, TestbenchEnds(w) PROVE StudyAdvances
  BY <1>2 DEF TestbenchEnds, StudyAdvances, StoreOK, WorkersOK, HandlersOK,
         TypeOK
<1>3. ASSUME NEW w \in Workers, MarkFinalized(w) PROVE StudyAdvances
  BY <1>3 DEF MarkFinalized, StudyAdvances, StoreOK, WorkersOK, HandlersOK,
         TypeOK
<1>4. ASSUME NEW r \in Runs, SaveRun(r)
      PROVE  StudyAdvances
  BY <1>4 DEF SaveRun, StudyAdvances
<1>5. ASSUME NEW h \in Handlers,
             \/ \E r \in Runs : ExecuteRun(h, r) \/ RetryFinalization(h, r) \/ CheckDelete(h, r)
             \/ \E source, r \in Runs : RetryRun(h, source, r)
             \/ QueueFinalization(h) \/ SendMessage(h) \/ SendRaises(h)
             \/ RollBack(h) \/ DeleteRun(h) \/ HandlerDies(h)
      PROVE  StudyAdvances
  BY <1>5 DEF RetryRun, ExecuteRun, RetryFinalization, QueueFinalization,
         SendMessage, SendRaises, RollBack, CheckDelete, DeleteRun, HandlerDies,
         StudyAdvances
<1>6. ASSUME NEW w \in Workers,
             \/ \E k \in Kinds, r \in Runs : Receive(w, k, r)
             \/ Claim(w) \/ SettleLaunch(w) \/ PublishArtifacts(w)
             \/ SettleFinalize(w) \/ FailRun(w) \/ PublishCompletion(w)
             \/ Acknowledge(w) \/ WorkerDies(w) \/ ActorRaises(w)
      PROVE  StudyAdvances
  BY <1>6 DEF Receive, Claim, SettleLaunch, PublishArtifacts, SettleFinalize,
         FailRun, PublishCompletion, Acknowledge, WorkerDies, ActorRaises,
         StudyAdvances
<1> QED BY <1>1, <1>2, <1>3, <1>4, <1>5, <1>6
        DEF Next, Request, HandlerStep, WorkerStep

\* COMPLETED is left only by deletion, and nothing revives a deleted run.
THEOREM CompletedFinal == Spec => CompletedIsFinal
<1>1. TypeOK /\ [Next]_vars => [CompletedStays]_vars
  BY CompletedStep
<1> QED BY <1>1, TypeCorrect, PTL DEF Spec, CompletedIsFinal, CompletedStays

\* Nothing resets a study.
THEOREM StudyForward == Spec => StudyNeverReset
<1>1. TypeOK /\ [Next]_vars => [StudyAdvances]_vars
  BY StudyStep
<1> QED BY <1>1, TypeCorrect, PTL DEF Spec, StudyNeverReset, StudyAdvances
=============================================================================
