---------------------------- MODULE RunLifecycle ----------------------------
(***************************************************************************)
(* The life of a testbench run: the status field of its MongoDB document,  *)
(* the Redis broker, the API handlers that queue, retry, finalize and      *)
(* delete runs (runs_service.py, finalization.py, studies_controller.py),  *)
(* and the Dramatiq workers that launch and finalize them                  *)
(* (runs_actors.py, _launch_run).                                          *)
(*                                                                         *)
(* Every status change is one find_one_and_update on an expected status;   *)
(* nothing else synchronises handlers and workers.  Delivery is at least   *)
(* once: a message is acknowledged only after its actor returned, so a     *)
(* worker that dies, or an actor that raises, has its message delivered    *)
(* again.  A human run has one listening study, whose collection is the    *)
(* subject of module ListeningStudy and which appears here as a status.    *)
(***************************************************************************)
EXTENDS Naturals

CONSTANTS Runs,        \* document ids: those in use and those still to be saved
          HumanRuns,   \* the runs configured with a HumanCalculator
          Workers,     \* worker threads, each processing one message at a time
          Handlers,    \* API request handlers (coroutines)
          NoRun,       \* the run of an idle worker or handler
          MaxFaults    \* bound on the crashes, failed sends and raised exceptions

ASSUME RunsAssumption ==
    /\ HumanRuns \subseteq Runs
    /\ NoRun \notin Runs
    /\ MaxFaults \in Nat

VARIABLES
    status,      \* RunDocument.status; "unsaved" before the insert, "deleted" after
    failure,     \* whether RunDocument.failure holds a failure report
    study,       \* status of the run's listening study document, or "none"
    computed,    \* runs whose testbench results are on disk
    artifacts,   \* runs whose finalized human artifacts are on disk
    broker,      \* number of undelivered messages of each kind for each run
    worker,      \* what each worker is doing
    handler,     \* what each API handler is doing
    announced,   \* history: the outcomes published as run.complete
    abandoned,   \* history: runs whose responsible process was lost by a fault
    faults       \* faults so far

vars == <<status, failure, study, computed, artifacts, broker, worker, handler,
          announced, abandoned, faults>>

Statuses == {"unsaved", "created", "queued", "running", "awaiting_input",
             "failed", "completed", "deleted"}
StudyStatuses == {"none", "collecting", "closed", "finalized"}
Kinds == {"launch", "finalize"}      \* launch_run, finalize_listening_run

\* The statuses an attempt to queue a run starts from and rolls back to.
QueueSources == {"created", "awaiting_input", "failed"}

\* received: message taken.  executing: launch claimed the run.  settling: the
\* testbench ended and the study is stored.  finalizing, published, finalized:
\* the finalize actor's progress.  succeeded, failed: about to publish the
\* outcome.  done: the actor returned, the message is not yet acknowledged.
WorkerSteps == {"idle", "received", "executing", "settling", "finalizing",
                "published", "finalized", "succeeded", "failed", "done"}
Owning == {"executing", "settling", "finalizing", "published", "finalized"}

\* execute: a retry saved its clone.  queueing: about to queue a finalization.
\* sending: the run is QUEUED, its message is not sent.  rollback: the send
\* raised.  deleting: the status check of delete_run passed.
HandlerSteps == {"idle", "execute", "queueing", "sending", "rollback", "deleting"}

IdleWorker  == [pc |-> "idle", kind |-> "launch", run |-> NoRun]
IdleHandler == [pc |-> "idle", run |-> NoRun, from |-> "created"]

StoreOK ==
    /\ status \in [Runs -> Statuses]
    /\ failure \in [Runs -> BOOLEAN]
    /\ study \in [Runs -> StudyStatuses]
    /\ computed \subseteq Runs
    /\ artifacts \subseteq Runs
    /\ broker \in [Kinds -> [Runs -> Nat]]
    /\ announced \in [Runs -> SUBSET BOOLEAN]
    /\ abandoned \subseteq Runs
    /\ faults \in Nat

WorkersOK ==
    /\ worker \in [Workers -> [pc: WorkerSteps, kind: Kinds, run: Runs \cup {NoRun}]]
    /\ \A w \in Workers : worker[w].pc # "idle" => worker[w].run \in Runs

HandlersOK ==
    /\ handler \in [Handlers -> [pc: HandlerSteps, run: Runs \cup {NoRun},
                                 from: QueueSources]]
    /\ \A h \in Handlers : handler[h].pc # "idle" => handler[h].run \in Runs

TypeOK == StoreOK /\ WorkersOK /\ HandlersOK

Init ==
    /\ status = [r \in Runs |-> "unsaved"]
    /\ failure = [r \in Runs |-> FALSE]
    /\ study = [r \in Runs |-> "none"]
    /\ computed = {}
    /\ artifacts = {}
    /\ broker = [k \in Kinds |-> [r \in Runs |-> 0]]
    /\ worker = [w \in Workers |-> IdleWorker]
    /\ handler = [h \in Handlers |-> IdleHandler]
    /\ announced = [r \in Runs |-> {}]
    /\ abandoned = {}
    /\ faults = 0

\* Definitions whose name starts with Wrong are plausible defects of the
\* definition that follows them.  No specification uses them: each is put in
\* the place of that definition to see that a property notices it.

-----------------------------------------------------------------------------
(* The database and the broker *)

WrongUnconditionalUpdate(r, expected, new, report) ==
    /\ status' = [status EXCEPT ![r] = new]
    /\ failure' = [failure EXCEPT ![r] = report]

\* transition_status: the compare-and-set all status changes go through.  The
\* failure field is written on every change, so only the change that carries a
\* report keeps one.
TransitionStatus(r, expected, new, report) ==
    IF status[r] = expected
    THEN /\ status' = [status EXCEPT ![r] = new]
         /\ failure' = [failure EXCEPT ![r] = report]
    ELSE UNCHANGED <<status, failure>>

Enqueue(k, r) == broker' = [broker EXCEPT ![k][r] = @ + 1]

\* The message an attempt started from the given status sends.
MessageOf(from) == IF from = "created" THEN "launch" ELSE "finalize"

GoTo(w, step)    == worker' = [worker EXCEPT ![w].pc = step]
Release(w)       == worker' = [worker EXCEPT ![w] = IdleWorker]
Proceed(h, step) == handler' = [handler EXCEPT ![h].pc = step]
Reply(h)         == handler' = [handler EXCEPT ![h] = IdleHandler]
Start(h, step, r, from) ==
    handler' = [handler EXCEPT ![h] = [pc |-> step, run |-> r, from |-> from]]

Fault == /\ faults < MaxFaults
         /\ faults' = faults + 1

-----------------------------------------------------------------------------
(* API handlers *)

\* save_run: a validated, prepared run is inserted.
SaveRun(r) ==
    /\ status[r] = "unsaved"
    /\ status' = [status EXCEPT ![r] = "created"]
    /\ UNCHANGED <<failure, study, computed, artifacts, broker, worker, handler,
                   announced, abandoned, faults>>

\* retry_run: a clone of a failed run is saved, and the same request goes on to
\* execute it.
RetryRun(h, source, r) ==
    /\ handler[h].pc = "idle"
    /\ status[source] = "failed"
    /\ status[r] = "unsaved"
    /\ (r \in HumanRuns) <=> (source \in HumanRuns)
    /\ status' = [status EXCEPT ![r] = "created"]
    /\ Start(h, "execute", r, "created")
    /\ UNCHANGED <<failure, study, computed, artifacts, broker, worker,
                   announced, abandoned, faults>>

\* execute_run, up to its compare-and-set: asked for by a client, or reached
\* from retry_run.  A run that is not CREATED is refused.
ExecuteRun(h, r) ==
    /\ \/ handler[h].pc = "idle" /\ status[r] = "created"
       \/ handler[h].pc = "execute" /\ handler[h].run = r
    /\ TransitionStatus(r, "created", "queued", FALSE)
    /\ IF status[r] = "created" THEN Start(h, "sending", r, "created") ELSE Reply(h)
    /\ UNCHANGED <<study, computed, artifacts, broker, worker,
                   announced, abandoned, faults>>

\* close_study: the collection is frozen, then the same request tries to queue
\* the finalization of a run that awaits input.
CloseStudy(h, r) ==
    /\ handler[h].pc = "idle"
    /\ study[r] = "collecting"
    /\ study' = [study EXCEPT ![r] = "closed"]
    /\ Start(h, "queueing", r, "awaiting_input")
    /\ UNCHANGED <<status, failure, computed, artifacts, broker, worker,
                   announced, abandoned, faults>>

\* retry_finalization: the status read here decides the expected status.
RetryFinalization(h, r) ==
    /\ handler[h].pc = "idle"
    /\ status[r] \notin {"unsaved", "deleted"}
    /\ Start(h, "queueing", r,
             IF status[r] = "failed" THEN "failed" ELSE "awaiting_input")
    /\ UNCHANGED <<status, failure, study, computed, artifacts, broker, worker,
                   announced, abandoned, faults>>

WrongQueueWhileCollecting(h) ==
    LET r == handler[h].run
        from == handler[h].from
    IN /\ handler[h].pc = "queueing"
       /\ TransitionStatus(r, from, "queued", FALSE)
       /\ IF status[r] = from THEN Proceed(h, "sending") ELSE Reply(h)
       /\ UNCHANGED <<study, computed, artifacts, broker, worker,
                      announced, abandoned, faults>>

\* queue_finalization_if_ready, up to its compare-and-set.
QueueFinalization(h) ==
    LET r == handler[h].run
        from == handler[h].from
        ready == study[r] \in {"closed", "finalized"}
    IN /\ handler[h].pc = "queueing"
       /\ IF ready
          THEN TransitionStatus(r, from, "queued", FALSE)
          ELSE UNCHANGED <<status, failure>>
       /\ IF ready /\ status[r] = from THEN Proceed(h, "sending") ELSE Reply(h)
       /\ UNCHANGED <<study, computed, artifacts, broker, worker,
                      announced, abandoned, faults>>

\* actor.send returned: the message is in the broker, the request is answered.
SendMessage(h) ==
    /\ handler[h].pc = "sending"
    /\ Enqueue(MessageOf(handler[h].from), handler[h].run)
    /\ Reply(h)
    /\ UNCHANGED <<status, failure, study, computed, artifacts, worker,
                   announced, abandoned, faults>>

\* actor.send raised, before or after the broker stored the message.
SendRaises(h) ==
    /\ handler[h].pc = "sending"
    /\ Fault
    /\ \/ Enqueue(MessageOf(handler[h].from), handler[h].run)
       \/ UNCHANGED broker
    /\ Proceed(h, "rollback")
    /\ UNCHANGED <<status, failure, study, computed, artifacts, worker,
                   announced, abandoned>>

WrongNoRollBack(h) ==
    /\ handler[h].pc = "rollback"
    /\ Reply(h)
    /\ UNCHANGED <<status, failure, study, computed, artifacts, broker, worker,
                   announced, abandoned, faults>>

\* The except branch of execute_run and of queue_finalization_if_ready.
RollBack(h) ==
    /\ handler[h].pc = "rollback"
    /\ TransitionStatus(handler[h].run, "queued", handler[h].from, FALSE)
    /\ Reply(h)
    /\ UNCHANGED <<study, computed, artifacts, broker, worker,
                   announced, abandoned, faults>>

\* delete_run reads the status ...
CheckDelete(h, r) ==
    /\ handler[h].pc = "idle"
    /\ status[r] \in {"created", "completed", "failed"}
    /\ Start(h, "deleting", r, "created")
    /\ UNCHANGED <<status, failure, study, computed, artifacts, broker, worker,
                   announced, abandoned, faults>>

\* ... and deletes by id alone, whatever the status is by then.
DeleteRun(h) ==
    LET r == handler[h].run
    IN /\ handler[h].pc = "deleting"
       /\ status' = [status EXCEPT ![r] = "deleted"]
       /\ failure' = [failure EXCEPT ![r] = FALSE]
       /\ Reply(h)
       /\ UNCHANGED <<study, computed, artifacts, broker, worker,
                      announced, abandoned, faults>>

\* The API process stops in the middle of a request.
HandlerDies(h) ==
    /\ handler[h].pc # "idle"
    /\ Fault
    /\ abandoned' = IF handler[h].pc \in {"sending", "rollback"}
                    THEN abandoned \cup {handler[h].run} ELSE abandoned
    /\ Reply(h)
    /\ UNCHANGED <<status, failure, study, computed, artifacts, broker, worker,
                   announced>>

-----------------------------------------------------------------------------
(* Workers *)

Receive(w, k, r) ==
    /\ worker[w].pc = "idle"
    /\ broker[k][r] > 0
    /\ broker' = [broker EXCEPT ![k][r] = @ - 1]
    /\ worker' = [worker EXCEPT ![w] = [pc |-> "received", kind |-> k, run |-> r]]
    /\ UNCHANGED <<status, failure, study, computed, artifacts, handler,
                   announced, abandoned, faults>>

\* Both actors start with the same claim; a lost claim ends the actor.  A run
\* that was deleted is found by neither.
Claim(w) ==
    LET r == worker[w].run
    IN /\ worker[w].pc = "received"
       /\ TransitionStatus(r, "queued", "running", FALSE)
       /\ GoTo(w, IF status[r] # "queued" THEN "done"
                  ELSE IF worker[w].kind = "launch" THEN "executing"
                  ELSE "finalizing")
       /\ UNCHANGED <<study, computed, artifacts, broker, handler,
                      announced, abandoned, faults>>

\* The testbench thread ended without an exception; a human run stores its
\* study unless one exists ($setOnInsert).
TestbenchEnds(w) ==
    LET r == worker[w].run
    IN /\ worker[w].pc = "executing"
       /\ computed' = computed \cup {r}
       /\ study' = IF r \in HumanRuns /\ study[r] = "none"
                   THEN [study EXCEPT ![r] = "collecting"] ELSE study
       /\ GoTo(w, "settling")
       /\ UNCHANGED <<status, failure, artifacts, broker, handler,
                      announced, abandoned, faults>>

WrongHumanRunCompletes(w) ==
    /\ worker[w].pc = "settling"
    /\ TransitionStatus(worker[w].run, "running", "completed", FALSE)
    /\ GoTo(w, "succeeded")
    /\ UNCHANGED <<study, computed, artifacts, broker, handler,
                   announced, abandoned, faults>>

\* The end of _launch_run.  The result of the compare-and-set is ignored: the
\* completion of an automated run is published either way.
SettleLaunch(w) ==
    LET r == worker[w].run
        human == r \in HumanRuns
    IN /\ worker[w].pc = "settling"
       /\ TransitionStatus(r, "running",
                           IF human THEN "awaiting_input" ELSE "completed", FALSE)
       /\ GoTo(w, IF human THEN "done" ELSE "succeeded")
       /\ UNCHANGED <<study, computed, artifacts, broker, handler,
                      announced, abandoned, faults>>

\* publish_final_artifacts: a directory renamed into place, or found there and
\* verified.
PublishArtifacts(w) ==
    LET r == worker[w].run
    IN /\ worker[w].pc = "finalizing"
       /\ study[r] = "closed"
       /\ artifacts' = artifacts \cup {r}
       /\ GoTo(w, "published")
       /\ UNCHANGED <<status, failure, study, computed, broker, handler,
                      announced, abandoned, faults>>

\* mark_finalized, or the skip of a study that is finalized already.
MarkFinalized(w) ==
    LET r == worker[w].run
    IN /\ \/ worker[w].pc = "published" /\ study[r] = "closed"
          \/ worker[w].pc = "finalizing" /\ study[r] = "finalized"
       /\ study' = [study EXCEPT ![r] = "finalized"]
       /\ GoTo(w, "finalized")
       /\ UNCHANGED <<status, failure, computed, artifacts, broker, handler,
                      announced, abandoned, faults>>

\* The end of finalize_listening_run; success is published only by the winner.
SettleFinalize(w) ==
    LET r == worker[w].run
    IN /\ worker[w].pc = "finalized"
       /\ TransitionStatus(r, "running", "completed", FALSE)
       /\ GoTo(w, IF status[r] = "running" THEN "succeeded" ELSE "done")
       /\ UNCHANGED <<study, computed, artifacts, broker, handler,
                      announced, abandoned, faults>>

\* An exception inside either actor's try block: the testbench, the study
\* preparation or the finalization failed, or its last write was stored but
\* the reply was lost.  Only _launch_run attaches a report.
FailRun(w) ==
    LET r == worker[w].run
        launch == worker[w].kind = "launch"
    IN /\ \/ worker[w].pc \in {"executing", "finalizing", "published", "finalized"}
          \/ worker[w].pc = "settling" /\ r \in HumanRuns
       /\ TransitionStatus(r, "running", "failed", launch)
       /\ GoTo(w, "failed")
       /\ UNCHANGED <<study, computed, artifacts, broker, handler,
                      announced, abandoned, faults>>

WrongAlwaysSuccess(w) ==
    /\ worker[w].pc \in {"succeeded", "failed"}
    /\ announced' = [announced EXCEPT ![worker[w].run] = @ \cup {TRUE}]
    /\ GoTo(w, "done")
    /\ UNCHANGED <<status, failure, study, computed, artifacts, broker, handler,
                   abandoned, faults>>

\* _publish_run_completion
PublishCompletion(w) ==
    /\ worker[w].pc \in {"succeeded", "failed"}
    /\ announced' = [announced EXCEPT ![worker[w].run] =
                         @ \cup {worker[w].pc = "succeeded"}]
    /\ GoTo(w, "done")
    /\ UNCHANGED <<status, failure, study, computed, artifacts, broker, handler,
                   abandoned, faults>>

Acknowledge(w) ==
    /\ worker[w].pc = "done"
    /\ Release(w)
    /\ UNCHANGED <<status, failure, study, computed, artifacts, broker, handler,
                   announced, abandoned, faults>>

\* The worker process dies: its unacknowledged message is delivered again.
WorkerDies(w) ==
    /\ worker[w].pc # "idle"
    /\ Fault
    /\ Enqueue(worker[w].kind, worker[w].run)
    /\ abandoned' = IF worker[w].pc \in Owning
                    THEN abandoned \cup {worker[w].run} ELSE abandoned
    /\ Release(w)
    /\ UNCHANGED <<status, failure, study, computed, artifacts, handler, announced>>

\* An exception escapes the actor: the time limit, a database error outside
\* the try block, or a completion that could not be published.  launch_run is
\* retried; finalize_listening_run has max_retries = 0 and is dropped.
ActorRaises(w) ==
    LET m == worker[w]
    IN /\ m.pc \notin {"idle", "done"}
       /\ Fault
       /\ IF m.kind = "launch" THEN Enqueue(m.kind, m.run) ELSE UNCHANGED broker
       /\ abandoned' = IF m.pc \in Owning \/ (m.pc = "received" /\ m.kind = "finalize")
                       THEN abandoned \cup {m.run} ELSE abandoned
       /\ Release(w)
       /\ UNCHANGED <<status, failure, study, computed, artifacts, handler, announced>>

-----------------------------------------------------------------------------

HandlerStep(h) ==
    \/ \E r \in Runs : handler[h].pc = "execute" /\ ExecuteRun(h, r)
    \/ QueueFinalization(h) \/ SendMessage(h) \/ RollBack(h) \/ DeleteRun(h)

Request(h) ==
    \E r \in Runs :
        \/ handler[h].pc = "idle" /\ ExecuteRun(h, r)
        \/ CloseStudy(h, r)
        \/ RetryFinalization(h, r)
        \/ CheckDelete(h, r)
        \/ \E source \in Runs : RetryRun(h, source, r)

WorkerStep(w) ==
    \/ Claim(w)
    \/ TestbenchEnds(w) \/ SettleLaunch(w)
    \/ PublishArtifacts(w) \/ MarkFinalized(w) \/ SettleFinalize(w)
    \/ FailRun(w) \/ PublishCompletion(w) \/ Acknowledge(w)

Next ==
    \/ \E r \in Runs : SaveRun(r)
    \/ \E h \in Handlers : Request(h) \/ HandlerStep(h) \/ SendRaises(h) \/ HandlerDies(h)
    \/ \E w \in Workers : \/ \E k \in Kinds, r \in Runs : Receive(w, k, r)
                          \/ WorkerStep(w) \/ WorkerDies(w) \/ ActorRaises(w)

Spec == Init /\ [][Next]_vars

\* A started request is run to its end, a worker runs the actor it entered, and
\* the broker's queue is first in, first out: no message waits for ever while
\* workers keep becoming idle.  Nobody is obliged to make a request.
Fairness ==
    /\ \A h \in Handlers : WF_vars(HandlerStep(h))
    /\ \A w \in Workers : WF_vars(WorkerStep(w))
    /\ \A k \in Kinds, r \in Runs : SF_vars(\E w \in Workers : Receive(w, k, r))

FairSpec == Spec /\ Fairness

-----------------------------------------------------------------------------
(* Properties *)

Executes(w, r) == worker[w].pc \in Owning /\ worker[w].run = r

\* Between its claim and its outcome a run is worked on by one worker only,
\* however often its messages were delivered and whichever actor they are for,
\* and its status is RUNNING meanwhile (unless it was deleted underneath).
ExclusiveExecution ==
    \A r \in Runs, w \in Workers :
        Executes(w, r) => /\ status[r] \in {"running", "deleted"}
                          /\ \A v \in Workers : Executes(v, r) => v = w

\* A status tells the truth about what is stored: COMPLETED and AWAITING_INPUT
\* runs have their testbench results, a completed human run also its finalized
\* study, a waiting run a study to wait for, and a finalized study its
\* published artifacts, whatever failed or was repeated on the way.
ResultsBehindStatus ==
    \A r \in Runs :
        /\ status[r] \in {"completed", "awaiting_input"} => r \in computed
        /\ status[r] = "completed" /\ r \in HumanRuns => study[r] = "finalized"
        /\ status[r] = "awaiting_input" => study[r] # "none"
        /\ study[r] = "finalized" => r \in artifacts
        /\ study[r] # "none" => r \in HumanRuns \cap computed

\* Once run.complete with success = true was published, the run is COMPLETED
\* and stays so until it is deleted: subscribers are never told too early.
AnnouncedSuccessIsFinal ==
    \A r \in Runs : TRUE \in announced[r] => status[r] \in {"completed", "deleted"}

\* No lost wake-up: a QUEUED run has a message in the broker or in the hands of
\* a worker about to claim it, or a handler that is about to send one or to
\* take the run back, unless the process responsible was lost.
QueuedRunHasMessage ==
    \A r \in Runs : status[r] = "queued" =>
        \/ \E k \in Kinds : broker[k][r] > 0
        \/ \E w \in Workers : worker[w].pc = "received" /\ worker[w].run = r
        \/ \E h \in Handlers : handler[h].pc \in {"sending", "rollback"}
                               /\ handler[h].run = r
        \/ r \in abandoned

\* A RUNNING run has a worker, unless that worker was lost.
RunningRunHasWorker ==
    \A r \in Runs : status[r] = "running" =>
        (\E w \in Workers : Executes(w, r)) \/ r \in abandoned

\* The failure report the dashboard shows belongs to a FAILED run, and a failed
\* run has one unless its collection had already been closed (a finalization
\* fails without a report, and rolling a queued finalization back drops one).
FailureIsExplained ==
    \A r \in Runs :
        /\ failure[r] => status[r] = "failed"
        /\ status[r] = "failed" /\ study[r] \in {"none", "collecting"} => failure[r]

\* A finalization is queued only once the collection is frozen: no finalize
\* message exists for a run whose study still collects or does not exist.
FinalizeAfterClose ==
    \A r \in Runs : study[r] \in {"none", "collecting"} =>
        /\ broker["finalize"][r] = 0
        /\ \A w \in Workers : worker[w].pc # "idle" /\ worker[w].run = r
                               => worker[w].kind = "launch"

\* What the safety of a step rests on.  A handler that queued a finalization saw
\* a frozen study; a worker's progress is matched by what is stored; and the
\* success about to be published is one the database already shows.
QueuedAfterClose ==
    \A h \in Handlers :
        handler[h].pc \in {"sending", "rollback"} /\ handler[h].from # "created"
            => study[handler[h].run] \in {"closed", "finalized"}

ProgressIsStored ==
    \A w \in Workers : LET r == worker[w].run IN
        /\ worker[w].pc = "settling" =>
              r \in computed /\ (r \in HumanRuns => study[r] # "none")
        /\ worker[w].pc = "published" => r \in artifacts
        /\ worker[w].pc = "finalized" => study[r] = "finalized"
        /\ worker[w].pc = "succeeded" => status[r] \in {"completed", "deleted"}

\* The safety invariants together, strengthened until every step preserves them.
\* RunLifecycle_proofs proves that it is inductive for every choice of constants.
IInv ==
    /\ TypeOK
    /\ ExclusiveExecution
    /\ RunningRunHasWorker
    /\ QueuedRunHasMessage
    /\ QueuedAfterClose
    /\ FinalizeAfterClose
    /\ ProgressIsStored
    /\ ResultsBehindStatus
    /\ AnnouncedSuccessIsFinal
    /\ FailureIsExplained

\* COMPLETED is left only by deletion, and nothing revives a deleted run.
CompletedStays ==
    \A r \in Runs : status[r] \in {"completed", "deleted"}
                        => status'[r] \in {status[r], "deleted"}
CompletedIsFinal == [][CompletedStays]_vars

\* "Retries must never replace collection data or reset its revision/state"
\* (studies_repository.py): a study only moves forward.
StudyAdvances ==
    \A r \in Runs :
        /\ study[r] = "collecting" => study'[r] \in {"collecting", "closed"}
        /\ study[r] = "closed" => study'[r] \in {"closed", "finalized"}
        /\ study[r] = "finalized" => study'[r] = "finalized"
StudyNeverReset == [][StudyAdvances]_vars

\* "Frozen human-result publication; never rerun PLC" (finalization.py): once
\* the collection is closed, no worker starts the testbench of the run again.
NeverRerunPLC ==
    [][\A w \in Workers :
          worker[w].pc = "received" /\ worker'[w].pc = "executing"
              => study[worker[w].run] \notin {"closed", "finalized"}]_vars

\* A run that is queued or running comes to rest (or is taken back to CREATED),
\* unless a fault removed the process that worked on it.
ActiveRunSettles ==
    \A r \in Runs :
        status[r] \in {"queued", "running"} ~>
            status[r] \notin {"queued", "running"} \/ r \in abandoned
=============================================================================
