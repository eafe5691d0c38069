----------------------------- MODULE RunProgress -----------------------------
(***************************************************************************)
(* What clients are told of automated runs: the status changes published   *)
(* by the API requests that queue a run (RunsService.execute_run) or take  *)
(* that back, and by the worker that launches it (_launch_run), and the    *)
(* progress the worker samples while a thread of its own runs the          *)
(* testbench.  The samples come from the progress bars of the testbench,   *)
(* which register themselves in two registries of the process              *)
(* (InterceptableTqdm): the active bars, by bar, and the last state of the *)
(* closed ones, by node id.  The testbench derives the id of a node from   *)
(* the settings of its worker and its ancestors: nodes of different runs,  *)
(* such as a failed run and its retry, and equal nodes of one run have the *)
(* same.                                                                   *)
(*                                                                         *)
(* One worker process with several Dramatiq threads, all of whose launches *)
(* are coroutines of one event loop: between two awaits a launch is        *)
(* interrupted by testbench threads, and by no other launch.  Crashes and  *)
(* repeated messages are in module RunLifecycle.                           *)
(***************************************************************************)
EXTENDS Naturals

CONSTANTS Runs,      \* automated runs
          Requests,  \* calls of execute_run
          RunOf,     \* the run of each request
          NodesOf,   \* the testbench nodes of each run, each a node of its own tree
          IdOf,      \* node.get_id() of each node
          Steps,     \* what a bar counts up to
          MaxFaults  \* bound on exceptions of testbenches, publications and sends

Nodes == UNION {NodesOf[r] : r \in Runs}

ProgressConstants ==
    /\ RunOf \in [Requests -> Runs]
    /\ DOMAIN NodesOf = Runs
    /\ \A r, s \in Runs : r # s => NodesOf[r] \cap NodesOf[s] = {}
    /\ DOMAIN IdOf = Nodes
    /\ Steps \in Nat \ {0} /\ MaxFaults \in Nat

\* Definitions whose name starts with Wrong are plausible defects of the
\* definition that follows them.  No specification uses them: each is put in
\* the place of that definition to see that a property notices it.

VARIABLES
    status,      \* of each run in the database
    shown,       \* the last status published of each run
    handler,     \* each request
    queue,       \* requests whose launch message is in the broker
    launch,      \* coroutine of each run
    progress,    \* progress_state of each run: its last message
    thread,      \* testbench thread of each run
    bar,         \* every node's progress bar
    active,      \* _registry: nodes with a registered bar
    closed,      \* _closed_registry: node id -> count of its last closed bar
    beside,      \* history: the runs that were at work in the process with each run
    stray,       \* history: ids of the bars that a reset_all found open
    faults

events    == <<status, shown, handler, queue>>
registry  == <<bar, active, closed>>
history   == <<beside, stray>>
vars == <<events, launch, progress, thread, registry, history, faults>>

Ids == {IdOf[n] : n \in Nodes}
IdsOf(r) == {IdOf[n] : n \in NodesOf[r]}
Empty == [i \in {} |-> 0]
Over(f, g) == [i \in DOMAIN f \cup DOMAIN g |-> IF i \in DOMAIN f THEN f[i] ELSE g[i]]
Counts(S) == UNION {[T -> 0 .. Steps] : T \in SUBSET S}

Order == [CREATED |-> 0, QUEUED |-> 1, RUNNING |-> 2, COMPLETED |-> 3, FAILED |-> 3]

-----------------------------------------------------------------------------
(* State *)

\* pc of a launch: "telling" and "settled" are before a publication, "polling" is
\* the head of the loop, "clearing" and "closing" are reset_all.  listed, copied:
\* what get_all and get_all_closed returned; head: what the bars counted before.
Launch == [pc: {"idle", "telling", "starting", "polling", "listed", "copied", "failing",
                "clearing", "closing", "completing", "settled", "over"},
           listed: SUBSET Nodes, copied: Counts(Ids), head: Counts(Nodes)]
NoLaunch == [pc |-> "idle", listed |-> {}, copied |-> Empty, head |-> Empty]

\* todo: nodes without a bar yet; at: the node whose loop runs, as a set; raised:
\* run_exception; captured: the bars reset_all has yet to close.
Thread == [pc: {"none", "running", "clearing", "closing", "over"}, todo: SUBSET Nodes,
           at: SUBSET Nodes, raised: BOOLEAN, captured: SUBSET Nodes]

\* frozen: closed while its loop goes on; held: its loop has raised, and the
\* traceback refers to it.
Bar == [state: {"none", "open", "frozen", "held", "gone"}, count: 0 .. Steps]

TypeOK ==
    /\ status \in [Runs -> DOMAIN Order]
    /\ shown \in [Runs -> DOMAIN Order]
    /\ handler \in [Requests -> {"idle", "telling", "sending", "recalling", "retelling",
                                "over", "failed"}]
    /\ queue \subseteq Requests
    /\ launch \in [Runs -> Launch]
    /\ progress \in [Runs -> Counts(Ids)]
    /\ thread \in [Runs -> Thread]
    /\ bar \in [Nodes -> Bar]
    /\ active \subseteq {n \in Nodes : bar[n].state \in {"open", "held"}}
    /\ closed \in Counts(Ids)
    /\ beside \in [Runs -> SUBSET Runs]
    /\ stray \subseteq Ids
    /\ faults \in 0 .. MaxFaults

Init ==
    /\ status = [r \in Runs |-> "CREATED"]
    /\ shown = [r \in Runs |-> "CREATED"]
    /\ handler = [q \in Requests |-> "idle"]
    /\ queue = {}
    /\ launch = [r \in Runs |-> NoLaunch]
    /\ progress = [r \in Runs |-> Empty]
    /\ thread = [r \in Runs |-> [pc |-> "none", todo |-> NodesOf[r], at |-> {},
                                 raised |-> FALSE, captured |-> {}]]
    /\ bar = [n \in Nodes |-> [state |-> "none", count |-> 0]]
    /\ active = {}
    /\ closed = Empty
    /\ beside = [r \in Runs |-> {}]
    /\ stray = {}
    /\ faults = 0

Fault == faults < MaxFaults /\ faults' = faults + 1

\* thread.is_alive()
Alive(r) == thread[r].pc \notin {"none", "over"}

-----------------------------------------------------------------------------
(* The requests that queue a run *)

Execute(q) ==
    /\ handler[q] = "idle" /\ status[RunOf[q]] = "CREATED"
    /\ status' = [status EXCEPT ![RunOf[q]] = "QUEUED"]
    /\ handler' = [handler EXCEPT ![q] = "telling"]
    /\ UNCHANGED <<shown, queue, launch, progress, thread, registry, history, faults>>

\* A publication that fails is logged.
Told(r, new) == shown' = [shown EXCEPT ![r] = new] /\ UNCHANGED faults
Untold == Fault /\ UNCHANGED shown

TellQueued(q) ==
    /\ handler[q] = "telling"
    /\ Told(RunOf[q], "QUEUED") \/ Untold
    /\ handler' = [handler EXCEPT ![q] = "sending"]
    /\ UNCHANGED <<status, queue, launch, progress, thread, registry, history>>

WrongSend(q) ==
    /\ handler[q] = "telling"
    /\ queue' = queue \cup {q}
    /\ UNCHANGED <<status, shown, handler, launch, progress, thread, registry, history,
                   faults>>
Send(q) ==
    /\ handler[q] = "sending"
    /\ queue' = queue \cup {q}
    /\ handler' = [handler EXCEPT ![q] = "over"]
    /\ UNCHANGED <<status, shown, launch, progress, thread, registry, history, faults>>

\* send raises, before the broker has the message or after.
SendFails(q) ==
    /\ handler[q] = "sending" /\ Fault
    /\ queue' \in {queue, queue \cup {q}}
    /\ handler' = [handler EXCEPT ![q] = "recalling"]
    /\ UNCHANGED <<status, shown, launch, progress, thread, registry, history>>

\* The run goes back to CREATED, unless a worker has claimed it.
Recall(q) ==
    /\ handler[q] = "recalling"
    /\ LET queued == status[RunOf[q]] = "QUEUED"
       IN /\ status' = [status EXCEPT ![RunOf[q]] = IF queued THEN "CREATED" ELSE @]
          /\ handler' = [handler EXCEPT ![q] = IF queued THEN "retelling" ELSE "failed"]
    /\ UNCHANGED <<shown, queue, launch, progress, thread, registry, history, faults>>

TellCreated(q) ==
    /\ handler[q] = "retelling"
    /\ Told(RunOf[q], "CREATED") \/ Untold
    /\ handler' = [handler EXCEPT ![q] = "failed"]
    /\ UNCHANGED <<status, queue, launch, progress, thread, registry, history>>

-----------------------------------------------------------------------------
(* The registries *)

\* InterceptableTqdm.close of a bar that counts to n.
Close(node, n) ==
    /\ active' = active \ {node}
    /\ closed' = Over([i \in {IdOf[node]} |-> n], closed)

\* reset_all: both registries are cleared under the lock ...
WrongClear ==
    /\ active' = {}
    /\ stray' = stray \cup {IdOf[n] : n \in active}
    /\ UNCHANGED closed
Clear ==
    /\ active' = {}
    /\ closed' = Empty
    /\ stray' = stray \cup {IdOf[n] : n \in active}

\* ... and then the bars that were active are closed, one after the other.
WrongCloseCaptured(node) ==
    /\ active' = active \cup {node}
    /\ closed' = Over([i \in {IdOf[node]} |-> bar[node].count], closed)
    /\ bar' = [bar EXCEPT ![node].state = IF @ = "open" THEN "frozen" ELSE @]
CloseCaptured(node) ==
    /\ Close(node, bar[node].count)
    /\ bar' = [bar EXCEPT ![node].state = IF @ = "open" THEN "frozen" ELSE @]

-----------------------------------------------------------------------------
(* The launch of a run *)

Goto(r, pc) == launch' = [launch EXCEPT ![r].pc = pc]

\* No other launch is between two awaits.
Alone(r) ==
    \A s \in Runs \ {r} : launch[s].pc \notin {"listed", "copied", "closing"}

\* Runs at work in the process; a thread can outlive its launch.
AtWork(r) ==
    \/ Alive(r)
    \/ launch[r].pc \notin {"idle", "telling", "completing", "settled", "over"}
Others(r) == {s \in Runs \ {r} : AtWork(s)}

Claim(q) ==
    /\ q \in queue /\ status[RunOf[q]] = "QUEUED"
    /\ queue' = queue \ {q}
    /\ status' = [status EXCEPT ![RunOf[q]] = "RUNNING"]
    /\ Goto(RunOf[q], "telling")
    /\ UNCHANGED <<shown, handler, progress, thread, registry, history, faults>>

\* The message of a run that is not queued, or not any longer.
Drop(q) ==
    /\ q \in queue /\ status[RunOf[q]] # "QUEUED"
    /\ queue' = queue \ {q}
    /\ UNCHANGED <<status, shown, handler, launch, progress, thread, registry, history,
                   faults>>

TellRunning(r) ==
    /\ launch[r].pc = "telling"
    /\ Told(r, "RUNNING") \/ Untold
    /\ Goto(r, "starting")
    /\ beside' = [s \in Runs |-> IF s = r THEN beside[r] \cup Others(r)
                                 ELSE IF s \in Others(r) THEN beside[s] \cup {r}
                                 ELSE beside[s]]
    /\ UNCHANGED <<status, handler, queue, progress, thread, registry, stray>>

\* The testbench is built, every node gets an entry and the thread starts.
Start(r) ==
    /\ launch[r].pc = "starting" /\ Alone(r)
    /\ Goto(r, "polling")
    /\ progress' = [progress EXCEPT ![r] = [i \in IdsOf(r) |-> 0]]
    /\ thread' = [thread EXCEPT ![r].pc = "running"]
    /\ UNCHANGED <<events, registry, history, faults>>

StartFails(r) ==
    /\ launch[r].pc = "starting" /\ Alone(r) /\ Fault
    /\ Goto(r, "failing")
    /\ UNCHANGED <<events, progress, thread, registry, history>>

\* The first statement of a poll is active = get_all(), the second
\* closed = get_all_closed().
WrongRead(l, statement) ==
    IF statement = 2 THEN [l EXCEPT !.listed = active] ELSE [l EXCEPT !.copied = closed]
Read(l, statement) ==
    IF statement = 1 THEN [l EXCEPT !.listed = active] ELSE [l EXCEPT !.copied = closed]

List(r) ==
    /\ launch[r].pc = "polling" /\ Alone(r) /\ Alive(r)
    /\ launch' = [launch EXCEPT ![r] = [Read(launch[r], 1) EXCEPT
                      !.pc = "listed", !.head = [n \in NodesOf[r] |-> bar[n].count]]]
    /\ UNCHANGED <<events, progress, thread, registry, history, faults>>

Copy(r) ==
    /\ launch[r].pc = "listed"
    /\ launch' = [launch EXCEPT ![r] = [Read(launch[r], 2) EXCEPT !.pc = "copied"]]
    /\ UNCHANGED <<events, progress, thread, registry, history, faults>>

\* The listed bars are read now, the later of two with one id counts, whichever that
\* is; and the closed ones take precedence.
Picks(r) ==
    LET listed == launch[r].listed
    IN {f \in [{IdOf[n] : n \in listed} -> listed] : \A i \in DOMAIN f : IdOf[f[i]] = i}
Merged(r, pick) ==
    Over(launch[r].copied, Over([i \in DOMAIN pick |-> bar[pick[i]].count], progress[r]))

\* The message is published, or fails the launch.
Report(r) ==
    /\ launch[r].pc = "copied"
    /\ \E pick \in Picks(r) : progress' = [progress EXCEPT ![r] = Merged(r, pick)]
    /\ \E sent \in BOOLEAN :
          /\ launch' = [launch EXCEPT ![r] =
                [NoLaunch EXCEPT !.pc = IF sent THEN "polling" ELSE "failing"]]
          /\ IF sent THEN UNCHANGED faults ELSE Fault
    /\ UNCHANGED <<events, thread, registry, history>>

\* The loop ends with the thread.
Join(r) ==
    /\ launch[r].pc = "polling" /\ Alone(r) /\ ~Alive(r)
    /\ Goto(r, IF thread[r].raised THEN "failing" ELSE "clearing")
    /\ UNCHANGED <<events, progress, thread, registry, history, faults>>

\* except: FAILED, published like every status; the completion follows.
Fail(r) ==
    /\ launch[r].pc = "failing"
    /\ \/ /\ status[r] = "RUNNING"
          /\ status' = [status EXCEPT ![r] = "FAILED"]
          /\ UNCHANGED <<launch, shown, faults>>
       \/ /\ status[r] = "FAILED"
          /\ Told(r, "FAILED") \/ Untold
          /\ Goto(r, "clearing")
          /\ UNCHANGED status
    /\ UNCHANGED <<handler, queue, progress, thread, registry, history>>

\* finally: reset_all()
LaunchClears(r) ==
    /\ launch[r].pc = "clearing" /\ Alone(r)
    /\ Clear
    /\ launch' = [launch EXCEPT ![r].pc = "closing", ![r].listed = active]
    /\ UNCHANGED <<events, progress, thread, bar, beside, faults>>

LaunchCloses(r) ==
    /\ launch[r].pc = "closing"
    /\ \/ \E node \in launch[r].listed :
             /\ CloseCaptured(node)
             /\ launch' = [launch EXCEPT ![r].listed = @ \ {node}]
       \/ /\ launch[r].listed = {}
          /\ Goto(r, IF status[r] = "FAILED" THEN "over" ELSE "completing")
          /\ UNCHANGED registry
    /\ UNCHANGED <<events, progress, thread, history, faults>>

Complete(r) ==
    /\ launch[r].pc = "completing"
    /\ status' = [status EXCEPT ![r] = "COMPLETED"]
    /\ Goto(r, "settled")
    /\ UNCHANGED <<shown, handler, queue, progress, thread, registry, history, faults>>

TellCompleted(r) ==
    /\ launch[r].pc = "settled"
    /\ Told(r, "COMPLETED") \/ Untold
    /\ Goto(r, "over")
    /\ UNCHANGED <<status, handler, queue, progress, thread, registry, history>>

-----------------------------------------------------------------------------
(* The testbench thread.  The testbench runs its nodes one after another. *)

Running(r) == thread[r].pc = "running"

OpenBar(r) ==
    /\ Running(r) /\ thread[r].at = {}
    /\ \E node \in thread[r].todo :
          /\ thread' = [thread EXCEPT ![r].todo = @ \ {node}, ![r].at = {node}]
          /\ bar' = [bar EXCEPT ![node].state = "open"]
          /\ active' = active \cup {node}
    /\ UNCHANGED <<events, launch, progress, closed, history, faults>>

Advance(r) ==
    /\ Running(r)
    /\ \E node \in thread[r].at :
          /\ bar[node].state = "open" /\ bar[node].count < Steps
          /\ bar' = [bar EXCEPT ![node].count = @ + 1]
    /\ UNCHANGED <<events, launch, progress, thread, active, closed, history, faults>>

\* The loop is done: tqdm takes over the loop's own count and closes the bar.
CloseBar(r) ==
    /\ Running(r)
    /\ \E node \in thread[r].at :
          /\ thread' = [thread EXCEPT ![r].at = {}]
          /\ bar' = [bar EXCEPT ![node] = [state |-> "gone", count |-> Steps]]
          /\ Close(node, Steps)
    /\ UNCHANGED <<events, launch, progress, history, faults>>

Raise(r) ==
    /\ Running(r) /\ Fault
    /\ thread' = [thread EXCEPT ![r].pc = "clearing", ![r].at = {}, ![r].raised = TRUE]
    /\ bar' = [n \in Nodes |-> IF n \in thread[r].at THEN [bar[n] EXCEPT !.state = "held"]
                                                      ELSE bar[n]]
    /\ UNCHANGED <<events, launch, progress, active, closed, history>>

Finish(r) ==
    /\ Running(r) /\ thread[r].at = {} /\ thread[r].todo = {}
    /\ thread' = [thread EXCEPT ![r].pc = "clearing"]
    /\ UNCHANGED <<events, launch, progress, registry, history, faults>>

ThreadClears(r) ==
    /\ thread[r].pc = "clearing"
    /\ Clear
    /\ thread' = [thread EXCEPT ![r].pc = "closing", ![r].captured = active]
    /\ UNCHANGED <<events, launch, progress, bar, beside, faults>>

ThreadCloses(r) ==
    /\ thread[r].pc = "closing"
    /\ \/ \E node \in thread[r].captured :
             /\ CloseCaptured(node)
             /\ thread' = [thread EXCEPT ![r].captured = @ \ {node}]
       \/ /\ thread[r].captured = {}
          /\ thread' = [thread EXCEPT ![r].pc = "over"]
          /\ UNCHANGED registry
    /\ UNCHANGED <<events, launch, progress, history, faults>>

\* A bar whose loop raised is collected with the traceback, when the launch is
\* over and its exception garbage; tqdm's __del__ closes it again.
Collect(r) ==
    /\ launch[r].pc = "over" /\ ~Alive(r)
    /\ \E node \in NodesOf[r] :
          /\ bar[node].state = "held"
          /\ bar' = [bar EXCEPT ![node].state = "gone"]
          /\ Close(node, bar[node].count)
    /\ UNCHANGED <<events, launch, progress, thread, history, faults>>

-----------------------------------------------------------------------------
(* Specification *)

Handler(q) ==
    \/ Execute(q) \/ TellQueued(q) \/ Send(q) \/ SendFails(q) \/ Recall(q)
    \/ TellCreated(q)
Delivery(q) == Claim(q) \/ Drop(q)
LaunchStep(r) ==
    \/ TellRunning(r) \/ Start(r) \/ StartFails(r)
    \/ List(r) \/ Copy(r) \/ Report(r) \/ Join(r) \/ Fail(r)
    \/ LaunchClears(r) \/ LaunchCloses(r) \/ Complete(r) \/ TellCompleted(r)
ThreadStep(r) ==
    \/ OpenBar(r) \/ Advance(r) \/ CloseBar(r) \/ Raise(r) \/ Finish(r)
    \/ ThreadClears(r) \/ ThreadCloses(r) \/ Collect(r)

Next ==
    \/ \E q \in Requests : Handler(q) \/ Delivery(q)
    \/ \E r \in Runs : LaunchStep(r) \/ ThreadStep(r)

Spec == Init /\ [][Next]_vars

-----------------------------------------------------------------------------
(* Properties *)

\* The ids a message of a run may name: those of its own nodes, of the nodes of runs
\* that were at work beside it, and of bars that a reset found open (one whose loop
\* raised, or that of a thread whose launch failed): such a bar is closed after the
\* registries are cleared, by the reset or when it is collected.
Explained(r) == (UNION {IdsOf(s) : s \in beside[r] \cup {r}}) \cup stray

\* Progress messages of a run name all its nodes, and no node of an earlier run of the
\* process whose bars were closed when the registries were reset.
OwnProgress ==
    \A r \in Runs :
        /\ DOMAIN progress[r] \subseteq Explained(r)
        /\ progress[r] # Empty => IdsOf(r) \subseteq DOMAIN progress[r]

\* "So that the registries (which are class-level, thus shared between different runs
\* in the same process) don't retain state between runs": while no run is at work they
\* hold nothing, but for the last counts of bars that a reset found open, which it
\* closes, or the garbage collector, after clearing them (interceptable_tqdm.py:72).
NothingIsRetained ==
    (\A r \in Runs : ~AtWork(r)) => active = {} /\ DOMAIN closed \subseteq stray

\* "So that an external poller can retrieve the final state of a progress bar even
\* after it has removed itself from the active registry": the last message of a run
\* that is completed shows each of its nodes complete (interceptable_tqdm.py:12).
FinalStatesAreReported ==
    \A r \in Runs : status[r] = "COMPLETED" => progress[r] = [i \in IdsOf(r) |-> Steps]

\* A message is no older than its poll, and true: a node counts at least what its bar
\* counted when the poll began, also one that finished in the middle of the poll and
\* left the active bars, and no more than a bar of the run with that id counts now.
\* Nobody resets the registries while the run is alone in the process; excepted are
\* the ids of bars that an earlier reset found open, the source of a retry among
\* them, whose late count would hide the open bar of the retry.  Not at the end, where
\* the thread clears the registries before the last poll.
PollIsCurrent ==
    [][\A r \in Runs :
          beside[r] = {} /\ launch[r].pc = "copied" /\ launch'[r].pc # "copied"
          /\ Running(r) =>
              \A n \in NodesOf[r] : IdOf[n] \notin stray =>
                  /\ launch[r].head[n] <= progress'[r][IdOf[n]]
                  /\ \E m \in NodesOf[r] : /\ IdOf[m] = IdOf[n]
                                           /\ progress'[r][IdOf[n]] <= bar[m].count]_vars

\* Clients are told of the statuses of a run in the order in which it had them,
\* although API requests and a worker publish them.  Only a request whose send failed
\* can set clients back, to CREATED or to the QUEUED of a later request, which a
\* worker that had the message all the same has overtaken.
SendFailed(r) ==
    \E q \in Requests : RunOf[q] = r /\ handler[q] \in {"recalling", "retelling", "failed"}
EventsInOrder ==
    [][\A r \in Runs : Order[shown'[r]] < Order[shown[r]] =>
                           shown'[r] \in {"CREATED", "QUEUED"} /\ SendFailed(r)]_shown

-----------------------------------------------------------------------------
(* The inductive invariant, proved in RunEvents_proofs *)

\* Until a send fails, one request at a time is on its way, and a status is published
\* after the run has it, by the process whose turn it is.
RequestsTakeTurns(r) ==
    /\ Order[shown[r]] <= Order[status[r]]
    /\ \A q \in Requests : RunOf[q] = r =>
          /\ status[r] = "CREATED" => handler[q] = "idle"
          /\ handler[q] \in {"telling", "sending"} =>
                /\ status[r] = "QUEUED"
                /\ \A p \in Requests \ {q} : RunOf[p] = r => handler[p] = "idle"
StatusFollows(r) ==
    /\ SendFailed(r) \/ RequestsTakeTurns(r)
    /\ Order[shown[r]] <= Order[status[r]] \/ shown[r] = "QUEUED"
    /\ launch[r].pc = "idle" <=> status[r] \in {"CREATED", "QUEUED"}
    /\ launch[r].pc \in {"telling", "starting", "polling", "listed", "copied",
                         "completing"} => status[r] = "RUNNING"
    /\ launch[r].pc \in {"failing", "clearing", "closing"} =>
           status[r] \in {"RUNNING", "FAILED"}
    /\ launch[r].pc = "settled" => status[r] = "COMPLETED"

\* A message in the broker was sent.
MessagesWereSent ==
    \A q \in queue : handler[q] \in {"over", "recalling", "retelling", "failed"}

\* Runs that are at work at the same time know of each other.
OverlapIsNoticed ==
    \A r, s \in Runs : r # s /\ AtWork(r) /\ AtWork(s) => s \in beside[r]

\* A thread starts with all nodes of its run.  Nobody has a bar of a node that it has
\* not come to; the node it is at has a bar, the only one of the run that is registered.
ThreadOwnsItsNodes(r) ==
    /\ launch[r].pc \in {"idle", "telling", "starting"} => thread[r].pc = "none"
    /\ thread[r].pc = "none" => thread[r].todo = NodesOf[r]
    /\ thread[r].todo \cup thread[r].at \subseteq NodesOf[r]
    /\ \A n, m \in thread[r].at : n = m
    /\ \A n \in thread[r].at : bar[n].state \in {"open", "frozen"}
    /\ Running(r) => active \cap NodesOf[r] \subseteq thread[r].at
    /\ \A n \in thread[r].todo :
          /\ bar[n] = [state |-> "none", count |-> 0]
          /\ n \notin active
          /\ \A s \in Runs : n \notin launch[s].listed \cup thread[s].captured

\* A launch that polls has an entry for every node of its run.
Polling(r) == launch[r].pc \in {"polling", "listed", "copied"}
PollsAllNodes(r) == Polling(r) => IdsOf(r) \subseteq DOMAIN progress[r]

\* While a run is alone in the process and its thread runs, each of its nodes is in
\* the registry its bar belongs to, and a poll has it from one of them; excepted are
\* the ids of bars that a reset found open.
Gone(r, i) == \E m \in NodesOf[r] : IdOf[m] = i /\ bar[m].state = "gone"
NodeIsCurrent(r, n) ==
    /\ bar[n].state \in {"none", "open", "gone"}
    /\ bar[n].state = "none" => bar[n].count = 0
    /\ bar[n].state = "open" => n \in active
    /\ bar[n].state = "gone" => bar[n].count = Steps
    /\ IdOf[n] \in DOMAIN closed <=> Gone(r, IdOf[n])
    /\ IdOf[n] \in DOMAIN closed => closed[IdOf[n]] = Steps
    /\ \E m \in NodesOf[r] : /\ IdOf[m] = IdOf[n]
                             /\ progress[r][IdOf[n]] <= bar[m].count
    /\ launch[r].pc # "polling" =>
          n \in DOMAIN launch[r].head /\ launch[r].head[n] <= bar[n].count
    /\ launch[r].pc = "listed" =>
          \/ n \in launch[r].listed \/ launch[r].head[n] = 0
          \/ bar[n].state = "gone"
    /\ launch[r].pc = "copied" =>
          IF IdOf[n] \in DOMAIN launch[r].copied
          THEN launch[r].copied[IdOf[n]] = Steps /\ Gone(r, IdOf[n])
          ELSE n \in launch[r].listed \/ launch[r].head[n] = 0
RegistryIsCurrent ==
    \A r \in Runs :
        Polling(r) /\ Running(r) /\ beside[r] = {} =>
            \A n \in NodesOf[r] : IdOf[n] \notin stray => NodeIsCurrent(r, n)

\* What is registered belongs to a thread that has not cleared the registries yet, or
\* to a bar that a reset found open.
RegistriesAreTidy ==
    /\ \A r \in Runs :
          /\ active \cap NodesOf[r] # {} => thread[r].pc \in {"running", "clearing"}
          /\ \A n \in thread[r].captured : IdOf[n] \in stray
          /\ launch[r].pc = "closing" => \A n \in launch[r].listed : IdOf[n] \in stray
    /\ \A i \in DOMAIN closed \ stray :
          \E r \in Runs : i \in IdsOf(r) /\ thread[r].pc \in {"running", "clearing"}
    /\ \A n \in Nodes :
          /\ bar[n].state = "frozen" => IdOf[n] \in stray
          /\ bar[n].state \in {"open", "held"} => n \in active \/ IdOf[n] \in stray

\* What a launch has polled belongs to its run, or is explained.
PollsOwnNodes(r) ==
    /\ launch[r].pc \in {"listed", "copied"} =>
          /\ launch[r].listed \subseteq UNION {NodesOf[s] : s \in beside[r] \cup {r}}
          /\ Running(r) => \A n, m \in launch[r].listed \cap NodesOf[r] : n = m
    /\ launch[r].pc = "copied" => DOMAIN launch[r].copied \subseteq Explained(r)
    /\ DOMAIN progress[r] \subseteq Explained(r)
    /\ progress[r] # Empty => IdsOf(r) \subseteq DOMAIN progress[r]

IInv ==
    /\ TypeOK
    /\ MessagesWereSent
    /\ \A r \in Runs : /\ StatusFollows(r) /\ ThreadOwnsItsNodes(r)
                       /\ PollsAllNodes(r) /\ PollsOwnNodes(r)
    /\ OverlapIsNoticed
    /\ RegistryIsCurrent
    /\ RegistriesAreTidy
=============================================================================
