--------------------------- MODULE RunEvents_proofs ---------------------------
(***************************************************************************)
(* What clients are told of runs, proved for any runs, requests, nodes and *)
(* ids of nodes, any number of steps and faults: the order of the          *)
(* statuses, whose nodes a progress message names, how old it may be and   *)
(* how true it is, and what the registries retain.  What is registered     *)
(* belongs to a thread that has not cleared the registries, or has the id  *)
(* of a bar that a reset found open; a run that is alone in its process    *)
(* finds what its own thread put there.  That is the inductive invariant.  *)
(***************************************************************************)
EXTENDS RunEvents, Integers, Sequences, TLAPS

-----------------------------------------------------------------------------
(* Counts *)

LEMMA NodesBelong ==
    /\ \A r \in Runs : NodesOf[r] \subseteq Pub!Nodes /\ Pub!IdsOf(r) \subseteq Pub!Ids
    /\ \A r \in Runs : \A n \in NodesOf[r] : IdOf[n] \in Pub!IdsOf(r)
    /\ \A n \in Pub!Nodes : IdOf[n] \in Pub!Ids
    /\ \A q \in Requests : RunOf[q] \in Runs
    /\ \A n \in Pub!Nodes : \E r \in Runs : n \in NodesOf[r]
    /\ \A r, s \in Runs : r # s => NodesOf[r] \cap NodesOf[s] = {}
    /\ Steps \in Nat /\ Steps > 0 /\ MaxFaults \in Nat
  BY EventsAssumption DEF Pub!ProgressConstants, Pub!Nodes, Pub!Ids, Pub!IdsOf

LEMMA CountsFacts ==
    ASSUME NEW S, NEW f \in Pub!Counts(S)
    PROVE  /\ DOMAIN f \subseteq S /\ f = [n \in DOMAIN f |-> f[n]]
           /\ \A n \in DOMAIN f : f[n] \in 0 .. Steps
<1>1. PICK T \in SUBSET S : f \in [T -> 0 .. Steps]
  BY DEF Pub!Counts
<1> QED BY <1>1

LEMMA IsCounts ==
    ASSUME NEW S, NEW T \in SUBSET S, NEW f \in [T -> 0 .. Steps]
    PROVE  f \in Pub!Counts(S)
  BY DEF Pub!Counts

LEMMA OverFacts ==
    ASSUME NEW f, NEW g
    PROVE  /\ DOMAIN Pub!Over(f, g) = DOMAIN f \cup DOMAIN g
           /\ \A n \in DOMAIN f : Pub!Over(f, g)[n] = f[n]
           /\ \A n \in DOMAIN g \ DOMAIN f : Pub!Over(f, g)[n] = g[n]
  BY DEF Pub!Over

LEMMA OverCounts ==
    ASSUME NEW S, NEW f \in Pub!Counts(S), NEW g \in Pub!Counts(S)
    PROVE  Pub!Over(f, g) \in Pub!Counts(S)
<1> DEFINE T == DOMAIN f \cup DOMAIN g
<1>1. T \in SUBSET S
  BY CountsFacts
<1>2. Pub!Over(f, g) \in [T -> 0 .. Steps]
  BY CountsFacts DEF Pub!Over
<1> HIDE DEF T
<1> QED BY <1>1, <1>2, IsCounts

LEMMA EmptyCounts == DOMAIN Pub!Empty = {} /\ \A S : Pub!Empty \in Pub!Counts(S)
<1>1. DOMAIN Pub!Empty = {} /\ Pub!Empty \in [{} -> 0 .. Steps]
  BY DEF Pub!Empty
<1>2. ASSUME NEW S
      PROVE  Pub!Empty \in Pub!Counts(S)
  <2>1. {} \in SUBSET S
    OBVIOUS
  <2> QED BY <1>1, <2>1, IsCounts
<1> QED BY <1>1, <1>2

LEMMA SingleCounts ==
    ASSUME NEW x \in Pub!Ids, NEW c \in 0 .. Steps, NEW f \in Pub!Counts(Pub!Ids)
    PROVE  /\ Pub!Over([i \in {x} |-> c], f) \in Pub!Counts(Pub!Ids)
           /\ DOMAIN Pub!Over([i \in {x} |-> c], f) = DOMAIN f \cup {x}
           /\ Pub!Over([i \in {x} |-> c], f)[x] = c
           /\ \A n \in DOMAIN f \ {x} : Pub!Over([i \in {x} |-> c], f)[n] = f[n]
<1> DEFINE e == [i \in {x} |-> c]
<1>1. e \in Pub!Counts(Pub!Ids)
  <2>1. {x} \in SUBSET Pub!Ids /\ e \in [{x} -> 0 .. Steps]
    OBVIOUS
  <2> HIDE DEF e
  <2> QED BY <2>1, IsCounts
<1>2. DOMAIN e = {x} /\ e[x] = c
  OBVIOUS
<1> HIDE DEF e
<1>3. /\ Pub!Over(e, f) \in Pub!Counts(Pub!Ids)
      /\ DOMAIN Pub!Over(e, f) = DOMAIN f \cup {x}
      /\ Pub!Over(e, f)[x] = c
      /\ \A n \in DOMAIN f \ {x} : Pub!Over(e, f)[n] = f[n]
  <2>1. Pub!Over(e, f) \in Pub!Counts(Pub!Ids)
    BY <1>1, OverCounts
  <2>2. DOMAIN Pub!Over(e, f) = DOMAIN e \cup DOMAIN f
        /\ Pub!Over(e, f)[x] = e[x]
    <3>1. x \in DOMAIN e
      BY <1>2
    <3> QED BY <3>1, OverFacts
  <2>3. \A n \in DOMAIN f \ DOMAIN e : Pub!Over(e, f)[n] = f[n]
    BY OverFacts
  <2> QED BY <1>2, <2>1, <2>2, <2>3
<1> QED BY <1>3 DEF e

LEMMA OrderFacts ==
    /\ Pub!Order["CREATED"] = 0 /\ Pub!Order["QUEUED"] = 1 /\ Pub!Order["RUNNING"] = 2
    /\ Pub!Order["COMPLETED"] = 3 /\ Pub!Order["FAILED"] = 3
    /\ DOMAIN Pub!Order = {"CREATED", "QUEUED", "RUNNING", "COMPLETED", "FAILED"}
    /\ \A x \in DOMAIN Pub!Order : Pub!Order[x] \in 0 .. 3
  BY DEF Pub!Order

-----------------------------------------------------------------------------
(* The records of launches and threads *)

LaunchPCs == {"idle", "telling", "starting", "polling", "listed", "copied", "failing",
              "clearing", "closing", "completing", "settled", "over"}

\* Only the launch of r takes a step, and only the thread of r.
LaunchMoves(r) ==
    /\ launch' \in [Runs -> Pub!Launch]
    /\ \A s \in Runs : s # r => launch'[s] = launch[s]
ThreadMoves(r) ==
    /\ thread' \in [Runs -> Pub!Thread]
    /\ \A s \in Runs : s # r => thread'[s] = thread[s]

\* It goes on at pc and knows what it knew.
GoesTo(r, pc) ==
    /\ LaunchMoves(r) /\ launch'[r].pc = pc /\ launch'[r].listed = launch[r].listed
    /\ launch'[r].copied = launch[r].copied /\ launch'[r].head = launch[r].head

LEMMA LaunchFields ==
    ASSUME NEW l \in Pub!Launch
    PROVE  /\ l.pc \in LaunchPCs /\ l.listed \subseteq Pub!Nodes
           /\ l.copied \in Pub!Counts(Pub!Ids) /\ l.head \in Pub!Counts(Pub!Nodes)
  BY DEF Pub!Launch, LaunchPCs

LEMMA ThreadFields ==
    ASSUME NEW t \in Pub!Thread
    PROVE  /\ t.pc \in {"none", "running", "clearing", "closing", "over"}
           /\ t.todo \subseteq Pub!Nodes /\ t.at \subseteq Pub!Nodes
           /\ t.raised \in BOOLEAN /\ t.captured \subseteq Pub!Nodes
  BY DEF Pub!Thread

LEMMA GotoFacts ==
    ASSUME launch \in [Runs -> Pub!Launch], NEW r \in Runs, NEW pc \in LaunchPCs,
           Pub!Goto(r, pc)
    PROVE  GoesTo(r, pc)
<1> DEFINE l == launch[r]  m == [l EXCEPT !.pc = pc]
<1>1. l \in Pub!Launch
  OBVIOUS
<1>2. m \in Pub!Launch /\ m.pc = pc /\ m.listed = l.listed /\ m.copied = l.copied
      /\ m.head = l.head
  BY <1>1 DEF Pub!Launch, LaunchPCs
<1>3. launch' = [launch EXCEPT ![r] = m]
  BY DEF Pub!Goto
<1> HIDE DEF m
<1> QED BY <1>2, <1>3 DEF GoesTo, LaunchMoves

LEMMA ListFacts ==
    ASSUME launch \in [Runs -> Pub!Launch], NEW r \in Runs, active \subseteq Pub!Nodes,
           NEW h \in Pub!Counts(Pub!Nodes),
           launch' = [launch EXCEPT ![r] = [Pub!Read(launch[r], 1) EXCEPT !.pc = "listed",
                                                                       !.head = h]]
    PROVE  /\ LaunchMoves(r) /\ launch'[r].pc = "listed" /\ launch'[r].listed = active
           /\ launch'[r].copied = launch[r].copied /\ launch'[r].head = h
<1> DEFINE l == launch[r]
           s == [l EXCEPT !.listed = active]
           m == [s EXCEPT !.pc = "listed", !.head = h]
<1>1. l \in Pub!Launch
  OBVIOUS
<1>2. s \in Pub!Launch /\ s.listed = active /\ s.copied = l.copied
  BY <1>1 DEF Pub!Launch
<1>3. launch' = [launch EXCEPT ![r] = m]
  BY DEF Pub!Read
<1> HIDE DEF s
<1>4. m \in Pub!Launch /\ m.pc = "listed" /\ m.listed = s.listed /\ m.copied = s.copied
      /\ m.head = h
  BY <1>2 DEF Pub!Launch
<1> HIDE DEF m
<1>5. LaunchMoves(r) /\ launch'[r] = m
  <2> HIDE DEF l
  <2> QED BY <1>3, <1>4, ZenonT(60) DEF LaunchMoves
<1> QED BY <1>2, <1>4, <1>5

LEMMA CopyFacts ==
    ASSUME launch \in [Runs -> Pub!Launch], NEW r \in Runs, closed \in Pub!Counts(Pub!Ids),
           launch' = [launch EXCEPT ![r] = [Pub!Read(launch[r], 2) EXCEPT !.pc = "copied"]]
    PROVE  /\ LaunchMoves(r) /\ launch'[r].pc = "copied" /\ launch'[r].copied = closed
           /\ launch'[r].listed = launch[r].listed /\ launch'[r].head = launch[r].head
<1> DEFINE l == launch[r]
           s == [l EXCEPT !.copied = closed]
           m == [s EXCEPT !.pc = "copied"]
<1>1. l \in Pub!Launch
  OBVIOUS
<1>2. s \in Pub!Launch /\ s.copied = closed /\ s.listed = l.listed /\ s.head = l.head
  BY <1>1 DEF Pub!Launch
<1>3. launch' = [launch EXCEPT ![r] = m]
  BY DEF Pub!Read
<1> HIDE DEF s
<1>4. m \in Pub!Launch /\ m.pc = "copied" /\ m.copied = s.copied /\ m.listed = s.listed
      /\ m.head = s.head
  BY <1>2 DEF Pub!Launch
<1> HIDE DEF m
<1>5. LaunchMoves(r) /\ launch'[r] = m
  <2> HIDE DEF l
  <2> QED BY <1>3, <1>4, ZenonT(60) DEF LaunchMoves
<1> QED BY <1>2, <1>4, <1>5

LEMMA ReportFacts ==
    ASSUME launch \in [Runs -> Pub!Launch], NEW r \in Runs, NEW pc \in LaunchPCs,
           launch' = [launch EXCEPT ![r] = [Pub!NoLaunch EXCEPT !.pc = pc]]
    PROVE  /\ LaunchMoves(r) /\ launch'[r].pc = pc /\ launch'[r].listed = {}
           /\ launch'[r].copied = Pub!Empty
<1> DEFINE m == [Pub!NoLaunch EXCEPT !.pc = pc]
<1>2. m \in Pub!Launch /\ m.pc = pc /\ m.listed = {} /\ m.copied = Pub!Empty
  BY EmptyCounts DEF Pub!Launch, Pub!NoLaunch, LaunchPCs
<1>3. launch' = [launch EXCEPT ![r] = m]
  OBVIOUS
<1> HIDE DEF m
<1> QED BY <1>2, <1>3 DEF LaunchMoves

\* A launch clears: it is to close the bars it has found.
LEMMA LaunchClearsFacts ==
    ASSUME launch \in [Runs -> Pub!Launch], NEW r \in Runs, NEW L, L \subseteq Pub!Nodes,
           launch' = [launch EXCEPT ![r].pc = "closing", ![r].listed = L]
    PROVE  /\ LaunchMoves(r) /\ launch'[r].pc = "closing" /\ launch'[r].listed = L
           /\ launch'[r].copied = launch[r].copied
<1> DEFINE l == launch[r]
           m == [l EXCEPT !.pc = "closing", !.listed = L]
<1>1. l \in Pub!Launch
  OBVIOUS
<1>2. m \in Pub!Launch /\ m.pc = "closing" /\ m.listed = L /\ m.copied = l.copied
  BY <1>1 DEF Pub!Launch
<1>3. launch' = [launch EXCEPT ![r] = m]
  OBVIOUS
<1> HIDE DEF m
<1> QED BY <1>2, <1>3 DEF LaunchMoves

LEMMA LaunchClosesFacts ==
    ASSUME launch \in [Runs -> Pub!Launch], NEW r \in Runs, NEW node,
           launch' = [launch EXCEPT ![r].listed = @ \ {node}]
    PROVE  /\ LaunchMoves(r) /\ launch'[r].pc = launch[r].pc
           /\ launch'[r].listed = launch[r].listed \ {node}
           /\ launch'[r].copied = launch[r].copied
<1> DEFINE l == launch[r]
           m == [l EXCEPT !.listed = @ \ {node}]
<1>1. l \in Pub!Launch
  OBVIOUS
<1>2. m \in Pub!Launch /\ m.pc = l.pc /\ m.listed = l.listed \ {node}
      /\ m.copied = l.copied
  BY <1>1 DEF Pub!Launch
<1>3. launch' = [launch EXCEPT ![r] = m]
  OBVIOUS
<1> HIDE DEF m
<1> QED BY <1>2, <1>3 DEF LaunchMoves

\* What a thread's step changes: it is at pc, has todo before it, is at the nodes at
\* and is to close the bars captured.
ThreadAt(r, pc, todo, at, captured) ==
    /\ ThreadMoves(r) /\ thread'[r].pc = pc /\ thread'[r].todo = todo
    /\ thread'[r].at = at /\ thread'[r].captured = captured

LEMMA ThreadFacts ==
    ASSUME thread \in [Runs -> Pub!Thread], NEW r \in Runs
    PROVE  LET t == thread[r]
           IN /\ \A pc \in {"running", "clearing", "over"} :
                    thread' = [thread EXCEPT ![r].pc = pc] =>
                        ThreadAt(r, pc, t.todo, t.at, t.captured)
              /\ \A node :
                    thread' = [thread EXCEPT ![r].todo = @ \ {node}, ![r].at = {node}]
                        /\ node \in Pub!Nodes =>
                        ThreadAt(r, t.pc, t.todo \ {node}, {node}, t.captured)
              /\ thread' = [thread EXCEPT ![r].at = {}] =>
                     ThreadAt(r, t.pc, t.todo, {}, t.captured)
              /\ \A C \in SUBSET Pub!Nodes :
                    thread' = [thread EXCEPT ![r].pc = "closing", ![r].captured = C] =>
                        ThreadAt(r, "closing", t.todo, t.at, C)
              /\ \A node :
                    thread' = [thread EXCEPT ![r].captured = @ \ {node}] =>
                        ThreadAt(r, t.pc, t.todo, t.at, t.captured \ {node})
              /\ thread' = [thread EXCEPT ![r].pc = "clearing", ![r].at = {},
                                          ![r].raised = TRUE] =>
                     ThreadAt(r, "clearing", t.todo, {}, t.captured)
<1> DEFINE t == thread[r]
<1>0. t \in Pub!Thread
  OBVIOUS
<1>a. ASSUME NEW m \in Pub!Thread, thread' = [thread EXCEPT ![r] = m]
      PROVE  ThreadAt(r, m.pc, m.todo, m.at, m.captured)
  BY <1>a DEF ThreadAt, ThreadMoves
<1>1. ASSUME NEW pc \in {"running", "clearing", "over"},
             thread' = [thread EXCEPT ![r].pc = pc]
      PROVE  ThreadAt(r, pc, t.todo, t.at, t.captured)
  <2> DEFINE m == [t EXCEPT !.pc = pc]
  <2>1. m \in Pub!Thread /\ m.pc = pc /\ m.todo = t.todo /\ m.at = t.at
        /\ m.captured = t.captured
    BY <1>0 DEF Pub!Thread
  <2>2. thread' = [thread EXCEPT ![r] = m]
    BY <1>1
  <2> HIDE DEF m
  <2> QED BY <1>a, <2>1, <2>2
<1>2. ASSUME NEW node \in Pub!Nodes,
             thread' = [thread EXCEPT ![r].todo = @ \ {node}, ![r].at = {node}]
      PROVE  ThreadAt(r, t.pc, t.todo \ {node}, {node}, t.captured)
  <2> DEFINE m == [t EXCEPT !.todo = @ \ {node}, !.at = {node}]
  <2>1. m \in Pub!Thread /\ m.pc = t.pc /\ m.todo = t.todo \ {node} /\ m.at = {node}
        /\ m.captured = t.captured
    BY <1>0 DEF Pub!Thread
  <2>2. thread' = [thread EXCEPT ![r] = m]
    BY <1>2
  <2> HIDE DEF m
  <2> QED BY <1>a, <2>1, <2>2
<1>3. ASSUME thread' = [thread EXCEPT ![r].at = {}]
      PROVE  ThreadAt(r, t.pc, t.todo, {}, t.captured)
  <2> DEFINE m == [t EXCEPT !.at = {}]
  <2>1. m \in Pub!Thread /\ m.pc = t.pc /\ m.todo = t.todo /\ m.at = {}
        /\ m.captured = t.captured
    BY <1>0 DEF Pub!Thread
  <2>2. thread' = [thread EXCEPT ![r] = m]
    BY <1>3
  <2> HIDE DEF m
  <2> QED BY <1>a, <2>1, <2>2
<1>4. ASSUME NEW C \in SUBSET Pub!Nodes,
             thread' = [thread EXCEPT ![r].pc = "closing", ![r].captured = C]
      PROVE  ThreadAt(r, "closing", t.todo, t.at, C)
  <2> DEFINE m == [t EXCEPT !.pc = "closing", !.captured = C]
  <2>1. m \in Pub!Thread /\ m.pc = "closing" /\ m.todo = t.todo /\ m.at = t.at
        /\ m.captured = C
    BY <1>0 DEF Pub!Thread
  <2>2. thread' = [thread EXCEPT ![r] = m]
    BY <1>4
  <2> HIDE DEF m
  <2> QED BY <1>a, <2>1, <2>2
<1>5. ASSUME NEW node, thread' = [thread EXCEPT ![r].captured = @ \ {node}]
      PROVE  ThreadAt(r, t.pc, t.todo, t.at, t.captured \ {node})
  <2> DEFINE m == [t EXCEPT !.captured = @ \ {node}]
  <2>1. m \in Pub!Thread /\ m.pc = t.pc /\ m.todo = t.todo /\ m.at = t.at
        /\ m.captured = t.captured \ {node}
    BY <1>0 DEF Pub!Thread
  <2>2. thread' = [thread EXCEPT ![r] = m]
    BY <1>5
  <2> HIDE DEF m
  <2> QED BY <1>a, <2>1, <2>2
<1>6. ASSUME thread' = [thread EXCEPT ![r].pc = "clearing", ![r].at = {},
                                      ![r].raised = TRUE]
      PROVE  ThreadAt(r, "clearing", t.todo, {}, t.captured)
  <2> DEFINE s == [t EXCEPT !.pc = "clearing", !.at = {}]
             m == [s EXCEPT !.raised = TRUE]
  <2>1. s \in Pub!Thread /\ s.pc = "clearing" /\ s.todo = t.todo /\ s.at = {}
        /\ s.captured = t.captured
    BY <1>0 DEF Pub!Thread
  <2>2. thread' = [thread EXCEPT ![r] = m]
    BY <1>6
  <2> HIDE DEF s
  <2>3. m \in Pub!Thread /\ m.pc = s.pc /\ m.todo = s.todo /\ m.at = s.at
        /\ m.captured = s.captured
    BY <2>1 DEF Pub!Thread
  <2> HIDE DEF m
  <2> QED BY <1>a, <2>1, <2>2, <2>3
<1> HIDE DEF t
<1> QED BY <1>1, <1>2, <1>3, <1>4, <1>5, <1>6 DEF t

-----------------------------------------------------------------------------
(* Types *)

LEMMA Types ==
    ASSUME Pub!TypeOK
    PROVE  /\ status \in [Runs -> DOMAIN Pub!Order] /\ shown \in [Runs -> DOMAIN Pub!Order]
           /\ handler \in [Requests -> {"idle", "telling", "sending", "recalling",
                                                "retelling", "over", "failed"}]
           /\ queue \subseteq Requests /\ launch \in [Runs -> Pub!Launch]
           /\ progress \in [Runs -> Pub!Counts(Pub!Ids)] /\ thread \in [Runs -> Pub!Thread]
           /\ bar \in [Pub!Nodes -> Pub!Bar]
           /\ active \subseteq {n \in Pub!Nodes : bar[n].state \in {"open", "held"}}
           /\ active \subseteq Pub!Nodes
           /\ closed \in Pub!Counts(Pub!Ids) /\ beside \in [Runs -> SUBSET Runs]
           /\ stray \subseteq Pub!Ids
           /\ faults \in 0 .. MaxFaults
  BY DEF Pub!TypeOK

LEMMA FaultFacts ==
    ASSUME Pub!TypeOK, Pub!Fault \/ UNCHANGED faults
    PROVE  faults' \in 0 .. MaxFaults
  BY Types, NodesBelong DEF Pub!Fault

LEMMA ToldFacts ==
    ASSUME Pub!TypeOK, NEW r \in Runs, NEW new \in DOMAIN Pub!Order,
           Pub!Told(r, new) \/ Pub!Untold
    PROVE  /\ shown' \in [Runs -> DOMAIN Pub!Order] /\ faults' \in 0 .. MaxFaults
           /\ shown'[r] \in {new, shown[r]} /\ \A s \in Runs : s # r => shown'[s] = shown[s]
  BY Types, FaultFacts DEF Pub!Told, Pub!Untold

\* The variables that only the handler and the announcements of a launch change.
EventTypes ==
    /\ status' \in [Runs -> DOMAIN Pub!Order] /\ shown' \in [Runs -> DOMAIN Pub!Order]
    /\ handler' \in [Requests -> {"idle", "telling", "sending", "recalling", "retelling",
                                 "over", "failed"}]
    /\ queue' \subseteq Requests

LEMMA BarTypes ==
    ASSUME Pub!TypeOK, NEW n \in Pub!Nodes
    PROVE  /\ bar[n] \in Pub!Bar
           /\ bar[n].state \in {"none", "open", "frozen", "held", "gone"}
           /\ bar[n].count \in 0 .. Steps
  BY Types DEF Pub!Bar

\* A closed bar is registered as closed with its count, and its loop may go on.
LEMMA ClosedFacts ==
    ASSUME Pub!TypeOK, NEW node \in Pub!Nodes, Pub!CloseCaptured(node)
    PROVE  /\ bar' \in [Pub!Nodes -> Pub!Bar]
           /\ active' = active \ {node}
           /\ active' \subseteq {n \in Pub!Nodes : bar'[n].state \in {"open", "held"}}
           /\ closed' \in Pub!Counts(Pub!Ids) /\ DOMAIN closed' = DOMAIN closed \cup {IdOf[node]}
           /\ closed'[IdOf[node]] = bar[node].count
           /\ \A n \in DOMAIN closed \ {IdOf[node]} : closed'[n] = closed[n]
           /\ \A n \in Pub!Nodes : n # node => bar'[n] = bar[n]
           /\ bar'[node].count = bar[node].count
           /\ bar'[node].state = IF bar[node].state = "open" THEN "frozen"
                                                         ELSE bar[node].state
<1>1. /\ bar[node] \in Pub!Bar /\ bar[node].count \in 0 .. Steps
  BY BarTypes
<1>2. /\ active' = active \ {node}
      /\ closed' = Pub!Over([i \in {IdOf[node]} |-> bar[node].count], closed)
      /\ bar' = [bar EXCEPT ![node].state = IF @ = "open" THEN "frozen" ELSE @]
  BY DEF Pub!CloseCaptured, Pub!Close
<1>3. /\ closed' \in Pub!Counts(Pub!Ids) /\ DOMAIN closed' = DOMAIN closed \cup {IdOf[node]}
      /\ closed'[IdOf[node]] = bar[node].count
      /\ \A n \in DOMAIN closed \ {IdOf[node]} : closed'[n] = closed[n]
  <2>1. PICK c \in 0 .. Steps : c = bar[node].count
    BY <1>1
  <2>2. PICK f \in Pub!Counts(Pub!Ids) : f = closed
    BY Types
  <2>3. PICK x \in Pub!Ids : x = IdOf[node]
    BY NodesBelong
  <2> DEFINE g == Pub!Over([i \in {x} |-> c], f)
  <2>4. closed' = g
    BY <1>2, <2>1, <2>2, <2>3
  <2>5. /\ g \in Pub!Counts(Pub!Ids) /\ DOMAIN g = DOMAIN f \cup {x} /\ g[x] = c
        /\ \A n \in DOMAIN f \ {x} : g[n] = f[n]
    BY SingleCounts, ZenonT(60)
  <2> HIDE DEF g
  <2> QED BY <2>1, <2>2, <2>3, <2>4, <2>5
<1>4. /\ bar' \in [Pub!Nodes -> Pub!Bar]
      /\ \A n \in Pub!Nodes : n # node => bar'[n] = bar[n]
      /\ bar'[node].count = bar[node].count
      /\ bar'[node].state = IF bar[node].state = "open" THEN "frozen" ELSE bar[node].state
  BY <1>1, <1>2, Types DEF Pub!Bar
<1> QED BY <1>2, <1>3, <1>4, Types

LEMMA ClearFacts ==
    ASSUME Pub!TypeOK, Pub!Clear
    PROVE  /\ active' = {} /\ closed' = Pub!Empty /\ closed' \in Pub!Counts(Pub!Ids)
           /\ DOMAIN closed' = {} /\ stray' \subseteq Pub!Ids /\ stray \subseteq stray'
           /\ \A n \in active : IdOf[n] \in stray'
  BY EmptyCounts, Types, NodesBelong DEF Pub!Clear

-----------------------------------------------------------------------------
(* What each step does *)

\* Runs hear of others.
Grows ==
    /\ beside' \in [Runs -> SUBSET Runs]
    /\ \A s \in Runs : beside[s] \subseteq beside'[s]

\* Steps that only concern the statuses: the launch of r may go on to pc.
EventStep(r, pc) ==
    /\ GoesTo(r, pc)
    /\ UNCHANGED <<progress, thread, Pub!registry, stray>> /\ Grows
    /\ pc \notin {"idle", "polling", "listed", "copied", "closing"}
    /\ pc \in {"telling", "starting"} => launch[r].pc \in {"idle", "telling"}

LEMMA HandlerStep ==
    ASSUME Pub!TypeOK, NEW q \in Requests, Pub!Handler(q)
    PROVE  /\ UNCHANGED <<launch, progress, thread, Pub!registry, Pub!history>>
           /\ EventTypes /\ faults' \in 0 .. MaxFaults
<1>0. RunOf[q] \in Runs
  BY NodesBelong
<1>1. CASE Pub!Execute(q)
  BY <1>0, <1>1, Types, OrderFacts DEF Pub!Execute, EventTypes
<1>2. CASE Pub!TellQueued(q)
  BY <1>0, <1>2, Types, OrderFacts, ToldFacts DEF Pub!TellQueued, EventTypes
<1>3. CASE Pub!Send(q)
  BY <1>3, Types DEF Pub!Send, EventTypes
<1>4. CASE Pub!SendFails(q)
  BY <1>4, Types, FaultFacts DEF Pub!SendFails, EventTypes
<1>5. CASE Pub!Recall(q)
  BY <1>0, <1>5, Types, OrderFacts DEF Pub!Recall, EventTypes
<1>6. CASE Pub!TellCreated(q)
  BY <1>0, <1>6, Types, OrderFacts, ToldFacts DEF Pub!TellCreated, EventTypes
<1> QED BY <1>1, <1>2, <1>3, <1>4, <1>5, <1>6 DEF Pub!Handler

LEMMA ClaimStep ==
    ASSUME Pub!TypeOK, NEW q \in Requests, Pub!Claim(q), Pub!StatusFollows(RunOf[q])
    PROVE  /\ EventStep(RunOf[q], "telling") /\ beside' = beside
           /\ EventTypes /\ faults' \in 0 .. MaxFaults
<1>0. PICK r \in Runs : r = RunOf[q]
  BY NodesBelong
<1>1. GoesTo(r, "telling")
  BY <1>0, Types, GotoFacts DEF Pub!Claim, LaunchPCs
<1>2. launch[r].pc = "idle"
  BY <1>0 DEF Pub!Claim, Pub!StatusFollows
<1> QED BY <1>0, <1>1, <1>2, Types, OrderFacts
        DEF Pub!Claim, EventTypes, EventStep, Grows, Pub!history

LEMMA DropStep ==
    ASSUME Pub!TypeOK, NEW q \in Requests, Pub!Drop(q)
    PROVE  /\ UNCHANGED <<launch, progress, thread, Pub!registry, Pub!history>>
           /\ EventTypes /\ faults' \in 0 .. MaxFaults
  BY Types DEF Pub!Drop, EventTypes

LEMMA TellRunningStep ==
    ASSUME Pub!TypeOK, NEW r \in Runs, Pub!TellRunning(r)
    PROVE  EventStep(r, "starting") /\ EventTypes /\ faults' \in 0 .. MaxFaults
<1>1. GoesTo(r, "starting")
  BY Types, GotoFacts DEF Pub!TellRunning, LaunchPCs
<1>2. Grows
  BY Types DEF Pub!TellRunning, Pub!Others, Grows
<1> QED BY <1>1, <1>2, Types, OrderFacts, ToldFacts DEF Pub!TellRunning, EventTypes, EventStep

LEMMA StartFailsStep ==
    ASSUME Pub!TypeOK, NEW r \in Runs, Pub!StartFails(r)
    PROVE  /\ EventStep(r, "failing") /\ beside' = beside
           /\ EventTypes /\ faults' \in 0 .. MaxFaults
<1>1. GoesTo(r, "failing")
  BY Types, GotoFacts DEF Pub!StartFails, LaunchPCs
<1> QED BY <1>1, Types, FaultFacts DEF Pub!StartFails, EventTypes, EventStep,
           Grows, Pub!history, Pub!events

LEMMA JoinStep ==
    ASSUME Pub!TypeOK, NEW r \in Runs, Pub!Join(r)
    PROVE  /\ \E pc \in {"failing", "clearing"} : EventStep(r, pc)
           /\ beside' = beside
           /\ EventTypes /\ faults' \in 0 .. MaxFaults
<1>1. PICK pc \in {"failing", "clearing"} : Pub!Goto(r, pc)
  BY DEF Pub!Join
<1>2. GoesTo(r, pc)
  BY <1>1, Types, GotoFacts DEF LaunchPCs
<1>3. EventStep(r, pc)
  BY <1>2, Types DEF Pub!Join, EventStep, Grows, Pub!history
<1> QED BY <1>3, Types DEF Pub!Join, EventTypes, Pub!history, Pub!events

LEMMA FailStep ==
    ASSUME Pub!TypeOK, NEW r \in Runs, Pub!Fail(r)
    PROVE  /\ \/ EventStep(r, "clearing")
              \/ UNCHANGED <<launch, progress, thread, Pub!registry, Pub!history>>
           /\ beside' = beside
           /\ EventTypes /\ faults' \in 0 .. MaxFaults
<1>1. UNCHANGED <<progress, thread, Pub!registry, Pub!history>> /\ beside' = beside
  BY DEF Pub!Fail, Pub!history
<1>2. CASE status' = [status EXCEPT ![r] = "FAILED"] /\ UNCHANGED <<launch, shown, faults>>
  BY <1>1, <1>2, Types, OrderFacts DEF Pub!Fail, EventTypes
<1>3. CASE /\ Pub!Told(r, "FAILED") \/ Pub!Untold
           /\ Pub!Goto(r, "clearing")
           /\ UNCHANGED status
  <2>1. GoesTo(r, "clearing")
    BY <1>3, Types, GotoFacts DEF LaunchPCs
  <2> QED BY <1>1, <1>3, <2>1, Types, OrderFacts, ToldFacts
          DEF Pub!Fail, EventTypes, EventStep, Grows, Pub!history
<1> QED BY <1>2, <1>3 DEF Pub!Fail

LEMMA CompleteStep ==
    ASSUME Pub!TypeOK, NEW r \in Runs, Pub!Complete(r)
    PROVE  /\ EventStep(r, "settled") /\ beside' = beside
           /\ EventTypes /\ faults' \in 0 .. MaxFaults
<1>1. GoesTo(r, "settled")
  BY Types, GotoFacts DEF Pub!Complete, LaunchPCs
<1> QED BY <1>1, Types, OrderFacts DEF Pub!Complete, EventTypes, EventStep, Grows, Pub!history

LEMMA TellCompletedStep ==
    ASSUME Pub!TypeOK, NEW r \in Runs, Pub!TellCompleted(r)
    PROVE  /\ EventStep(r, "over") /\ beside' = beside
           /\ EventTypes /\ faults' \in 0 .. MaxFaults
<1>1. GoesTo(r, "over")
  BY Types, GotoFacts DEF Pub!TellCompleted, LaunchPCs
<1> QED BY <1>1, Types, OrderFacts, ToldFacts DEF Pub!TellCompleted, EventTypes,
           EventStep, Grows, Pub!history

\* The other steps leave the statuses alone.
Kept(r) == UNCHANGED Pub!events /\ faults' \in 0 .. MaxFaults

LEMMA StartStep ==
    ASSUME Pub!TypeOK, NEW r \in Runs, Pub!Start(r)
    PROVE  /\ Kept(r) /\ UNCHANGED <<Pub!registry, Pub!history>> /\ GoesTo(r, "polling")
           /\ LET t == thread[r] IN ThreadAt(r, "running", t.todo, t.at, t.captured)
           /\ progress' \in [Runs -> Pub!Counts(Pub!Ids)] /\ DOMAIN progress'[r] = Pub!IdsOf(r)
           /\ \A i \in Pub!IdsOf(r) : progress'[r][i] = 0
           /\ \A s \in Runs : s # r => progress'[s] = progress[s]
<1>1. GoesTo(r, "polling")
  BY Types, GotoFacts DEF Pub!Start, LaunchPCs
<1>2. LET t == thread[r] IN ThreadAt(r, "running", t.todo, t.at, t.captured)
  BY Types, ThreadFacts DEF Pub!Start
<1>3. /\ progress' \in [Runs -> Pub!Counts(Pub!Ids)] /\ DOMAIN progress'[r] = Pub!IdsOf(r)
      /\ \A i \in Pub!IdsOf(r) : progress'[r][i] = 0
      /\ \A s \in Runs : s # r => progress'[s] = progress[s]
  <2> DEFINE S == Pub!IdsOf(r)  f == [i \in S |-> 0]
  <2>1. f \in Pub!Counts(Pub!Ids) /\ DOMAIN f = S /\ \A i \in S : f[i] = 0
    <3>1. f \in [S -> 0 .. Steps]
      BY NodesBelong
    <3>2. S \in SUBSET Pub!Ids
      BY NodesBelong
    <3>3. DOMAIN f = S /\ \A i \in S : f[i] = 0
      OBVIOUS
    <3> HIDE DEF f, S
    <3> QED BY <3>1, <3>2, <3>3, IsCounts
  <2>2. progress' = [progress EXCEPT ![r] = f]
    BY DEF Pub!Start
  <2> HIDE DEF f
  <2> QED BY <2>1, <2>2, Types
<1> QED BY <1>1, <1>2, <1>3, Types DEF Pub!Start, Kept

LEMMA ListStep ==
    ASSUME Pub!TypeOK, NEW r \in Runs, Pub!List(r)
    PROVE  /\ Kept(r) /\ UNCHANGED <<progress, thread, Pub!registry, Pub!history>>
           /\ LaunchMoves(r) /\ launch[r].pc = "polling" /\ launch'[r].pc = "listed"
           /\ launch'[r].listed = active /\ launch'[r].copied = launch[r].copied
           /\ DOMAIN launch'[r].head = NodesOf[r]
           /\ \A n \in NodesOf[r] : launch'[r].head[n] = bar[n].count
<1> DEFINE h == [n \in NodesOf[r] |-> bar[n].count]
<1>1. /\ h \in Pub!Counts(Pub!Nodes) /\ DOMAIN h = NodesOf[r]
      /\ \A n \in NodesOf[r] : h[n] = bar[n].count
  <2>1. h \in [NodesOf[r] -> 0 .. Steps]
    BY NodesBelong, BarTypes
  <2>2. NodesOf[r] \in SUBSET Pub!Nodes
    BY NodesBelong
  <2>3. DOMAIN h = NodesOf[r] /\ \A n \in NodesOf[r] : h[n] = bar[n].count
    OBVIOUS
  <2> HIDE DEF h
  <2> QED BY <2>1, <2>2, <2>3, IsCounts
<1>2. launch' = [launch EXCEPT ![r] = [Pub!Read(launch[r], 1) EXCEPT !.pc = "listed",
                                                                     !.head = h]]
  BY DEF Pub!List
<1> HIDE DEF h
<1>3. /\ LaunchMoves(r) /\ launch'[r].pc = "listed" /\ launch'[r].listed = active
      /\ launch'[r].copied = launch[r].copied /\ launch'[r].head = h
  BY <1>1, <1>2, Types, ListFacts
<1> QED BY <1>1, <1>3, Types DEF Pub!List, Kept

LEMMA CopyStep ==
    ASSUME Pub!TypeOK, NEW r \in Runs, Pub!Copy(r)
    PROVE  /\ Kept(r) /\ UNCHANGED <<progress, thread, Pub!registry, Pub!history>>
           /\ LaunchMoves(r) /\ launch[r].pc = "listed" /\ launch'[r].pc = "copied"
           /\ launch'[r].copied = closed /\ launch'[r].listed = launch[r].listed
           /\ launch'[r].head = launch[r].head
  BY Types, CopyFacts DEF Pub!Copy, Kept

\* What a message is made of: the closed bars, else the listed ones, else the last one.
LEMMA PicksFacts ==
    ASSUME Pub!TypeOK, NEW r \in Runs, NEW pick \in Pub!Picks(r)
    PROVE  /\ DOMAIN pick = {IdOf[n] : n \in launch[r].listed} /\ DOMAIN pick \subseteq Pub!Ids
           /\ \A i \in DOMAIN pick : /\ pick[i] \in launch[r].listed /\ IdOf[pick[i]] = i
                                    /\ pick[i] \in Pub!Nodes
<1>1. launch[r].listed \subseteq Pub!Nodes
  BY Types, LaunchFields
<1>2. /\ DOMAIN pick = {IdOf[n] : n \in launch[r].listed}
      /\ \A i \in DOMAIN pick : pick[i] \in launch[r].listed /\ IdOf[pick[i]] = i
  BY DEF Pub!Picks
<1> QED BY <1>1, <1>2, NodesBelong

LEMMA MergedFacts ==
    ASSUME Pub!TypeOK, NEW r \in Runs, NEW pick \in Pub!Picks(r)
    PROVE  LET l == launch[r]  m == Pub!Merged(r, pick)
           IN /\ m \in Pub!Counts(Pub!Ids)
              /\ DOMAIN m = DOMAIN l.copied \cup DOMAIN pick \cup DOMAIN progress[r]
              /\ \A i \in DOMAIN l.copied : m[i] = l.copied[i]
              /\ \A i \in DOMAIN pick \ DOMAIN l.copied : m[i] = bar[pick[i]].count
              /\ \A i \in DOMAIN progress[r] \ (DOMAIN l.copied \cup DOMAIN pick) :
                    m[i] = progress[r][i]
<1> PICK l \in Pub!Launch : l = launch[r]
  BY Types
<1> PICK p \in Pub!Counts(Pub!Ids) : p = progress[r]
  BY Types
<1> DEFINE S == DOMAIN pick
           b == [i \in S |-> bar[pick[i]].count]
           o == Pub!Over(b, p)
           m == Pub!Over(l.copied, o)
<1>1. Pub!Merged(r, pick) = m
  BY DEF Pub!Merged
<1>2. b \in Pub!Counts(Pub!Ids) /\ DOMAIN b = S /\ \A i \in S : b[i] = bar[pick[i]].count
  <2>1. S \in SUBSET Pub!Ids
    BY PicksFacts
  <2>2. b \in [S -> 0 .. Steps]
    BY PicksFacts, BarTypes
  <2>3. DOMAIN b = S /\ \A i \in S : b[i] = bar[pick[i]].count
    OBVIOUS
  <2> HIDE DEF b, S
  <2> QED BY <2>1, <2>2, <2>3, IsCounts
<1> HIDE DEF b
<1>3. /\ o \in Pub!Counts(Pub!Ids) /\ DOMAIN o = DOMAIN b \cup DOMAIN p
      /\ \A i \in DOMAIN b : o[i] = b[i]
      /\ \A i \in DOMAIN p \ DOMAIN b : o[i] = p[i]
  <2>1. o \in Pub!Counts(Pub!Ids)
    BY <1>2, OverCounts
  <2>2. DOMAIN o = DOMAIN b \cup DOMAIN p
    BY OverFacts
  <2>3. \A i \in DOMAIN b : o[i] = b[i]
    BY DEF Pub!Over
  <2>4. \A i \in DOMAIN p \ DOMAIN b : o[i] = p[i]
    BY DEF Pub!Over
  <2> QED BY <2>1, <2>2, <2>3, <2>4
<1> HIDE DEF o
<1>4. l.copied \in Pub!Counts(Pub!Ids)
  BY LaunchFields
<1>5. /\ m \in Pub!Counts(Pub!Ids) /\ DOMAIN m = DOMAIN l.copied \cup DOMAIN o
      /\ \A i \in DOMAIN l.copied : m[i] = l.copied[i]
      /\ \A i \in DOMAIN o \ DOMAIN l.copied : m[i] = o[i]
  <2>1. m \in Pub!Counts(Pub!Ids)
    BY <1>3, <1>4, OverCounts
  <2>2. DOMAIN m = DOMAIN l.copied \cup DOMAIN o
    BY OverFacts
  <2>3. \A i \in DOMAIN l.copied : m[i] = l.copied[i]
    BY DEF Pub!Over
  <2>4. \A i \in DOMAIN o \ DOMAIN l.copied : m[i] = o[i]
    BY DEF Pub!Over
  <2> QED BY <2>1, <2>2, <2>3, <2>4
<1> HIDE DEF m
<1> QED BY <1>1, <1>2, <1>3, <1>5

LEMMA ReportStep ==
    ASSUME Pub!TypeOK, NEW r \in Runs, Pub!Report(r)
    PROVE  /\ Kept(r) /\ UNCHANGED <<thread, Pub!registry, Pub!history>>
           /\ LaunchMoves(r) /\ launch[r].pc = "copied"
           /\ launch'[r].pc \in {"polling", "failing"}
           /\ launch'[r].listed = {} /\ DOMAIN launch'[r].copied = {}
           /\ progress' \in [Runs -> Pub!Counts(Pub!Ids)]
           /\ \E pick \in Pub!Picks(r) : progress'[r] = Pub!Merged(r, pick)
           /\ \A s \in Runs : s # r => progress'[s] = progress[s]
<1>1. PICK sent \in BOOLEAN :
          /\ launch' = [launch EXCEPT ![r] =
                [Pub!NoLaunch EXCEPT !.pc = IF sent THEN "polling" ELSE "failing"]]
          /\ IF sent THEN UNCHANGED faults ELSE Pub!Fault
  BY DEF Pub!Report
<1>2. PICK pc \in {"polling", "failing"} :
          launch' = [launch EXCEPT ![r] = [Pub!NoLaunch EXCEPT !.pc = pc]]
  BY <1>1
<1>3. /\ LaunchMoves(r) /\ launch'[r].pc = pc /\ launch'[r].listed = {}
      /\ launch'[r].copied = Pub!Empty
  BY <1>2, Types, ReportFacts DEF LaunchPCs
<1>4. faults' \in 0 .. MaxFaults
  BY <1>1, FaultFacts
<1>5. /\ progress' \in [Runs -> Pub!Counts(Pub!Ids)]
      /\ \E pick \in Pub!Picks(r) : progress'[r] = Pub!Merged(r, pick)
      /\ \A s \in Runs : s # r => progress'[s] = progress[s]
  <2>1. PICK pick \in Pub!Picks(r) : progress' = [progress EXCEPT ![r] = Pub!Merged(r, pick)]
    BY DEF Pub!Report
  <2>2. Pub!Merged(r, pick) \in Pub!Counts(Pub!Ids)
    BY MergedFacts
  <2> QED BY <2>1, <2>2, Types
<1> QED BY <1>3, <1>4, <1>5, EmptyCounts DEF Pub!Report, Kept

LEMMA LaunchClearsStep ==
    ASSUME Pub!TypeOK, NEW r \in Runs, Pub!LaunchClears(r)
    PROVE  /\ Kept(r) /\ UNCHANGED <<progress, thread, bar, beside>> /\ Pub!Clear
           /\ LaunchMoves(r) /\ launch[r].pc = "clearing" /\ launch'[r].pc = "closing"
           /\ launch'[r].listed = active /\ launch'[r].copied = launch[r].copied
<1>1. /\ LaunchMoves(r) /\ launch'[r].pc = "closing"
      /\ launch'[r].listed = active /\ launch'[r].copied = launch[r].copied
  <2>1. PICK L : L = active
    OBVIOUS
  <2>2. launch' = [launch EXCEPT ![r].pc = "closing", ![r].listed = L]
    BY <2>1 DEF Pub!LaunchClears
  <2> QED BY <2>1, <2>2, Types, LaunchClearsFacts
<1> QED BY <1>1, Types DEF Pub!LaunchClears, Kept

LEMMA LaunchClosesStep ==
    ASSUME Pub!TypeOK, NEW r \in Runs, Pub!LaunchCloses(r)
    PROVE  /\ Kept(r) /\ UNCHANGED <<progress, thread, Pub!history>>
           /\ launch[r].pc = "closing"
           /\ \/ \E node \in launch[r].listed :
                    /\ node \in Pub!Nodes /\ Pub!CloseCaptured(node)
                    /\ LaunchMoves(r) /\ launch'[r].pc = "closing"
                    /\ launch'[r].listed = launch[r].listed \ {node}
                    /\ launch'[r].copied = launch[r].copied
              \/ /\ EventStep(r, IF status[r] = "FAILED" THEN "over" ELSE "completing")
                 /\ beside' = beside
<1>1. /\ Kept(r) /\ UNCHANGED <<progress, thread, Pub!history>> /\ launch[r].pc = "closing"
  BY Types DEF Pub!LaunchCloses, Kept
<1>2. CASE \E node \in launch[r].listed :
             /\ Pub!CloseCaptured(node)
             /\ launch' = [launch EXCEPT ![r].listed = @ \ {node}]
  <2>1. PICK node \in launch[r].listed :
             /\ Pub!CloseCaptured(node)
             /\ launch' = [launch EXCEPT ![r].listed = @ \ {node}]
    BY <1>2
  <2>2. node \in Pub!Nodes
    BY Types, LaunchFields
  <2>3. /\ LaunchMoves(r) /\ launch'[r].pc = launch[r].pc
        /\ launch'[r].listed = launch[r].listed \ {node}
        /\ launch'[r].copied = launch[r].copied
    BY <2>1, Types, LaunchClosesFacts
  <2> QED BY <1>1, <2>1, <2>2, <2>3
<1>3. CASE /\ Pub!Goto(r, IF status[r] = "FAILED" THEN "over" ELSE "completing")
           /\ UNCHANGED Pub!registry
  <2>1. PICK pc \in {"over", "completing"} :
            pc = IF status[r] = "FAILED" THEN "over" ELSE "completing"
    OBVIOUS
  <2>2. GoesTo(r, pc)
    BY <1>3, <2>1, Types, GotoFacts DEF LaunchPCs
  <2>3. EventStep(r, pc) /\ beside' = beside
    BY <1>1, <1>3, <2>2, Types DEF EventStep, Grows, Pub!history
  <2> QED BY <1>1, <2>1, <2>3
<1> QED BY <1>1, <1>2, <1>3 DEF Pub!LaunchCloses

LEMMA OpenBarStep ==
    ASSUME Pub!TypeOK, NEW r \in Runs, Pub!OpenBar(r)
    PROVE  /\ Kept(r) /\ UNCHANGED <<launch, progress, closed, Pub!history>>
           /\ thread[r].pc = "running"
           /\ \E node \in thread[r].todo :
                 LET t == thread[r]
                 IN /\ ThreadAt(r, "running", t.todo \ {node}, {node}, t.captured)
                    /\ node \in Pub!Nodes /\ active' = active \cup {node}
                    /\ bar' \in [Pub!Nodes -> Pub!Bar] /\ bar'[node].state = "open"
                    /\ bar'[node].count = bar[node].count
                    /\ \A n \in Pub!Nodes : n # node => bar'[n] = bar[n]
<1>1. PICK node \in thread[r].todo :
          /\ thread' = [thread EXCEPT ![r].todo = @ \ {node}, ![r].at = {node}]
          /\ bar' = [bar EXCEPT ![node].state = "open"]
          /\ active' = active \cup {node}
  BY DEF Pub!OpenBar
<1>2. node \in Pub!Nodes
  BY Types, ThreadFields
<1>3. LET t == thread[r] IN ThreadAt(r, "running", t.todo \ {node}, {node}, t.captured)
  <2>1. LET t == thread[r] IN ThreadAt(r, t.pc, t.todo \ {node}, {node}, t.captured)
    BY <1>1, <1>2, Types, ThreadFacts
  <2>2. thread[r].pc = "running"
    BY DEF Pub!OpenBar, Pub!Running
  <2> QED BY <2>1, <2>2
<1>4. /\ bar' \in [Pub!Nodes -> Pub!Bar] /\ bar'[node].state = "open"
      /\ bar'[node].count = bar[node].count
      /\ \A n \in Pub!Nodes : n # node => bar'[n] = bar[n]
  BY <1>1, <1>2, Types, BarTypes DEF Pub!Bar
<1>5. /\ Kept(r) /\ UNCHANGED <<launch, progress, closed, Pub!history>>
      /\ thread[r].pc = "running"
  BY Types DEF Pub!OpenBar, Pub!Running, Kept
<1>6. active' = active \cup {node}
  BY <1>1
<1> HIDE DEF ThreadAt
<1> QED BY <1>2, <1>3, <1>4, <1>5, <1>6

LEMMA AdvanceStep ==
    ASSUME Pub!TypeOK, NEW r \in Runs, Pub!Advance(r)
    PROVE  /\ Kept(r) /\ UNCHANGED <<launch, progress, thread, active, closed, Pub!history>>
           /\ \E node \in thread[r].at :
                 /\ node \in Pub!Nodes /\ bar[node].state = "open" /\ bar'[node].state = "open"
                 /\ bar'[node].count = bar[node].count + 1
                 /\ bar' \in [Pub!Nodes -> Pub!Bar]
                 /\ \A n \in Pub!Nodes : n # node => bar'[n] = bar[n]
<1>1. PICK node \in thread[r].at :
          /\ bar[node].state = "open" /\ bar[node].count < Steps
          /\ bar' = [bar EXCEPT ![node].count = @ + 1]
  BY DEF Pub!Advance
<1>2. node \in Pub!Nodes
  BY Types, ThreadFields
<1>3. bar[node] \in Pub!Bar /\ bar[node].count + 1 \in 0 .. Steps
  BY <1>1, <1>2, BarTypes, NodesBelong
<1>4. /\ bar'[node].state = "open" /\ bar'[node].count = bar[node].count + 1
      /\ bar' \in [Pub!Nodes -> Pub!Bar]
      /\ \A n \in Pub!Nodes : n # node => bar'[n] = bar[n]
  BY <1>1, <1>2, <1>3, Types DEF Pub!Bar
<1> QED BY <1>1, <1>2, <1>4, Types DEF Pub!Advance, Kept

\* Closing a bar whose loop is done, or that is collected, at count c.
Closes(node, c) ==
    /\ bar' \in [Pub!Nodes -> Pub!Bar] /\ bar'[node].state = "gone" /\ bar'[node].count = c
    /\ \A n \in Pub!Nodes : n # node => bar'[n] = bar[n]
    /\ active' = active \ {node}
    /\ closed' \in Pub!Counts(Pub!Ids) /\ DOMAIN closed' = DOMAIN closed \cup {IdOf[node]}
    /\ closed'[IdOf[node]] = c
    /\ \A n \in DOMAIN closed \ {IdOf[node]} : closed'[n] = closed[n]

LEMMA CloseFacts ==
    ASSUME Pub!TypeOK, NEW node \in Pub!Nodes, NEW c \in 0 .. Steps, Pub!Close(node, c)
    PROVE  /\ active' = active \ {node}
           /\ closed' \in Pub!Counts(Pub!Ids) /\ DOMAIN closed' = DOMAIN closed \cup {IdOf[node]}
           /\ closed'[IdOf[node]] = c
           /\ \A n \in DOMAIN closed \ {IdOf[node]} : closed'[n] = closed[n]
<1>1. PICK f \in Pub!Counts(Pub!Ids) : f = closed
  BY Types
<1>2. PICK x \in Pub!Ids : x = IdOf[node]
  BY NodesBelong
<1> DEFINE g == Pub!Over([i \in {x} |-> c], f)
<1>3. active' = active \ {node} /\ closed' = g
  BY <1>1, <1>2 DEF Pub!Close
<1>4. /\ g \in Pub!Counts(Pub!Ids) /\ DOMAIN g = DOMAIN f \cup {x} /\ g[x] = c
      /\ \A n \in DOMAIN f \ {x} : g[n] = f[n]
  BY SingleCounts, ZenonT(60)
<1> HIDE DEF g
<1> QED BY <1>1, <1>2, <1>3, <1>4

LEMMA CloseBarStep ==
    ASSUME Pub!TypeOK, NEW r \in Runs, Pub!CloseBar(r)
    PROVE  /\ Kept(r) /\ UNCHANGED <<launch, progress, Pub!history>>
           /\ thread[r].pc = "running"
           /\ LET t == thread[r] IN ThreadAt(r, "running", t.todo, {}, t.captured)
           /\ \E node \in thread[r].at : node \in Pub!Nodes /\ Closes(node, Steps)
<1>1. PICK node \in thread[r].at :
          /\ thread' = [thread EXCEPT ![r].at = {}]
          /\ bar' = [bar EXCEPT ![node] = [state |-> "gone", count |-> Steps]]
          /\ Pub!Close(node, Steps)
  BY DEF Pub!CloseBar
<1>2. node \in Pub!Nodes /\ Steps \in 0 .. Steps
  BY Types, ThreadFields, NodesBelong
<1>3. LET t == thread[r] IN ThreadAt(r, t.pc, t.todo, {}, t.captured)
  BY <1>1, Types, ThreadFacts
<1>4. /\ bar' \in [Pub!Nodes -> Pub!Bar] /\ bar'[node].state = "gone"
      /\ bar'[node].count = Steps /\ \A n \in Pub!Nodes : n # node => bar'[n] = bar[n]
  BY <1>1, <1>2, Types DEF Pub!Bar
<1>5. Closes(node, Steps)
  BY <1>1, <1>2, <1>4, CloseFacts DEF Closes
<1> QED BY <1>2, <1>3, <1>5, Types DEF Pub!CloseBar, Pub!Running, Kept

LEMMA RaiseStep ==
    ASSUME Pub!TypeOK, NEW r \in Runs, Pub!Raise(r)
    PROVE  /\ Kept(r) /\ UNCHANGED <<launch, progress, active, closed, Pub!history>>
           /\ thread[r].pc = "running"
           /\ LET t == thread[r] IN ThreadAt(r, "clearing", t.todo, {}, t.captured)
           /\ bar' \in [Pub!Nodes -> Pub!Bar]
           /\ \A n \in Pub!Nodes :
                 /\ n \in thread[r].at => bar'[n].state = "held"
                 /\ n \notin thread[r].at => bar'[n] = bar[n]
                 /\ bar'[n].count = bar[n].count
<1>1. LET t == thread[r] IN ThreadAt(r, "clearing", t.todo, {}, t.captured)
  BY Types, ThreadFacts DEF Pub!Raise
<1>2. /\ bar' \in [Pub!Nodes -> Pub!Bar]
      /\ \A n \in Pub!Nodes :
            /\ n \in thread[r].at => bar'[n].state = "held"
            /\ n \notin thread[r].at => bar'[n] = bar[n]
            /\ bar'[n].count = bar[n].count
  BY Types, BarTypes DEF Pub!Raise, Pub!Bar
<1> QED BY <1>1, <1>2, Types, FaultFacts DEF Pub!Raise, Pub!Running, Kept

LEMMA FinishStep ==
    ASSUME Pub!TypeOK, NEW r \in Runs, Pub!Finish(r)
    PROVE  /\ Kept(r) /\ UNCHANGED <<launch, progress, Pub!registry, Pub!history>>
           /\ thread[r].pc = "running"
           /\ LET t == thread[r] IN ThreadAt(r, "clearing", t.todo, t.at, t.captured)
<1>1. LET t == thread[r] IN ThreadAt(r, "clearing", t.todo, t.at, t.captured)
  BY Types, ThreadFacts DEF Pub!Finish
<1> QED BY <1>1, Types DEF Pub!Finish, Pub!Running, Kept

LEMMA ThreadClearsStep ==
    ASSUME Pub!TypeOK, NEW r \in Runs, Pub!ThreadClears(r)
    PROVE  /\ Kept(r) /\ UNCHANGED <<launch, progress, bar, beside>> /\ Pub!Clear
           /\ thread[r].pc = "clearing"
           /\ LET t == thread[r] IN ThreadAt(r, "closing", t.todo, t.at, active)
<1>1. PICK C \in SUBSET Pub!Nodes : C = active
  BY Types
<1>2. thread' = [thread EXCEPT ![r].pc = "closing", ![r].captured = C]
  BY <1>1 DEF Pub!ThreadClears
<1>3. LET t == thread[r] IN ThreadAt(r, "closing", t.todo, t.at, C)
  BY <1>2, Types, ThreadFacts
<1> QED BY <1>1, <1>3, Types DEF Pub!ThreadClears, Kept

LEMMA ThreadClosesStep ==
    ASSUME Pub!TypeOK, NEW r \in Runs, Pub!ThreadCloses(r)
    PROVE  /\ Kept(r) /\ UNCHANGED <<launch, progress, Pub!history>>
           /\ thread[r].pc = "closing"
           /\ LET t == thread[r]
              IN \/ \E node \in t.captured :
                       /\ node \in Pub!Nodes /\ Pub!CloseCaptured(node)
                       /\ ThreadAt(r, "closing", t.todo, t.at, t.captured \ {node})
                 \/ /\ ThreadAt(r, "over", t.todo, t.at, t.captured)
                    /\ UNCHANGED Pub!registry
<1> DEFINE t == thread[r]
<1>1. /\ Kept(r) /\ UNCHANGED <<launch, progress, Pub!history>> /\ t.pc = "closing"
  BY Types DEF Pub!ThreadCloses, Kept
<1>2. CASE \E node \in t.captured :
             /\ Pub!CloseCaptured(node)
             /\ thread' = [thread EXCEPT ![r].captured = @ \ {node}]
  <2>1. PICK node \in t.captured :
             /\ Pub!CloseCaptured(node)
             /\ thread' = [thread EXCEPT ![r].captured = @ \ {node}]
    BY <1>2
  <2>2. node \in Pub!Nodes
    BY Types, ThreadFields
  <2>3. ThreadAt(r, t.pc, t.todo, t.at, t.captured \ {node})
    BY <2>1, Types, ThreadFacts
  <2> QED BY <1>1, <2>1, <2>2, <2>3
<1>3. CASE /\ thread' = [thread EXCEPT ![r].pc = "over"]
           /\ UNCHANGED Pub!registry
  <2>1. ThreadAt(r, "over", t.todo, t.at, t.captured)
    BY <1>3, Types, ThreadFacts
  <2> QED BY <1>1, <1>3, <2>1
<1> QED BY <1>1, <1>2, <1>3 DEF Pub!ThreadCloses

LEMMA CollectStep ==
    ASSUME Pub!TypeOK, NEW r \in Runs, Pub!Collect(r)
    PROVE  /\ Kept(r) /\ UNCHANGED <<launch, progress, thread, Pub!history>>
           /\ launch[r].pc = "over" /\ ~Pub!Alive(r)
           /\ \E node \in NodesOf[r] :
                 /\ node \in Pub!Nodes /\ bar[node].state = "held"
                 /\ Closes(node, bar[node].count)
<1>1. PICK node \in NodesOf[r] :
          /\ bar[node].state = "held"
          /\ bar' = [bar EXCEPT ![node].state = "gone"]
          /\ Pub!Close(node, bar[node].count)
  BY DEF Pub!Collect
<1>2. node \in Pub!Nodes
  BY NodesBelong
<1>3. PICK c \in 0 .. Steps : c = bar[node].count
  BY <1>2, BarTypes
<1>4. /\ bar' \in [Pub!Nodes -> Pub!Bar] /\ bar'[node].state = "gone"
      /\ bar'[node].count = c /\ \A n \in Pub!Nodes : n # node => bar'[n] = bar[n]
  BY <1>1, <1>2, <1>3, Types DEF Pub!Bar
<1>5. Closes(node, c)
  <2>1. Pub!Close(node, c)
    BY <1>1, <1>3
  <2> QED BY <1>2, <1>4, <2>1, CloseFacts DEF Closes
<1> QED BY <1>1, <1>2, <1>3, <1>5, Types DEF Pub!Collect, Kept

-----------------------------------------------------------------------------
(* The steps at a glance *)

\* Nothing happens to bars, threads and messages.
Quiet(r) ==
    /\ UNCHANGED <<progress, thread, Pub!registry, stray>> /\ Grows
    /\ UNCHANGED launch \/ \E pc \in LaunchPCs : EventStep(r, pc)

\* A bar that was open when the registries were cleared is closed.
LaunchClosing(r, node) ==
    /\ UNCHANGED <<progress, thread, Pub!history>> /\ launch[r].pc = "closing"
    /\ node \in launch[r].listed /\ node \in Pub!Nodes /\ Pub!CloseCaptured(node)
    /\ LaunchMoves(r) /\ launch'[r].pc = "closing"
    /\ launch'[r].listed = launch[r].listed \ {node}
    /\ launch'[r].copied = launch[r].copied
ThreadClosing(r, node) ==
    /\ UNCHANGED <<launch, progress, Pub!history>> /\ thread[r].pc = "closing"
    /\ node \in thread[r].captured /\ node \in Pub!Nodes /\ Pub!CloseCaptured(node)
    /\ LET t == thread[r]
       IN ThreadAt(r, "closing", t.todo, t.at, t.captured \ {node})
ThreadEnds(r) ==
    /\ UNCHANGED <<launch, progress, Pub!history, Pub!registry>> /\ thread[r].pc = "closing"
    /\ LET t == thread[r] IN ThreadAt(r, "over", t.todo, t.at, t.captured)

RegistryStep(r) ==
    \/ Pub!Start(r) \/ Pub!List(r) \/ Pub!Copy(r) \/ Pub!Report(r) \/ Pub!LaunchClears(r)
    \/ \E node \in Pub!Nodes : LaunchClosing(r, node)
    \/ Pub!OpenBar(r) \/ Pub!Advance(r) \/ Pub!CloseBar(r) \/ Pub!Raise(r) \/ Pub!Finish(r)
    \/ Pub!ThreadClears(r)
    \/ \E node \in Pub!Nodes : ThreadClosing(r, node)
    \/ ThreadEnds(r) \/ Pub!Collect(r)

LEMMA RequestKinds ==
    ASSUME Pub!TypeOK, NEW q \in Requests, Pub!StatusFollows(RunOf[q]),
           Pub!Handler(q) \/ Pub!Delivery(q)
    PROVE  /\ Quiet(RunOf[q]) /\ EventTypes /\ faults' \in 0 .. MaxFaults
<1> USE Types
<1>1. CASE Pub!Handler(q)
  BY <1>1, HandlerStep DEF Quiet, Grows, Pub!history
<1>2. CASE Pub!Claim(q)
  BY <1>2, ClaimStep DEF Quiet, EventStep, LaunchPCs
<1>3. CASE Pub!Drop(q)
  BY <1>3, DropStep DEF Quiet, Grows, Pub!history
<1> QED BY <1>1, <1>2, <1>3 DEF Pub!Delivery

LEMMA StepKinds ==
    ASSUME Pub!TypeOK, NEW r \in Runs, Pub!LaunchStep(r) \/ Pub!ThreadStep(r)
    PROVE  /\ Quiet(r) \/ RegistryStep(r)
           /\ EventTypes /\ faults' \in 0 .. MaxFaults /\ beside' \in [Runs -> SUBSET Runs]
<1> USE Types
<1>e. ASSUME UNCHANGED Pub!events
      PROVE  EventTypes
  BY <1>e DEF Pub!events, EventTypes
<1>k. ASSUME Kept(r)
      PROVE  EventTypes /\ faults' \in 0 .. MaxFaults
  BY <1>e, <1>k DEF Kept
<1>3. CASE Pub!TellRunning(r)
  BY <1>3, TellRunningStep DEF Quiet, EventStep, Grows, LaunchPCs
<1>4. CASE Pub!StartFails(r)
  BY <1>4, StartFailsStep DEF Quiet, EventStep, LaunchPCs
<1>5. CASE Pub!Join(r)
  <2>1. PICK pc \in {"failing", "clearing"} : EventStep(r, pc)
    BY <1>5, JoinStep
  <2>2. pc \in LaunchPCs
    BY DEF LaunchPCs
  <2> QED BY <1>5, <2>1, <2>2, JoinStep DEF Quiet, EventStep
<1>6. CASE Pub!Fail(r)
  <2>1. "clearing" \in LaunchPCs
    BY DEF LaunchPCs
  <2>2. EventStep(r, "clearing")
        \/ UNCHANGED <<launch, progress, thread, Pub!registry, Pub!history>>
    BY <1>6, FailStep
  <2>3. Quiet(r)
    BY <2>1, <2>2 DEF Quiet, EventStep, Grows, Pub!history
  <2> QED BY <1>6, <2>3, FailStep
<1>7. CASE Pub!Complete(r)
  BY <1>7, CompleteStep DEF Quiet, EventStep, LaunchPCs
<1>8. CASE Pub!TellCompleted(r)
  BY <1>8, TellCompletedStep DEF Quiet, EventStep, LaunchPCs
<1>9. CASE Pub!Start(r)
  BY <1>9, <1>k, StartStep DEF RegistryStep, Pub!history
<1>10. CASE Pub!List(r)
  BY <1>10, <1>k, ListStep DEF RegistryStep, Pub!history
<1>11. CASE Pub!Copy(r)
  BY <1>11, <1>k, CopyStep DEF RegistryStep, Pub!history
<1>12. CASE Pub!Report(r)
  BY <1>12, <1>k, ReportStep DEF RegistryStep, Pub!history
<1>13. CASE Pub!LaunchClears(r)
  BY <1>13, <1>k, LaunchClearsStep DEF RegistryStep, Pub!history
<1>14. CASE Pub!LaunchCloses(r)
  <2>1. Kept(r) /\ UNCHANGED <<progress, thread, Pub!history>> /\ beside' = beside
    BY <1>14, LaunchClosesStep DEF Pub!history
  <2>2. CASE \E node \in launch[r].listed :
                /\ node \in Pub!Nodes /\ Pub!CloseCaptured(node)
                /\ LaunchMoves(r) /\ launch'[r].pc = "closing"
                /\ launch'[r].listed = launch[r].listed \ {node}
                /\ launch'[r].copied = launch[r].copied
    <3>1. \E node \in Pub!Nodes : LaunchClosing(r, node)
      BY <1>14, <2>1, <2>2, LaunchClosesStep DEF LaunchClosing
    <3> QED BY <1>k, <2>1, <3>1 DEF RegistryStep
  <2>3. CASE EventStep(r, IF status[r] = "FAILED" THEN "over" ELSE "completing")
    <3>1. PICK pc \in {"over", "completing"} : EventStep(r, pc)
      BY <2>3
    <3>2. pc \in LaunchPCs
      BY DEF LaunchPCs
    <3> QED BY <1>k, <2>1, <3>1, <3>2 DEF Quiet, EventStep
  <2> QED BY <1>14, <2>2, <2>3, LaunchClosesStep
<1>15. CASE Pub!OpenBar(r)
  BY <1>15, <1>k, OpenBarStep DEF RegistryStep, Pub!history
<1>16. CASE Pub!Advance(r)
  BY <1>16, <1>k, AdvanceStep DEF RegistryStep, Pub!history
<1>17. CASE Pub!CloseBar(r)
  BY <1>17, <1>k, CloseBarStep DEF RegistryStep, Pub!history
<1>18. CASE Pub!Raise(r)
  BY <1>18, <1>k, RaiseStep DEF RegistryStep, Pub!history
<1>19. CASE Pub!Finish(r)
  BY <1>19, <1>k, FinishStep DEF RegistryStep, Pub!history
<1>20. CASE Pub!ThreadClears(r)
  BY <1>20, <1>k, ThreadClearsStep DEF RegistryStep, Pub!history
<1>21. CASE Pub!ThreadCloses(r)
  <2>1. Kept(r) /\ UNCHANGED <<launch, progress, Pub!history>> /\ beside' = beside
        /\ thread[r].pc = "closing"
    BY <1>21, ThreadClosesStep DEF Pub!history
  <2>2. CASE \E node \in thread[r].captured :
                LET t == thread[r]
                IN /\ node \in Pub!Nodes /\ Pub!CloseCaptured(node)
                   /\ ThreadAt(r, "closing", t.todo, t.at, t.captured \ {node})
    <3>1. \E node \in Pub!Nodes : ThreadClosing(r, node)
      BY <2>1, <2>2 DEF ThreadClosing
    <3> QED BY <1>k, <2>1, <3>1 DEF RegistryStep
  <2>3. CASE LET t == thread[r]
             IN ThreadAt(r, "over", t.todo, t.at, t.captured) /\ UNCHANGED Pub!registry
    <3>1. ThreadEnds(r)
      BY <2>1, <2>3 DEF ThreadEnds
    <3> QED BY <1>k, <2>1, <3>1 DEF RegistryStep
  <2> QED BY <1>21, <2>2, <2>3, ThreadClosesStep
<1>22. CASE Pub!Collect(r)
  BY <1>22, <1>k, CollectStep DEF RegistryStep, Pub!history
<1> QED BY <1>3, <1>4, <1>5, <1>6, <1>7, <1>8, <1>9, <1>10, <1>11, <1>12, <1>13,
           <1>14, <1>15, <1>16, <1>17, <1>18, <1>19, <1>20, <1>21, <1>22
        DEF Pub!LaunchStep, Pub!ThreadStep

RegistryTypes ==
    /\ launch' \in [Runs -> Pub!Launch] /\ progress' \in [Runs -> Pub!Counts(Pub!Ids)]
    /\ thread' \in [Runs -> Pub!Thread] /\ bar' \in [Pub!Nodes -> Pub!Bar]
    /\ active' \subseteq {n \in Pub!Nodes : bar'[n].state \in {"open", "held"}}
    /\ closed' \in Pub!Counts(Pub!Ids) /\ stray' \subseteq Pub!Ids

LEMMA QuietTypes ==
    ASSUME Pub!TypeOK, NEW r \in Runs, Quiet(r)
    PROVE  RegistryTypes
<1>1. launch' \in [Runs -> Pub!Launch]
  BY Types DEF Quiet, EventStep, GoesTo, LaunchMoves
<1> QED BY <1>1, Types DEF Quiet, RegistryTypes, Pub!registry

LEMMA ClosingTypes ==
    ASSUME Pub!TypeOK, NEW r \in Runs, NEW node \in Pub!Nodes, Closes(node, bar'[node].count)
    PROVE  /\ bar' \in [Pub!Nodes -> Pub!Bar] /\ closed' \in Pub!Counts(Pub!Ids)
           /\ active' \subseteq {n \in Pub!Nodes : bar'[n].state \in {"open", "held"}}
  BY Types DEF Closes

LEMMA RegistryStepTypes ==
    ASSUME Pub!TypeOK, NEW r \in Runs, RegistryStep(r)
    PROVE  RegistryTypes
<1> USE Types
<1>1. CASE Pub!Start(r)
  BY <1>1, StartStep DEF RegistryTypes, GoesTo, LaunchMoves, ThreadAt, ThreadMoves,
     Pub!registry, Pub!history
<1>2. CASE Pub!List(r)
  BY <1>2, ListStep DEF RegistryTypes, LaunchMoves, Pub!registry, Pub!history
<1>3. CASE Pub!Copy(r)
  BY <1>3, CopyStep DEF RegistryTypes, LaunchMoves, Pub!registry, Pub!history
<1>4. CASE Pub!Report(r)
  BY <1>4, ReportStep DEF RegistryTypes, LaunchMoves, Pub!registry, Pub!history
<1>5. CASE Pub!LaunchClears(r)
  BY <1>5, LaunchClearsStep, ClearFacts DEF RegistryTypes, LaunchMoves
<1>6. ASSUME NEW node \in Pub!Nodes, LaunchClosing(r, node)
      PROVE  RegistryTypes
  <2>1. Pub!CloseCaptured(node)
    BY <1>6 DEF LaunchClosing
  <2>2. /\ bar' \in [Pub!Nodes -> Pub!Bar] /\ closed' \in Pub!Counts(Pub!Ids)
        /\ active' \subseteq {n \in Pub!Nodes : bar'[n].state \in {"open", "held"}}
    BY <2>1, ClosedFacts
  <2> QED BY <1>6, <2>2 DEF RegistryTypes, LaunchMoves, LaunchClosing, Pub!history
<1>7. CASE Pub!OpenBar(r)
  <2>1. PICK node \in thread[r].todo :
          LET t == thread[r]
          IN /\ ThreadAt(r, "running", t.todo \ {node}, {node}, t.captured)
             /\ node \in Pub!Nodes /\ active' = active \cup {node}
             /\ bar' \in [Pub!Nodes -> Pub!Bar] /\ bar'[node].state = "open"
             /\ bar'[node].count = bar[node].count
             /\ \A n \in Pub!Nodes : n # node => bar'[n] = bar[n]
    BY <1>7, OpenBarStep
  <2>2. thread' \in [Runs -> Pub!Thread]
    BY <2>1 DEF ThreadAt, ThreadMoves
  <2>3. active' \subseteq {n \in Pub!Nodes : bar'[n].state \in {"open", "held"}}
    BY <2>1
  <2>4. UNCHANGED <<launch, progress, closed, Pub!history>>
    BY <1>7, OpenBarStep
  <2> QED BY <2>1, <2>2, <2>3, <2>4 DEF RegistryTypes, Pub!history
<1>8. CASE Pub!Advance(r)
  <2>1. PICK node \in thread[r].at :
            /\ node \in Pub!Nodes /\ bar[node].state = "open" /\ bar'[node].state = "open"
            /\ bar' \in [Pub!Nodes -> Pub!Bar]
            /\ \A n \in Pub!Nodes : n # node => bar'[n] = bar[n]
    BY <1>8, AdvanceStep
  <2>2. active \subseteq {n \in Pub!Nodes : bar'[n].state \in {"open", "held"}}
    BY <2>1
  <2> QED BY <1>8, <2>1, <2>2, AdvanceStep DEF RegistryTypes, Pub!history
<1>9. CASE Pub!CloseBar(r)
  <2>1. PICK node \in Pub!Nodes : Closes(node, Steps)
    BY <1>9, CloseBarStep
  <2>2. Closes(node, bar'[node].count)
    BY <2>1 DEF Closes
  <2>3. /\ bar' \in [Pub!Nodes -> Pub!Bar] /\ closed' \in Pub!Counts(Pub!Ids)
        /\ active' \subseteq {n \in Pub!Nodes : bar'[n].state \in {"open", "held"}}
    BY <2>2, ClosingTypes
  <2> QED BY <1>9, <2>3, CloseBarStep DEF RegistryTypes, ThreadAt, ThreadMoves, Pub!history
<1>10. CASE Pub!Raise(r)
  <2>1. /\ bar' \in [Pub!Nodes -> Pub!Bar]
        /\ \A n \in Pub!Nodes :
              /\ n \in thread[r].at => bar'[n].state = "held"
              /\ n \notin thread[r].at => bar'[n] = bar[n]
    BY <1>10, RaiseStep
  <2>2. ASSUME NEW n \in active
        PROVE  n \in Pub!Nodes /\ bar'[n].state \in {"open", "held"}
    <3>1. n \in Pub!Nodes /\ bar[n].state \in {"open", "held"}
      OBVIOUS
    <3> QED BY <2>1, <3>1
  <2> QED BY <1>10, <2>1, <2>2, RaiseStep DEF RegistryTypes, ThreadAt, ThreadMoves, Pub!history
<1>11. CASE Pub!Finish(r)
  BY <1>11, FinishStep DEF RegistryTypes, ThreadAt, ThreadMoves, Pub!registry, Pub!history
<1>12. CASE Pub!ThreadClears(r)
  BY <1>12, ThreadClearsStep, ClearFacts DEF RegistryTypes, ThreadAt, ThreadMoves
<1>13. ASSUME NEW node \in Pub!Nodes, ThreadClosing(r, node)
       PROVE  RegistryTypes
  <2>1. Pub!CloseCaptured(node)
    BY <1>13 DEF ThreadClosing
  <2>2. /\ bar' \in [Pub!Nodes -> Pub!Bar] /\ closed' \in Pub!Counts(Pub!Ids)
        /\ active' \subseteq {n \in Pub!Nodes : bar'[n].state \in {"open", "held"}}
    BY <2>1, ClosedFacts
  <2> QED BY <1>13, <2>2 DEF RegistryTypes, ThreadAt, ThreadMoves, ThreadClosing, Pub!history
<1>14. CASE ThreadEnds(r)
  BY <1>14 DEF ThreadEnds, RegistryTypes, ThreadAt, ThreadMoves, Pub!registry, Pub!history
<1>15. CASE Pub!Collect(r)
  <2>1. PICK node \in Pub!Nodes : Closes(node, bar[node].count)
    BY <1>15, CollectStep
  <2>2. Closes(node, bar'[node].count)
    BY <2>1 DEF Closes
  <2>3. /\ bar' \in [Pub!Nodes -> Pub!Bar] /\ closed' \in Pub!Counts(Pub!Ids)
        /\ active' \subseteq {n \in Pub!Nodes : bar'[n].state \in {"open", "held"}}
    BY <2>2, ClosingTypes
  <2> QED BY <1>15, <2>3, CollectStep DEF RegistryTypes, Pub!history
<1> QED BY <1>1, <1>2, <1>3, <1>4, <1>5, <1>6, <1>7, <1>8, <1>9, <1>10, <1>11, <1>12, <1>13,
           <1>14, <1>15 DEF RegistryStep

LEMMA TypesKept ==
    ASSUME Pub!TypeOK, NEW r \in Runs, Quiet(r) \/ RegistryStep(r),
           EventTypes, faults' \in 0 .. MaxFaults, beside' \in [Runs -> SUBSET Runs]
    PROVE  Pub!TypeOK'
<1>1. RegistryTypes
  BY QuietTypes, RegistryStepTypes
<1> QED BY <1>1 DEF Pub!TypeOK, RegistryTypes, EventTypes

-----------------------------------------------------------------------------
(* Runs that share the process *)

LEMMA AtWorkKept ==
    ASSUME Pub!TypeOK, NEW r \in Runs, RegistryStep(r),
           \A s \in Runs : Pub!ThreadOwnsItsNodes(s)
    PROVE  /\ beside' = beside
           /\ \A s \in Runs : Pub!AtWork(s)' => Pub!AtWork(s)
<1> USE Types
<1>0. SUFFICES ASSUME NEW s \in Runs
               PROVE  beside' = beside /\ (Pub!AtWork(s)' => Pub!AtWork(s))
  OBVIOUS
<1> USE DEF Pub!AtWork, Pub!Alive
<1>1. CASE Pub!Start(r)
  <2>1. launch[r].pc = "starting"
    BY <1>1 DEF Pub!Start
  <2>2. /\ \A q \in Runs : q # r => launch'[q] = launch[q] /\ thread'[q] = thread[q]
        /\ beside' = beside
    BY <1>1, StartStep DEF GoesTo, LaunchMoves, ThreadAt, ThreadMoves, Pub!history
  <2> QED BY <2>1, <2>2
<1>2. CASE Pub!List(r)
  BY <1>2, ListStep DEF LaunchMoves, Pub!history
<1>3. CASE Pub!Copy(r)
  BY <1>3, CopyStep DEF LaunchMoves, Pub!history
<1>4. CASE Pub!Report(r)
  BY <1>4, ReportStep DEF LaunchMoves, Pub!history
<1>5. CASE Pub!LaunchClears(r)
  BY <1>5, LaunchClearsStep DEF LaunchMoves
<1>6. ASSUME NEW node \in Pub!Nodes, LaunchClosing(r, node)
      PROVE  beside' = beside /\ (Pub!AtWork(s)' => Pub!AtWork(s))
  BY <1>6 DEF LaunchMoves, LaunchClosing, Pub!history
<1>7. CASE Pub!OpenBar(r)
  BY <1>7, OpenBarStep DEF ThreadAt, ThreadMoves, Pub!history
<1>8. CASE Pub!Advance(r)
  BY <1>8, AdvanceStep DEF Pub!history
<1>9. CASE Pub!CloseBar(r)
  BY <1>9, CloseBarStep DEF ThreadAt, ThreadMoves, Pub!history
<1>10. CASE Pub!Raise(r)
  BY <1>10, RaiseStep DEF ThreadAt, ThreadMoves, Pub!history
<1>11. CASE Pub!Finish(r)
  BY <1>11, FinishStep DEF ThreadAt, ThreadMoves, Pub!history
<1>12. CASE Pub!ThreadClears(r)
  BY <1>12, ThreadClearsStep DEF ThreadAt, ThreadMoves
<1>13. ASSUME NEW node \in Pub!Nodes, ThreadClosing(r, node)
       PROVE  beside' = beside /\ (Pub!AtWork(s)' => Pub!AtWork(s))
  BY <1>13 DEF ThreadAt, ThreadMoves, ThreadClosing, Pub!history
<1>14. CASE ThreadEnds(r)
  BY <1>14 DEF ThreadAt, ThreadMoves, ThreadEnds, Pub!history
<1>15. CASE Pub!Collect(r)
  BY <1>15, CollectStep DEF Pub!history
<1> QED BY <1>1, <1>2, <1>3, <1>4, <1>5, <1>6, <1>7, <1>8, <1>9, <1>10, <1>11, <1>12, <1>13,
           <1>14, <1>15 DEF RegistryStep

-----------------------------------------------------------------------------
(* The statuses *)

\* Clients are set back only when a send failed.
InOrder(r) ==
    Pub!Order[shown'[r]] < Pub!Order[shown[r]] =>
        shown'[r] \in {"CREATED", "QUEUED"} /\ Pub!SendFailed(r)

\* What holds of a run's status after a step holds of all runs if it is stated of r.
StandsStill(s) ==
    /\ launch'[s] = launch[s] /\ status'[s] = status[s] /\ shown'[s] = shown[s]
    /\ \A q \in Requests : RunOf[q] = s => handler'[q] = handler[q]
StatusMoves(r) ==
    /\ Pub!StatusFollows(r)' /\ InOrder(r)
    /\ \A s \in Runs : s # r => StandsStill(s)

LEMMA OrderIsNat ==
    ASSUME Pub!TypeOK, NEW s \in Runs
    PROVE  Pub!Order[shown[s]] \in 0 .. 3 /\ Pub!Order[status[s]] \in 0 .. 3
  BY Types, OrderFacts

LEMMA StillStatus ==
    ASSUME Pub!TypeOK, NEW s \in Runs, Pub!StatusFollows(s), StandsStill(s)
    PROVE  Pub!StatusFollows(s)' /\ InOrder(s)
<1>1. Pub!SendFailed(s)' <=> Pub!SendFailed(s)
  BY DEF StandsStill, Pub!SendFailed
<1>2. Pub!RequestsTakeTurns(s) => Pub!RequestsTakeTurns(s)'
  BY DEF StandsStill, Pub!RequestsTakeTurns
<1>3. Pub!StatusFollows(s)'
  BY <1>1, <1>2 DEF StandsStill, Pub!StatusFollows
<1> QED BY <1>3, OrderIsNat DEF StandsStill, InOrder

LEMMA StatusMovesFacts ==
    ASSUME Pub!TypeOK, \A s \in Runs : Pub!StatusFollows(s), NEW r \in Runs, StatusMoves(r)
    PROVE  \A s \in Runs : Pub!StatusFollows(s)' /\ InOrder(s)
<1>1. ASSUME NEW s \in Runs, s # r
      PROVE  Pub!StatusFollows(s)' /\ InOrder(s)
  BY <1>1, StillStatus DEF StatusMoves
<1> QED BY <1>1 DEF StatusMoves

\* A launch at pc allows status x.
Allows(pc, x) ==
    /\ pc = "idle" <=> x \in {"CREATED", "QUEUED"}
    /\ pc \in {"telling", "starting", "polling", "listed", "copied", "completing"} =>
           x = "RUNNING"
    /\ pc \in {"failing", "clearing", "closing"} => x \in {"RUNNING", "FAILED"}
    /\ pc = "settled" => x = "COMPLETED"

LEMMA StatusParts ==
    ASSUME NEW r \in Runs
    PROVE  Pub!StatusFollows(r) <=>
               /\ Pub!SendFailed(r) \/ Pub!RequestsTakeTurns(r)
               /\ Pub!Order[shown[r]] <= Pub!Order[status[r]] \/ shown[r] = "QUEUED"
               /\ Allows(launch[r].pc, status[r])
  BY DEF Pub!StatusFollows, Allows
LEMMA StatusPartsNext ==
    ASSUME NEW r \in Runs
    PROVE  Pub!StatusFollows(r)' <=>
               /\ Pub!SendFailed(r)' \/ Pub!RequestsTakeTurns(r)'
               /\ Pub!Order[shown'[r]] <= Pub!Order[status'[r]] \/ shown'[r] = "QUEUED"
               /\ Allows(launch'[r].pc, status'[r])
  BY DEF Pub!StatusFollows, Allows

\* The worker goes on with a claimed run and may publish the status it has.
LEMMA WorkerStatus ==
    ASSUME Pub!TypeOK, NEW r \in Runs, Pub!StatusFollows(r), handler' = handler,
           launch[r].pc # "idle", launch'[r].pc # "idle",
           status' \in [Runs -> DOMAIN Pub!Order], shown' \in [Runs -> DOMAIN Pub!Order],
           Pub!Order[status[r]] <= Pub!Order[status'[r]],
           Allows(launch'[r].pc, status'[r]),
           shown'[r] \in {shown[r], status'[r]},
           \A s \in Runs : s # r => /\ launch'[s] = launch[s] /\ status'[s] = status[s]
                                    /\ shown'[s] = shown[s]
    PROVE  StatusMoves(r)
<1>1. status[r] \notin {"CREATED", "QUEUED"} /\ status'[r] \notin {"CREATED", "QUEUED"}
  BY StatusParts DEF Allows
<1>2. /\ Pub!Order[status'[r]] \in 2 .. 3 /\ Pub!Order[status[r]] \in 2 .. 3
      /\ Pub!Order[shown[r]] \in 0 .. 3 /\ Pub!Order[shown'[r]] \in 0 .. 3
      /\ Pub!Order["QUEUED"] = 1
  BY <1>1, Types, OrderFacts DEF Pub!Order
<1>3. Pub!Order[shown[r]] <= Pub!Order[status[r]]
  BY <1>2, StatusParts
<1>4. Pub!Order[shown'[r]] <= Pub!Order[status'[r]]
  BY <1>2, <1>3
<1>5. Pub!SendFailed(r)' <=> Pub!SendFailed(r)
  BY DEF Pub!SendFailed
<1>6. Pub!RequestsTakeTurns(r) => Pub!RequestsTakeTurns(r)'
  BY <1>1, <1>4 DEF Pub!RequestsTakeTurns
<1>7. Pub!StatusFollows(r)'
  BY <1>4, <1>5, <1>6, StatusParts, StatusPartsNext
<1>8. InOrder(r)
  BY <1>2, <1>3 DEF InOrder
<1> QED BY <1>7, <1>8 DEF StatusMoves, StandsStill

\* Nothing is published, and the launch goes to a state its status allows.
LEMMA StatusStays ==
    ASSUME Pub!TypeOK, NEW r \in Runs, Pub!StatusFollows(r), UNCHANGED Pub!events,
           UNCHANGED launch \/ LaunchMoves(r),
           \/ launch'[r] = launch[r]
           \/ /\ launch[r].pc # "idle" /\ launch'[r].pc # "idle"
              /\ Allows(launch'[r].pc, status[r])
    PROVE  StatusMoves(r)
<1>1. /\ UNCHANGED <<status, shown, handler, queue>>
      /\ \A s \in Runs : s # r => launch'[s] = launch[s]
  BY DEF Pub!events, LaunchMoves
<1>2. CASE launch'[r] = launch[r]
  <2>1. \A s \in Runs : StandsStill(s)
    BY <1>1, <1>2 DEF StandsStill
  <2> QED BY <2>1, StillStatus DEF StatusMoves
<1>3. CASE /\ launch[r].pc # "idle" /\ launch'[r].pc # "idle"
           /\ Allows(launch'[r].pc, status[r])
  <2>1. Pub!Order[status[r]] <= Pub!Order[status'[r]]
    BY <1>1, OrderIsNat
  <2> QED BY <1>1, <1>3, <2>1, Types, WorkerStatus
<1> QED BY <1>2, <1>3

\* A request acts on its run.
LEMMA RequestStatus ==
    ASSUME Pub!TypeOK, NEW q \in Requests, Pub!StatusFollows(RunOf[q]),
           Pub!MessagesWereSent, Pub!Handler(q) \/ Pub!Delivery(q)
    PROVE  StatusMoves(RunOf[q])
<1> PICK r \in Runs : r = RunOf[q]
  BY NodesBelong
<1> USE Types
<1>0. /\ Pub!StatusFollows(r)
      /\ Pub!Order[shown[r]] \in 0 .. 3 /\ Pub!Order[status[r]] \in 0 .. 3
      /\ Pub!Order["CREATED"] = 0 /\ Pub!Order["QUEUED"] = 1 /\ Pub!Order["RUNNING"] = 2
  BY OrderIsNat, OrderFacts
<1>a. ASSUME \A p \in Requests : p # q => handler'[p] = handler[p],
             handler[q] \notin {"recalling", "retelling", "failed"}
      PROVE  Pub!SendFailed(r) => Pub!SendFailed(r)'
  BY <1>a DEF Pub!SendFailed
<1>b. ASSUME \A p \in Requests : p # q => handler'[p] = handler[p]
      PROVE  \A s \in Runs : s # r => \A p \in Requests : RunOf[p] = s => handler'[p] = handler[p]
  BY <1>b
<1>1. CASE Pub!Execute(q)
  <2>1. /\ handler[q] = "idle" /\ status[r] = "CREATED" /\ status'[r] = "QUEUED"
        /\ handler'[q] = "telling" /\ UNCHANGED <<shown, queue, launch>>
        /\ \A s \in Runs : s # r => status'[s] = status[s]
        /\ \A p \in Requests : p # q => handler'[p] = handler[p]
    BY <1>1 DEF Pub!Execute
  <2>2. Pub!RequestsTakeTurns(r) => Pub!RequestsTakeTurns(r)'
    BY <1>0, <2>1 DEF Pub!RequestsTakeTurns
  <2>3. Pub!Order[shown'[r]] <= Pub!Order[status'[r]] \/ shown'[r] = "QUEUED"
    BY <1>0, <2>1, StatusParts
  <2>4. Allows(launch'[r].pc, status'[r])
    BY <1>0, <2>1, StatusParts DEF Allows
  <2>5. Pub!StatusFollows(r)'
    BY <1>0, <1>a, <2>1, <2>2, <2>3, <2>4, StatusParts, StatusPartsNext
  <2> QED BY <1>0, <1>b, <2>1, <2>5 DEF StatusMoves, StandsStill, InOrder
<1>2. CASE Pub!TellQueued(q)
  <2>1. /\ handler[q] = "telling" /\ handler'[q] = "sending"
        /\ UNCHANGED <<status, queue, launch>>
        /\ \A p \in Requests : p # q => handler'[p] = handler[p]
    BY <1>2 DEF Pub!TellQueued
  <2>2. /\ shown'[r] \in {"QUEUED", shown[r]}
        /\ \A s \in Runs : s # r => shown'[s] = shown[s]
    BY <1>2, ToldFacts, OrderFacts DEF Pub!TellQueued
  <2>3. Pub!RequestsTakeTurns(r) => Pub!RequestsTakeTurns(r)' /\ Pub!Order[shown[r]] <= 1
    BY <1>0, <2>1, <2>2 DEF Pub!RequestsTakeTurns
  <2>4. Pub!StatusFollows(r)'
    BY <1>0, <1>a, <2>1, <2>2, <2>3, StatusParts, StatusPartsNext
  <2>5. InOrder(r)
    BY <1>0, <2>2, <2>3, StatusParts DEF InOrder
  <2> QED BY <1>b, <2>1, <2>2, <2>4, <2>5 DEF StatusMoves, StandsStill
<1>3. CASE Pub!Send(q)
  <2>1. /\ handler[q] = "sending" /\ handler'[q] = "over"
        /\ UNCHANGED <<status, shown, launch>>
        /\ \A p \in Requests : p # q => handler'[p] = handler[p]
    BY <1>3 DEF Pub!Send
  <2>2. Pub!RequestsTakeTurns(r) => Pub!RequestsTakeTurns(r)'
    BY <2>1 DEF Pub!RequestsTakeTurns
  <2>3. Pub!StatusFollows(r)'
    BY <1>0, <1>a, <2>1, <2>2, StatusParts, StatusPartsNext
  <2> QED BY <1>0, <1>b, <2>1, <2>3 DEF StatusMoves, StandsStill, InOrder
<1>4. CASE Pub!SendFails(q)
  <2>1. /\ handler'[q] = "recalling" /\ UNCHANGED <<status, shown, launch>>
        /\ \A p \in Requests : p # q => handler'[p] = handler[p]
    BY <1>4 DEF Pub!SendFails
  <2>2. Pub!SendFailed(r)'
    BY <2>1 DEF Pub!SendFailed
  <2>3. Pub!StatusFollows(r)'
    BY <1>0, <2>1, <2>2, StatusParts, StatusPartsNext
  <2> QED BY <1>0, <1>b, <2>1, <2>3 DEF StatusMoves, StandsStill, InOrder
<1>5. CASE Pub!Recall(q)
  <2>1. /\ handler'[q] \in {"retelling", "failed"} /\ UNCHANGED <<shown, launch>>
        /\ status'[r] = IF status[r] = "QUEUED" THEN "CREATED" ELSE status[r]
        /\ \A s \in Runs : s # r => status'[s] = status[s]
        /\ \A p \in Requests : p # q => handler'[p] = handler[p]
    BY <1>5 DEF Pub!Recall
  <2>2. Pub!SendFailed(r)'
    BY <2>1 DEF Pub!SendFailed
  <2>3. Pub!Order[shown'[r]] <= Pub!Order[status'[r]] \/ shown'[r] = "QUEUED"
    <3>1. shown[r] \in DOMAIN Pub!Order
      OBVIOUS
    <3>2. Pub!Order[shown[r]] <= 1 => shown[r] \in {"CREATED", "QUEUED"}
      BY <3>1, OrderFacts
    <3> QED BY <1>0, <2>1, <3>2, StatusParts
  <2>4. Allows(launch'[r].pc, status'[r])
    BY <1>0, <2>1, StatusParts DEF Allows
  <2>5. Pub!StatusFollows(r)'
    BY <2>2, <2>3, <2>4, StatusPartsNext
  <2> QED BY <1>0, <1>b, <2>1, <2>5 DEF StatusMoves, StandsStill, InOrder
<1>6. CASE Pub!TellCreated(q)
  <2>1. /\ handler[q] = "retelling" /\ handler'[q] = "failed"
        /\ UNCHANGED <<status, launch>>
        /\ \A p \in Requests : p # q => handler'[p] = handler[p]
    BY <1>6 DEF Pub!TellCreated
  <2>2. /\ shown'[r] \in {"CREATED", shown[r]}
        /\ \A s \in Runs : s # r => shown'[s] = shown[s]
    BY <1>6, ToldFacts, OrderFacts DEF Pub!TellCreated
  <2>3. Pub!SendFailed(r) /\ Pub!SendFailed(r)'
    BY <2>1 DEF Pub!SendFailed
  <2>4. Pub!StatusFollows(r)'
    BY <1>0, <2>1, <2>2, <2>3, StatusParts, StatusPartsNext
  <2>5. InOrder(r)
    BY <1>0, <2>2, <2>3 DEF InOrder
  <2> QED BY <1>b, <2>1, <2>2, <2>4, <2>5 DEF StatusMoves, StandsStill
<1>7. CASE Pub!Claim(q)
  <2>1. /\ q \in queue /\ status[r] = "QUEUED" /\ status'[r] = "RUNNING"
        /\ UNCHANGED <<shown, handler>>
        /\ \A s \in Runs : s # r => status'[s] = status[s]
    BY <1>7 DEF Pub!Claim
  <2>2. launch'[r].pc = "telling" /\ \A s \in Runs : s # r => launch'[s] = launch[s]
    BY <1>7, ClaimStep DEF EventStep, GoesTo, LaunchMoves
  <2>3. handler[q] \notin {"idle", "telling", "sending"}
    BY <2>1 DEF Pub!MessagesWereSent
  <2>4. Pub!RequestsTakeTurns(r) => Pub!RequestsTakeTurns(r)'
    BY <1>0, <2>1, <2>3 DEF Pub!RequestsTakeTurns
  <2>5. Pub!SendFailed(r) => Pub!SendFailed(r)'
    BY <2>1 DEF Pub!SendFailed
  <2>6. Pub!Order[shown'[r]] <= Pub!Order[status'[r]] \/ shown'[r] = "QUEUED"
    BY <1>0, <2>1, StatusParts
  <2>7. Pub!StatusFollows(r)'
    BY <1>0, <2>1, <2>2, <2>4, <2>5, <2>6, StatusParts, StatusPartsNext DEF Allows
  <2> QED BY <1>0, <2>1, <2>2, <2>7 DEF StatusMoves, StandsStill, InOrder
<1>8. CASE Pub!Drop(q)
  <2>1. \A s \in Runs : StandsStill(s)
    BY <1>8 DEF Pub!Drop, StandsStill
  <2> QED BY <1>0, <2>1, StillStatus DEF StatusMoves
<1> QED BY <1>1, <1>2, <1>3, <1>4, <1>5, <1>6, <1>7, <1>8 DEF Pub!Handler, Pub!Delivery

LEMMA WorkStatus ==
    ASSUME Pub!TypeOK, \A s \in Runs : Pub!StatusFollows(s), NEW r \in Runs,
           Pub!LaunchStep(r) \/ Pub!ThreadStep(r)
    PROVE  StatusMoves(r)
<1> USE Types
<1>0. /\ Pub!StatusFollows(r) /\ Allows(launch[r].pc, status[r])
      /\ Pub!Order["RUNNING"] = 2 /\ Pub!Order["FAILED"] = 3 /\ Pub!Order["COMPLETED"] = 3
      /\ Pub!Order[status[r]] \in 0 .. 3
  BY StatusParts, OrderFacts, OrderIsNat
<1>5. CASE Pub!TellRunning(r)
  <2>1. launch[r].pc = "telling" /\ UNCHANGED <<status, handler, queue>>
    BY <1>5 DEF Pub!TellRunning
  <2>2. launch'[r].pc = "starting" /\ \A s \in Runs : s # r => launch'[s] = launch[s]
    BY <1>5, TellRunningStep DEF EventStep, GoesTo, LaunchMoves
  <2>3. /\ shown'[r] \in {"RUNNING", shown[r]} /\ shown' \in [Runs -> DOMAIN Pub!Order]
        /\ \A s \in Runs : s # r => shown'[s] = shown[s]
    BY <1>5, ToldFacts, OrderFacts DEF Pub!TellRunning
  <2>4. status[r] = "RUNNING" /\ Allows(launch'[r].pc, status'[r])
    BY <1>0, <2>1, <2>2 DEF Allows
  <2> QED BY <1>0, <2>1, <2>2, <2>3, <2>4, WorkerStatus
<1>6. CASE Pub!Fail(r)
  <2>1. CASE status[r] = "RUNNING"
    <3>1. /\ launch[r].pc = "failing" /\ status'[r] = "FAILED"
          /\ UNCHANGED <<launch, shown, handler, queue>>
          /\ status' \in [Runs -> DOMAIN Pub!Order]
          /\ \A s \in Runs : s # r => status'[s] = status[s]
      BY <1>6, <2>1, OrderFacts DEF Pub!Fail
    <3>2. Allows(launch'[r].pc, status'[r])
      BY <3>1 DEF Allows
    <3> QED BY <1>0, <2>1, <3>1, <3>2, WorkerStatus
  <2>2. CASE status[r] # "RUNNING"
    <3>1. /\ launch[r].pc = "failing" /\ status[r] = "FAILED"
          /\ UNCHANGED <<status, handler, queue>>
          /\ Pub!Told(r, "FAILED") \/ Pub!Untold
          /\ Pub!Goto(r, "clearing")
      BY <1>6, <2>2 DEF Pub!Fail
    <3>2. launch'[r].pc = "clearing" /\ \A s \in Runs : s # r => launch'[s] = launch[s]
      BY <3>1, GotoFacts DEF GoesTo, LaunchMoves, LaunchPCs
    <3>3. /\ shown'[r] \in {"FAILED", shown[r]} /\ shown' \in [Runs -> DOMAIN Pub!Order]
          /\ \A s \in Runs : s # r => shown'[s] = shown[s]
      BY <3>1, ToldFacts, OrderFacts
    <3>4. Allows(launch'[r].pc, status'[r])
      BY <3>1, <3>2 DEF Allows
    <3> QED BY <1>0, <3>1, <3>2, <3>3, <3>4, WorkerStatus
  <2> QED BY <2>1, <2>2
<1>7. CASE Pub!Complete(r)
  <2>1. /\ launch[r].pc = "completing" /\ status'[r] = "COMPLETED"
        /\ UNCHANGED <<shown, handler, queue>>
        /\ status' \in [Runs -> DOMAIN Pub!Order]
        /\ \A s \in Runs : s # r => status'[s] = status[s]
    BY <1>7, OrderFacts DEF Pub!Complete
  <2>2. launch'[r].pc = "settled" /\ \A s \in Runs : s # r => launch'[s] = launch[s]
    BY <1>7, CompleteStep DEF EventStep, GoesTo, LaunchMoves
  <2>3. Allows(launch'[r].pc, status'[r])
    BY <2>1, <2>2 DEF Allows
  <2> QED BY <1>0, <2>1, <2>2, <2>3, WorkerStatus
<1>8. CASE Pub!TellCompleted(r)
  <2>1. launch[r].pc = "settled" /\ UNCHANGED <<status, handler, queue>>
    BY <1>8 DEF Pub!TellCompleted
  <2>2. launch'[r].pc = "over" /\ \A s \in Runs : s # r => launch'[s] = launch[s]
    BY <1>8, TellCompletedStep DEF EventStep, GoesTo, LaunchMoves
  <2>3. /\ shown'[r] \in {"COMPLETED", shown[r]} /\ shown' \in [Runs -> DOMAIN Pub!Order]
        /\ \A s \in Runs : s # r => shown'[s] = shown[s]
    BY <1>8, ToldFacts, OrderFacts DEF Pub!TellCompleted
  <2>4. status[r] = "COMPLETED" /\ Allows(launch'[r].pc, status'[r])
    BY <1>0, <2>1, <2>2 DEF Allows
  <2> QED BY <1>0, <2>1, <2>2, <2>3, <2>4, WorkerStatus
<1>9. CASE Pub!StartFails(r)
  <2>1. launch[r].pc = "starting" /\ UNCHANGED Pub!events
    BY <1>9 DEF Pub!StartFails
  <2>2. launch'[r].pc = "failing" /\ LaunchMoves(r)
    BY <1>9, StartFailsStep DEF EventStep, GoesTo
  <2>3. launch[r].pc # "idle" /\ launch'[r].pc # "idle" /\ Allows(launch'[r].pc, status[r])
    BY <1>0, <2>1, <2>2 DEF Allows
  <2> QED BY <1>0, <2>1, <2>2, <2>3, StatusStays
<1>10. CASE Pub!Join(r)
  <2>1. launch[r].pc = "polling" /\ UNCHANGED Pub!events
    BY <1>10 DEF Pub!Join
  <2>2. launch'[r].pc \in {"failing", "clearing"} /\ LaunchMoves(r)
    BY <1>10, JoinStep DEF EventStep, GoesTo
  <2>3. launch[r].pc # "idle" /\ launch'[r].pc # "idle" /\ Allows(launch'[r].pc, status[r])
    BY <1>0, <2>1, <2>2 DEF Allows
  <2> QED BY <1>0, <2>1, <2>2, <2>3, StatusStays
<1>11. CASE Pub!Start(r)
  <2>1. launch[r].pc = "starting" /\ UNCHANGED Pub!events
    BY <1>11 DEF Pub!Start
  <2>2. launch'[r].pc = "polling" /\ LaunchMoves(r)
    BY <1>11, StartStep DEF GoesTo
  <2>3. launch[r].pc # "idle" /\ launch'[r].pc # "idle" /\ Allows(launch'[r].pc, status[r])
    BY <1>0, <2>1, <2>2 DEF Allows
  <2> QED BY <1>0, <2>1, <2>2, <2>3, StatusStays
<1>12. CASE Pub!List(r)
  <2>1. launch[r].pc = "polling" /\ UNCHANGED Pub!events
    BY <1>12 DEF Pub!List
  <2>2. launch'[r].pc = "listed" /\ LaunchMoves(r)
    BY <1>12, ListStep
  <2>3. launch[r].pc # "idle" /\ launch'[r].pc # "idle" /\ Allows(launch'[r].pc, status[r])
    BY <1>0, <2>1, <2>2 DEF Allows
  <2> QED BY <1>0, <2>1, <2>2, <2>3, StatusStays
<1>13. CASE Pub!Copy(r)
  <2>1. launch[r].pc = "listed" /\ UNCHANGED Pub!events
    BY <1>13 DEF Pub!Copy
  <2>2. launch'[r].pc = "copied" /\ LaunchMoves(r)
    BY <1>13, CopyStep
  <2>3. launch[r].pc # "idle" /\ launch'[r].pc # "idle" /\ Allows(launch'[r].pc, status[r])
    BY <1>0, <2>1, <2>2 DEF Allows
  <2> QED BY <1>0, <2>1, <2>2, <2>3, StatusStays
<1>14. CASE Pub!Report(r)
  <2>1. launch[r].pc = "copied" /\ UNCHANGED Pub!events
    BY <1>14 DEF Pub!Report
  <2>2. launch'[r].pc \in {"polling", "failing"} /\ LaunchMoves(r)
    BY <1>14, ReportStep
  <2>3. launch[r].pc # "idle" /\ launch'[r].pc # "idle" /\ Allows(launch'[r].pc, status[r])
    BY <1>0, <2>1, <2>2 DEF Allows
  <2> QED BY <1>0, <2>1, <2>2, <2>3, StatusStays
<1>15. CASE Pub!LaunchClears(r)
  <2>1. launch[r].pc = "clearing" /\ UNCHANGED Pub!events
    BY <1>15 DEF Pub!LaunchClears
  <2>2. launch'[r].pc = "closing" /\ LaunchMoves(r)
    BY <1>15, LaunchClearsStep
  <2>3. launch[r].pc # "idle" /\ launch'[r].pc # "idle" /\ Allows(launch'[r].pc, status[r])
    BY <1>0, <2>1, <2>2 DEF Allows
  <2> QED BY <1>0, <2>1, <2>2, <2>3, StatusStays
<1>16. CASE Pub!LaunchCloses(r)
  <2>1. launch[r].pc = "closing" /\ UNCHANGED Pub!events
    BY <1>16 DEF Pub!LaunchCloses
  <2>2. status[r] \in {"RUNNING", "FAILED"}
    BY <1>0, <2>1 DEF Allows
  <2>3. /\ LaunchMoves(r)
        /\ \/ launch'[r].pc = "closing"
           \/ launch'[r].pc = IF status[r] = "FAILED" THEN "over" ELSE "completing"
    BY <1>16, LaunchClosesStep DEF EventStep, GoesTo
  <2>4. /\ launch'[r].pc \in {"closing", "over", "completing"}
        /\ launch'[r].pc = "completing" => status[r] = "RUNNING"
    BY <2>2, <2>3
  <2>5. launch[r].pc # "idle" /\ launch'[r].pc # "idle" /\ Allows(launch'[r].pc, status[r])
    BY <2>1, <2>2, <2>4 DEF Allows
  <2> QED BY <1>0, <2>1, <2>3, <2>5, StatusStays
<1>17. CASE Pub!ThreadStep(r)
  <2>1. UNCHANGED launch /\ UNCHANGED Pub!events
    BY <1>17 DEF Pub!ThreadStep, Pub!OpenBar, Pub!Advance, Pub!CloseBar, Pub!Raise, Pub!Finish,
       Pub!ThreadClears, Pub!ThreadCloses, Pub!Collect
  <2> QED BY <1>0, <2>1, StatusStays
<1> QED BY <1>5, <1>6, <1>7, <1>8, <1>9, <1>10, <1>11, <1>12, <1>13, <1>14, <1>15, <1>16, <1>17
        DEF Pub!LaunchStep

\* Messages are in the broker after they were sent.
LEMMA MessagesKept ==
    ASSUME Pub!TypeOK, Pub!MessagesWereSent, Pub!Next
    PROVE  Pub!MessagesWereSent'
<1> USE Types
<1>1. ASSUME NEW q \in Requests, Pub!Handler(q) \/ Pub!Delivery(q)
      PROVE  Pub!MessagesWereSent'
  BY <1>1 DEF Pub!MessagesWereSent, Pub!Handler, Pub!Delivery, Pub!Execute, Pub!TellQueued,
     Pub!Send, Pub!SendFails, Pub!Recall, Pub!TellCreated, Pub!Claim, Pub!Drop
<1>2. ASSUME NEW r \in Runs, Pub!LaunchStep(r) \/ Pub!ThreadStep(r)
      PROVE  Pub!MessagesWereSent'
  <2>1. UNCHANGED <<handler, queue>>
    BY <1>2 DEF Pub!LaunchStep, Pub!ThreadStep, Pub!TellRunning, Pub!Start, Pub!StartFails,
       Pub!List, Pub!Copy, Pub!Report, Pub!Join, Pub!Fail, Pub!LaunchClears, Pub!LaunchCloses,
       Pub!Complete, Pub!TellCompleted, Pub!OpenBar, Pub!Advance, Pub!CloseBar, Pub!Raise,
       Pub!Finish, Pub!ThreadClears, Pub!ThreadCloses, Pub!Collect, Pub!events
  <2> QED BY <2>1 DEF Pub!MessagesWereSent
<1> QED BY <1>1, <1>2 DEF Pub!Next

-----------------------------------------------------------------------------
(* Runs at work beside each other know it *)

LEMMA OverlapStands ==
    ASSUME Pub!OverlapIsNoticed, Grows \/ beside' = beside,
           \A s \in Runs : Pub!AtWork(s)' => Pub!AtWork(s)
    PROVE  Pub!OverlapIsNoticed'
<1>1. SUFFICES ASSUME NEW p \in Runs, NEW s \in Runs, p # s, Pub!AtWork(p)', Pub!AtWork(s)'
               PROVE  s \in beside'[p]
  BY DEF Pub!OverlapIsNoticed
<1>2. Pub!AtWork(p) /\ Pub!AtWork(s)
  BY <1>1
<1> QED BY <1>1, <1>2 DEF Pub!OverlapIsNoticed, Grows

\* Requests set no run to work: one that is claimed has yet to be told.
LEMMA OverlapKeptByRequests ==
    ASSUME Pub!TypeOK, NEW q \in Requests, Pub!OverlapIsNoticed,
           Pub!StatusFollows(RunOf[q]), Pub!Handler(q) \/ Pub!Delivery(q)
    PROVE  Pub!OverlapIsNoticed'
<1>1. CASE Pub!Handler(q) \/ Pub!Drop(q)
  <2>1. UNCHANGED <<launch, thread>> /\ beside' = beside
    BY <1>1, HandlerStep, DropStep DEF Pub!history
  <2> QED BY <2>1, OverlapStands DEF Pub!AtWork, Pub!Alive
<1>2. CASE Pub!Claim(q)
  <2>1. PICK r \in Runs : r = RunOf[q]
    BY NodesBelong
  <2>2. /\ thread' = thread /\ beside' = beside /\ launch'[r].pc = "telling"
        /\ \A s \in Runs : s # r => launch'[s] = launch[s]
    BY <1>2, <2>1, ClaimStep DEF EventStep, GoesTo, LaunchMoves
  <2>3. \A s \in Runs : Pub!AtWork(s)' => Pub!AtWork(s)
    BY <2>2 DEF Pub!AtWork, Pub!Alive
  <2> QED BY <2>2, <2>3, OverlapStands
<1> QED BY <1>1, <1>2 DEF Pub!Delivery

LEMMA OverlapKept ==
    ASSUME Pub!TypeOK, \A s \in Runs : Pub!ThreadOwnsItsNodes(s), Pub!OverlapIsNoticed,
           NEW r \in Runs, Pub!LaunchStep(r) \/ Pub!ThreadStep(r)
    PROVE  Pub!OverlapIsNoticed'
<1>2. CASE Pub!TellRunning(r)
  <2>1. /\ thread' = thread /\ \A s \in Runs : s # r => launch'[s] = launch[s]
        /\ Grows
        /\ \A s \in Runs :
              beside'[s] = IF s = r THEN beside[r] \cup Pub!Others(r)
                           ELSE IF s \in Pub!Others(r) THEN beside[s] \cup {r}
                           ELSE beside[s]
    BY <1>2, TellRunningStep DEF Pub!TellRunning, EventStep, GoesTo, LaunchMoves
  <2>2. \A s \in Runs : s # r /\ Pub!AtWork(s)' => Pub!AtWork(s) /\ s \in Pub!Others(r)
    BY <2>1 DEF Pub!AtWork, Pub!Alive, Pub!Others
  <2>3. SUFFICES ASSUME NEW p \in Runs, NEW s \in Runs, p # s, Pub!AtWork(p)', Pub!AtWork(s)'
                 PROVE  s \in beside'[p]
    BY DEF Pub!OverlapIsNoticed
  <2>4. CASE p # r /\ s # r
    BY <2>1, <2>2, <2>3, <2>4 DEF Pub!OverlapIsNoticed, Grows
  <2>5. CASE p = r \/ s = r
    BY <2>1, <2>2, <2>3, <2>5
  <2> QED BY <2>4, <2>5
<1>3. CASE RegistryStep(r)
  BY <1>3, AtWorkKept, OverlapStands
<1>4. CASE Quiet(r) /\ ~Pub!TellRunning(r) /\ ~RegistryStep(r)
  <2>1. thread' = thread /\ Grows
    BY <1>4 DEF Quiet
  <2>2. CASE UNCHANGED launch
    BY <2>1, <2>2, OverlapStands DEF Pub!AtWork, Pub!Alive
  <2>3. CASE LaunchMoves(r) /\ (Pub!AtWork(r)' => Pub!AtWork(r))
    <3>1. \A s \in Runs : Pub!AtWork(s)' => Pub!AtWork(s)
      BY <2>1, <2>3 DEF Pub!AtWork, Pub!Alive, LaunchMoves
    <3> QED BY <2>1, <3>1, OverlapStands
  <2>6. CASE Pub!StartFails(r)
    <3>1. launch[r].pc = "starting"
      BY <2>6 DEF Pub!StartFails
    <3> QED BY <2>3, <2>6, <3>1, StartFailsStep DEF EventStep, GoesTo, Pub!AtWork
  <2>7. CASE Pub!Join(r)
    <3>1. launch[r].pc = "polling"
      BY <2>7 DEF Pub!Join
    <3> QED BY <2>3, <2>7, <3>1, JoinStep DEF EventStep, GoesTo, Pub!AtWork
  <2>8. CASE Pub!Fail(r)
    <3>1. launch[r].pc = "failing"
      BY <2>8 DEF Pub!Fail
    <3> QED BY <2>2, <2>3, <2>8, <3>1, FailStep DEF EventStep, GoesTo, Pub!AtWork
  <2>9. CASE Pub!Complete(r)
    BY <2>1, <2>3, <2>9, CompleteStep DEF EventStep, GoesTo, Pub!AtWork, Pub!Alive
  <2>10. CASE Pub!TellCompleted(r)
    BY <2>1, <2>3, <2>10, TellCompletedStep DEF EventStep, GoesTo, Pub!AtWork, Pub!Alive
  <2>11. CASE Pub!LaunchCloses(r)
    <3>1. launch[r].pc = "closing"
      BY <2>11 DEF Pub!LaunchCloses
    <3>2. LaunchMoves(r)
      BY <2>11, LaunchClosesStep DEF EventStep, GoesTo
    <3> QED BY <2>3, <3>1, <3>2 DEF Pub!AtWork
  <2>12. CASE Pub!ThreadStep(r)
    <3>1. UNCHANGED launch
      BY <2>12 DEF Pub!ThreadStep, Pub!OpenBar, Pub!Advance, Pub!CloseBar, Pub!Raise,
         Pub!Finish,
         Pub!ThreadClears, Pub!ThreadCloses, Pub!Collect
    <3> QED BY <2>2, <3>1
  <2> QED BY <1>4, <2>6, <2>7, <2>8, <2>9, <2>10, <2>11, <2>12
          DEF Pub!LaunchStep, RegistryStep
<1> QED BY <1>2, <1>3, <1>4, StepKinds

-----------------------------------------------------------------------------
(* A thread and its nodes *)

LEMMA OneOwner ==
    ASSUME NEW q \in Runs, NEW s \in Runs, NEW n \in NodesOf[q], n \in NodesOf[s]
    PROVE  q = s
  BY NodesBelong

\* Somebody in the process has the bar of n.
Knows(n) ==
    \/ n \in active
    \/ \E s \in Runs : n \in launch[s].listed \cup thread[s].captured

LEMMA Unknown ==
    ASSUME NEW q \in Runs, Pub!ThreadOwnsItsNodes(q), NEW n \in thread[q].todo
    PROVE  /\ ~Knows(n) /\ n \in NodesOf[q] /\ n \in Pub!Nodes
           /\ bar[n].state = "none" /\ bar[n].count = 0
  BY NodesBelong DEF Pub!ThreadOwnsItsNodes, Knows

LEMMA OwnRegistered ==
    ASSUME NEW q \in Runs, Pub!ThreadOwnsItsNodes(q)
    PROVE  /\ \A n \in thread[q].at : \A m \in thread[q].at : n = m
           /\ thread[q].pc = "running" => active \cap NodesOf[q] \subseteq thread[q].at
           /\ thread[q].pc = "none" => active \cap NodesOf[q] = {}
           /\ launch[q].pc \in {"idle", "telling", "starting"} => thread[q].pc = "none"
  BY DEF Pub!ThreadOwnsItsNodes, Pub!Running

LEMMA AtNode ==
    ASSUME NEW q \in Runs, Pub!ThreadOwnsItsNodes(q), NEW n \in thread[q].at
    PROVE  n \in NodesOf[q] /\ n \in Pub!Nodes /\ bar[n].state \in {"open", "frozen"}
  BY NodesBelong DEF Pub!ThreadOwnsItsNodes

Early == {"idle", "telling", "starting"}

\* What a step of r must keep so that every thread owns its nodes.
OwnershipMoves(r) ==
    /\ \A s \in Runs : s # r => launch'[s] = launch[s] /\ thread'[s] = thread[s]
    /\ launch'[r].pc \in Early => launch[r].pc \in Early /\ thread'[r].pc = thread[r].pc
    /\ thread'[r].pc = "none" => /\ thread[r].pc = "none"
                                 /\ thread'[r].todo = thread[r].todo
    /\ thread'[r].todo \subseteq thread[r].todo /\ thread'[r].at \subseteq NodesOf[r]
    /\ \A n \in thread'[r].at : \A m \in thread'[r].at : n = m
    /\ \A q \in Runs :
          /\ thread'[q].pc = "running" => active' \cap NodesOf[q] \subseteq thread'[q].at
          /\ \A n \in thread'[q].at : bar'[n].state \in {"open", "frozen"}
          /\ \A n \in thread'[q].todo : bar'[n] = bar[n] /\ ~Knows(n)'

LEMMA OwnershipKept ==
    ASSUME \A q \in Runs : Pub!ThreadOwnsItsNodes(q), NEW r \in Runs, OwnershipMoves(r)
    PROVE  \A q \in Runs : Pub!ThreadOwnsItsNodes(q)'
<1>1. SUFFICES ASSUME NEW q \in Runs
               PROVE  Pub!ThreadOwnsItsNodes(q)'
  OBVIOUS
<1>2. launch'[q].pc \in Early => launch[q].pc \in Early /\ thread'[q].pc = thread[q].pc
  BY DEF OwnershipMoves
<1>3. thread'[q].pc = "none" => /\ thread[q].pc = "none"
                                /\ thread'[q].todo = thread[q].todo
  BY DEF OwnershipMoves
<1>4. thread'[q].todo \subseteq thread[q].todo
  BY DEF OwnershipMoves
<1>5. thread'[q].at \subseteq NodesOf[q]
  BY DEF OwnershipMoves, Pub!ThreadOwnsItsNodes
<1>6. /\ \A n \in thread'[q].at : bar'[n].state \in {"open", "frozen"}
      /\ \A n \in thread'[q].todo : bar'[n] = bar[n] /\ ~Knows(n)'
  BY DEF OwnershipMoves
<1>7. Pub!ThreadOwnsItsNodes(q)
  OBVIOUS
<1>8. launch'[q].pc \in Early => thread'[q].pc = "none"
  BY <1>2, <1>7 DEF Pub!ThreadOwnsItsNodes, Early
<1>9. thread'[q].pc = "none" => thread'[q].todo = NodesOf[q]
  BY <1>3, <1>7 DEF Pub!ThreadOwnsItsNodes
<1>10. thread'[q].todo \cup thread'[q].at \subseteq NodesOf[q]
  BY <1>4, <1>5, <1>7 DEF Pub!ThreadOwnsItsNodes
<1>11. ASSUME NEW n \in thread'[q].todo
       PROVE  /\ bar'[n] = [state |-> "none", count |-> 0]
              /\ n \notin active'
              /\ \A s \in Runs : n \notin launch'[s].listed \cup thread'[s].captured
  <2>1. bar[n] = [state |-> "none", count |-> 0]
    BY <1>4, <1>7 DEF Pub!ThreadOwnsItsNodes
  <2>2. bar'[n] = bar[n] /\ ~Knows(n)'
    BY <1>6
  <2> QED BY <2>1, <2>2 DEF Knows
<1>12. \A n \in thread'[q].at : \A m \in thread'[q].at : n = m
  BY <1>7, OwnRegistered DEF OwnershipMoves
<1>13. thread'[q].pc = "running" => active' \cap NodesOf[q] \subseteq thread'[q].at
  BY DEF OwnershipMoves
<1> QED BY <1>6, <1>8, <1>9, <1>10, <1>11, <1>12, <1>13
        DEF Pub!ThreadOwnsItsNodes, Pub!Running, Early

\* The part of OwnershipMoves about the run that moves.
OwnLife(r) ==
    /\ \A s \in Runs : s # r => launch'[s] = launch[s] /\ thread'[s] = thread[s]
    /\ launch'[r].pc \in Early => launch[r].pc \in Early /\ thread'[r].pc = thread[r].pc
    /\ thread'[r].pc = "none" => /\ thread[r].pc = "none"
                                 /\ thread'[r].todo = thread[r].todo
    /\ thread'[r].todo \subseteq thread[r].todo
    /\ thread'[r].at \subseteq thread[r].at
    /\ thread'[r].pc = "running" => active' \cap NodesOf[r] \subseteq thread'[r].at

\* A step that opens no bar, and tells nobody of a new node.
LearnsNothing ==
    /\ active' \subseteq active
    /\ \A n \in Pub!Nodes :
          /\ Knows(n)' => Knows(n)
          /\ bar'[n] = bar[n] \/ (Knows(n) /\ bar'[n].state = "frozen")

LEMMA NothingLearnt ==
    ASSUME \A q \in Runs : Pub!ThreadOwnsItsNodes(q), NEW r \in Runs, OwnLife(r),
           LearnsNothing
    PROVE  OwnershipMoves(r)
<1>1. /\ thread'[r].at \subseteq NodesOf[r]
      /\ \A q \in Runs : thread'[q].at \subseteq thread[q].at
      /\ \A q \in Runs : thread'[q].todo \subseteq thread[q].todo
  BY DEF OwnLife, Pub!ThreadOwnsItsNodes
<1>2. ASSUME NEW q \in Runs, NEW n \in thread'[q].at
      PROVE  bar'[n].state \in {"open", "frozen"}
  <2>1. n \in Pub!Nodes /\ bar[n].state \in {"open", "frozen"}
    BY <1>1, AtNode
  <2> QED BY <2>1 DEF LearnsNothing
<1>3. ASSUME NEW q \in Runs, NEW n \in thread'[q].todo
      PROVE  bar'[n] = bar[n] /\ ~Knows(n)'
  <2>1. n \in Pub!Nodes /\ ~Knows(n)
    BY <1>1, Unknown
  <2> QED BY <2>1 DEF LearnsNothing
<1>4. \A n \in thread'[r].at : \A m \in thread'[r].at : n = m
  BY <1>1, OwnRegistered
<1>5. ASSUME NEW q \in Runs, thread'[q].pc = "running"
      PROVE  active' \cap NodesOf[q] \subseteq thread'[q].at
  <2>1. CASE q = r
    BY <1>5, <2>1 DEF OwnLife
  <2>2. CASE q # r
    <3>1. active \cap NodesOf[q] \subseteq thread[q].at /\ thread'[q] = thread[q]
      BY <1>5, <2>2, OwnRegistered DEF OwnLife
    <3> QED BY <3>1 DEF LearnsNothing
  <2> QED BY <2>1, <2>2
<1> QED BY <1>1, <1>2, <1>3, <1>4, <1>5 DEF OwnershipMoves, OwnLife

LEMMA QuietOwnership ==
    ASSUME Pub!TypeOK, \A q \in Runs : Pub!ThreadOwnsItsNodes(q), NEW r \in Runs, Quiet(r)
    PROVE  OwnershipMoves(r)
<1>1. UNCHANGED <<thread, bar, active, closed>>
  BY DEF Quiet, Pub!registry
<1>2. CASE UNCHANGED launch
  <2>1. OwnLife(r)
    BY <1>1, <1>2, OwnRegistered DEF OwnLife
  <2>2. LearnsNothing
    BY <1>1, <1>2 DEF LearnsNothing, Knows
  <2> QED BY <1>1, <2>1, <2>2, NothingLearnt
<1>3. ASSUME NEW pc \in LaunchPCs, EventStep(r, pc)
      PROVE  OwnershipMoves(r)
  <2>1. /\ \A s \in Runs : launch'[s].listed = launch[s].listed
        /\ \A s \in Runs : s # r => launch'[s] = launch[s]
        /\ launch'[r].pc \in Early => launch[r].pc \in Early
    BY <1>3 DEF EventStep, GoesTo, LaunchMoves, Early
  <2>2. OwnLife(r)
    BY <1>1, <2>1, OwnRegistered DEF OwnLife
  <2>3. LearnsNothing
    BY <1>1, <2>1 DEF LearnsNothing, Knows
  <2> QED BY <1>1, <2>2, <2>3, NothingLearnt
<1> QED BY <1>2, <1>3 DEF Quiet

LEMMA LaunchOwnership ==
    ASSUME Pub!TypeOK, \A q \in Runs : Pub!ThreadOwnsItsNodes(q), NEW r \in Runs,
           Pub!Start(r) \/ Pub!List(r) \/ Pub!Copy(r) \/ Pub!Report(r) \/ Pub!LaunchClears(r)
    PROVE  OwnershipMoves(r)
<1>1. CASE Pub!Start(r)
  <2>1. /\ UNCHANGED <<bar, active, closed>> /\ launch'[r].pc = "polling"
        /\ \A s \in Runs : s # r => launch'[s] = launch[s] /\ thread'[s] = thread[s]
        /\ \A s \in Runs : launch'[s].listed = launch[s].listed
    BY <1>1, StartStep DEF GoesTo, LaunchMoves, ThreadAt, ThreadMoves, Pub!registry
  <2>2. /\ thread'[r].pc = "running" /\ thread'[r].todo = thread[r].todo
        /\ thread'[r].at = thread[r].at /\ thread'[r].captured = thread[r].captured
    BY <1>1, StartStep DEF ThreadAt
  <2>3. OwnLife(r)
    <3>1. launch[r].pc = "starting"
      BY <1>1 DEF Pub!Start
    <3>2. active' \cap NodesOf[r] = {}
      BY <2>1, <3>1, OwnRegistered
    <3> QED BY <2>1, <2>2, <3>2 DEF OwnLife, Early
  <2>4. \A s \in Runs : thread'[s].captured = thread[s].captured
    BY <2>1, <2>2
  <2>5. LearnsNothing
    BY <2>1, <2>4 DEF LearnsNothing, Knows
  <2> QED BY <2>1, <2>3, <2>5, NothingLearnt
<1>2. CASE Pub!List(r)
  <2>1. /\ UNCHANGED <<bar, active, closed, thread>> /\ launch'[r].pc = "listed"
        /\ \A s \in Runs : s # r => launch'[s] = launch[s]
        /\ launch'[r].listed = active /\ launch'[r].copied = launch[r].copied
    BY <1>2, ListStep DEF LaunchMoves, Pub!registry
  <2>2. OwnLife(r)
    BY <2>1, OwnRegistered DEF OwnLife, Early
  <2>3. LearnsNothing
    BY <2>1 DEF LearnsNothing, Knows
  <2> QED BY <2>1, <2>2, <2>3, NothingLearnt
<1>3. CASE Pub!Copy(r)
  <2>1. /\ UNCHANGED <<bar, active, closed, thread>> /\ launch'[r].pc = "copied"
        /\ \A s \in Runs : s # r => launch'[s] = launch[s]
        /\ launch'[r].copied = closed /\ launch'[r].listed = launch[r].listed
    BY <1>3, CopyStep DEF LaunchMoves, Pub!registry
  <2>2. OwnLife(r)
    BY <2>1, OwnRegistered DEF OwnLife, Early
  <2>3. LearnsNothing
    BY <2>1 DEF LearnsNothing, Knows
  <2> QED BY <2>1, <2>2, <2>3, NothingLearnt
<1>4. CASE Pub!Report(r)
  <2>1. /\ UNCHANGED <<bar, active, closed, thread>>
        /\ launch'[r].pc \in {"polling", "failing"}
        /\ \A s \in Runs : s # r => launch'[s] = launch[s]
        /\ DOMAIN launch'[r].copied = {} /\ launch'[r].listed = {}
    BY <1>4, ReportStep DEF LaunchMoves, Pub!registry
  <2>2. OwnLife(r)
    BY <2>1, OwnRegistered DEF OwnLife, Early
  <2>3. LearnsNothing
    BY <2>1 DEF LearnsNothing, Knows
  <2> QED BY <2>1, <2>2, <2>3, NothingLearnt
<1>5. CASE Pub!LaunchClears(r)
  <2>1. /\ UNCHANGED <<bar, thread>> /\ launch'[r].pc = "closing"
        /\ \A s \in Runs : s # r => launch'[s] = launch[s]
        /\ launch'[r].listed = active /\ launch'[r].copied = launch[r].copied
        /\ active' = {} /\ DOMAIN closed' = {}
    BY <1>5, LaunchClearsStep, ClearFacts DEF LaunchMoves
  <2>2. OwnLife(r)
    BY <2>1, OwnRegistered DEF OwnLife, Early
  <2>3. LearnsNothing
    BY <2>1 DEF LearnsNothing, Knows
  <2> QED BY <2>1, <2>2, <2>3, NothingLearnt
<1> QED BY <1>1, <1>2, <1>3, <1>4, <1>5

LEMMA ClosingOwnership ==
    ASSUME Pub!TypeOK, \A q \in Runs : Pub!ThreadOwnsItsNodes(q), NEW r \in Runs,
           NEW node \in Pub!Nodes, LaunchClosing(r, node) \/ ThreadClosing(r, node)
    PROVE  OwnershipMoves(r)
<1>1. Pub!CloseCaptured(node) /\ Knows(node)
  BY DEF LaunchClosing, ThreadClosing, Knows
<1>2. /\ active' \subseteq active
      /\ \A n \in Pub!Nodes : n # node => bar'[n] = bar[n]
      /\ bar' \in [Pub!Nodes -> Pub!Bar]
      /\ bar'[node].count = bar[node].count
      /\ bar'[node].state = IF bar[node].state = "open" THEN "frozen" ELSE bar[node].state
  BY <1>1, ClosedFacts
<1>3. bar'[node] = bar[node] \/ bar'[node].state = "frozen"
  <2>1. bar[node] \in Pub!Bar /\ bar'[node] \in Pub!Bar
    BY <1>2, Types
  <2>2. bar[node] = [state |-> bar[node].state, count |-> bar[node].count]
        /\ bar'[node] = [state |-> bar'[node].state, count |-> bar'[node].count]
    BY <2>1 DEF Pub!Bar
  <2> QED BY <1>2, <2>2
<1>4. CASE LaunchClosing(r, node)
  <2>1. /\ thread' = thread /\ launch'[r].pc = "closing"
        /\ \A s \in Runs : s # r => launch'[s] = launch[s]
        /\ launch'[r].listed \subseteq launch[r].listed
    BY <1>4 DEF LaunchClosing, LaunchMoves
  <2>2. OwnLife(r)
    BY <1>2, <2>1, OwnRegistered DEF OwnLife, Early
  <2>3. \A n \in Pub!Nodes : Knows(n)' => Knows(n) \/ n = node
    BY <1>2, <2>1 DEF Knows
  <2>4. LearnsNothing
    BY <1>1, <1>2, <1>3, <2>3 DEF LearnsNothing
  <2> QED BY <2>2, <2>4, NothingLearnt
<1>5. CASE ThreadClosing(r, node)
  <2>1. /\ launch' = launch /\ thread[r].pc = "closing" /\ thread'[r].pc = "closing"
        /\ \A s \in Runs : s # r => thread'[s] = thread[s]
        /\ thread'[r].todo = thread[r].todo /\ thread'[r].at = thread[r].at
        /\ thread'[r].captured \subseteq thread[r].captured
    BY <1>5 DEF ThreadClosing, ThreadAt, ThreadMoves
  <2>2. OwnLife(r)
    BY <2>1 DEF OwnLife
  <2>3. \A n \in Pub!Nodes : Knows(n)' => Knows(n) \/ n = node
    BY <1>2, <2>1 DEF Knows
  <2>4. LearnsNothing
    BY <1>1, <1>2, <1>3, <2>3 DEF LearnsNothing
  <2> QED BY <2>2, <2>4, NothingLearnt
<1> QED BY <1>4, <1>5

\* The steps of a thread that knows its nodes.
LEMMA ThreadOwnership ==
    ASSUME Pub!TypeOK, \A q \in Runs : Pub!ThreadOwnsItsNodes(q), NEW r \in Runs,
           \/ Pub!OpenBar(r) \/ Pub!Advance(r) \/ Pub!CloseBar(r) \/ Pub!Raise(r) \/ Pub!Finish(r)
           \/ Pub!ThreadClears(r) \/ ThreadEnds(r) \/ Pub!Collect(r)
    PROVE  OwnershipMoves(r)
<1>1. CASE Pub!OpenBar(r)
  <2>1. PICK node \in thread[r].todo :
            LET t == thread[r]
            IN /\ ThreadAt(r, "running", t.todo \ {node}, {node}, t.captured)
               /\ node \in Pub!Nodes /\ active' = active \cup {node}
               /\ bar'[node].state = "open"
               /\ \A n \in Pub!Nodes : n # node => bar'[n] = bar[n]
    BY <1>1, OpenBarStep
  <2>2. node \in NodesOf[r] /\ \A q \in Runs : q # r => node \notin thread[q].todo
    BY Unknown, OneOwner
  <2>3. /\ launch' = launch /\ closed' = closed /\ thread'[r].pc = "running"
        /\ thread'[r].todo = thread[r].todo \ {node} /\ thread'[r].at = {node}
        /\ \A s \in Runs : s # r => thread'[s] = thread[s]
        /\ \A s \in Runs : thread'[s].captured = thread[s].captured
        /\ thread[r].pc = "running"
    BY <1>1, <2>1, OpenBarStep DEF ThreadAt, ThreadMoves
  <2>4. \A n \in Pub!Nodes : Knows(n)' => Knows(n) \/ n = node
    BY <2>1, <2>3 DEF Knows
  <2>5. ASSUME NEW q \in Runs, NEW n \in thread'[q].at
        PROVE  bar'[n].state \in {"open", "frozen"}
    <3>1. CASE q = r
      BY <2>1, <2>3, <3>1
    <3>2. CASE q # r
      <4>1. n \in Pub!Nodes /\ n \in NodesOf[q] /\ bar[n].state \in {"open", "frozen"}
        BY <2>3, <3>2, AtNode
      <4>2. n # node
        BY <2>2, <3>2, <4>1, OneOwner
      <4> QED BY <2>1, <4>1, <4>2
    <3> QED BY <3>1, <3>2
  <2>6. ASSUME NEW q \in Runs, NEW n \in thread'[q].todo
        PROVE  bar'[n] = bar[n] /\ ~Knows(n)'
    <3>1. n \in thread[q].todo /\ n # node
      BY <2>2, <2>3
    <3>2. n \in Pub!Nodes /\ ~Knows(n)
      BY <3>1, Unknown
    <3> QED BY <2>1, <2>4, <3>1, <3>2
  <2>7. ASSUME NEW q \in Runs, thread'[q].pc = "running"
        PROVE  active' \cap NodesOf[q] \subseteq thread'[q].at
    <3>1. CASE q = r
      <4>1. active \cap NodesOf[r] \subseteq thread[r].at /\ thread[r].at = {}
        BY <1>1, <2>3, OwnRegistered DEF Pub!OpenBar
      <4> QED BY <2>1, <2>3, <3>1, <4>1
    <3>2. CASE q # r
      <4>1. active \cap NodesOf[q] \subseteq thread[q].at /\ thread'[q] = thread[q]
        BY <2>3, <2>7, <3>2, OwnRegistered
      <4>2. node \notin NodesOf[q]
        BY <2>2, <3>2, OneOwner
      <4> QED BY <2>1, <4>1, <4>2
    <3> QED BY <3>1, <3>2
  <2> QED BY <2>2, <2>3, <2>5, <2>6, <2>7 DEF OwnershipMoves
<1>2. CASE Pub!Advance(r)
  <2>1. PICK node \in thread[r].at :
            /\ bar'[node].state = "open"
            /\ \A n \in Pub!Nodes : n # node => bar'[n] = bar[n]
    BY <1>2, AdvanceStep
  <2>2. UNCHANGED <<launch, thread, active, closed>>
    BY <1>2, AdvanceStep
  <2>3. node \in Pub!Nodes /\ \A q \in Runs : node \notin thread[q].todo
    BY AtNode, Unknown
  <2>4. ASSUME NEW q \in Runs, NEW n \in thread[q].at
        PROVE  bar'[n].state \in {"open", "frozen"}
    BY <2>1, AtNode
  <2>5. ASSUME NEW q \in Runs, NEW n \in thread[q].todo
        PROVE  bar'[n] = bar[n] /\ ~Knows(n)'
    <3>1. n \in Pub!Nodes /\ n # node /\ ~Knows(n)
      BY <2>3, Unknown
    <3>2. Knows(n)' <=> Knows(n)
      BY <2>2 DEF Knows
    <3> QED BY <2>1, <3>1, <3>2
  <2>6. thread[r].at \subseteq NodesOf[r]
    BY AtNode
  <2> QED BY <2>2, <2>4, <2>5, <2>6, OwnRegistered DEF OwnershipMoves
<1>3. CASE Pub!CloseBar(r)
  <2>1. PICK node \in thread[r].at : node \in Pub!Nodes /\ Closes(node, Steps)
    BY <1>3, CloseBarStep
  <2>2. /\ launch' = launch /\ thread[r].pc = "running" /\ thread'[r].pc = "running"
        /\ thread'[r].todo = thread[r].todo /\ thread'[r].at = {}
        /\ \A s \in Runs : s # r => thread'[s] = thread[s]
        /\ \A s \in Runs : thread'[s].captured = thread[s].captured
    BY <1>3, CloseBarStep DEF ThreadAt, ThreadMoves
  <2>3. \A n \in Pub!Nodes : Knows(n)' => Knows(n) \/ n = node
    BY <2>1, <2>2 DEF Knows, Closes
  <2>4. node \in NodesOf[r] /\ \A q \in Runs : node \notin thread[q].todo
    BY AtNode, Unknown
  <2>5. ASSUME NEW q \in Runs, NEW n \in thread'[q].at
        PROVE  bar'[n].state \in {"open", "frozen"}
    <3>1. q # r /\ n \in thread[q].at
      BY <2>2
    <3>2. n \in Pub!Nodes /\ n \in NodesOf[q] /\ bar[n].state \in {"open", "frozen"}
      BY <3>1, AtNode
    <3>3. n # node
      BY <2>4, <3>1, <3>2, OneOwner
    <3> QED BY <2>1, <3>2, <3>3 DEF Closes
  <2>6. ASSUME NEW q \in Runs, NEW n \in thread'[q].todo
        PROVE  bar'[n] = bar[n] /\ ~Knows(n)'
    <3>1. n \in thread[q].todo
      BY <2>2
    <3>2. n \in Pub!Nodes /\ n # node /\ ~Knows(n)
      BY <2>4, <3>1, Unknown
    <3> QED BY <2>1, <2>3, <3>2 DEF Closes
  <2>7. ASSUME NEW q \in Runs, thread'[q].pc = "running"
        PROVE  active' \cap NodesOf[q] \subseteq thread'[q].at
    <3>1. active' \subseteq active /\ node \notin active'
      BY <2>1 DEF Closes
    <3>2. CASE q = r
      <4>1. active \cap NodesOf[r] \subseteq thread[r].at
            /\ \A n \in thread[r].at : n = node
        BY <2>1, <2>2, OwnRegistered
      <4> QED BY <3>1, <3>2, <4>1
    <3>3. CASE q # r
      <4>1. active \cap NodesOf[q] \subseteq thread[q].at /\ thread'[q] = thread[q]
        BY <2>2, <2>7, <3>3, OwnRegistered
      <4> QED BY <3>1, <4>1
    <3> QED BY <3>2, <3>3
  <2> QED BY <2>2, <2>5, <2>6, <2>7 DEF OwnershipMoves
<1>4. CASE Pub!Raise(r)
  <2>1. /\ UNCHANGED <<launch, active, closed>> /\ thread[r].pc = "running"
        /\ thread'[r].pc = "clearing"
        /\ thread'[r].todo = thread[r].todo /\ thread'[r].at = {}
        /\ \A s \in Runs : s # r => thread'[s] = thread[s]
        /\ \A s \in Runs : thread'[s].captured = thread[s].captured
        /\ \A n \in Pub!Nodes : n \notin thread[r].at => bar'[n] = bar[n]
    BY <1>4, RaiseStep DEF ThreadAt, ThreadMoves
  <2>2. ASSUME NEW q \in Runs, NEW n \in thread'[q].at
        PROVE  bar'[n].state \in {"open", "frozen"}
    <3>1. q # r /\ n \in thread[q].at
      BY <2>1
    <3>2. n \in Pub!Nodes /\ n \in NodesOf[q] /\ bar[n].state \in {"open", "frozen"}
      BY <3>1, AtNode
    <3>3. n \notin thread[r].at
      BY <3>1, <3>2, AtNode, OneOwner
    <3> QED BY <2>1, <3>2, <3>3
  <2>3. ASSUME NEW q \in Runs, NEW n \in thread'[q].todo
        PROVE  bar'[n] = bar[n] /\ ~Knows(n)'
    <3>1. n \in thread[q].todo
      BY <2>1
    <3>2. n \in Pub!Nodes /\ bar[n].state = "none" /\ ~Knows(n)
      BY <3>1, Unknown
    <3>3. n \notin thread[r].at
      BY <3>2, AtNode
    <3>4. Knows(n)' <=> Knows(n)
      BY <2>1 DEF Knows
    <3> QED BY <2>1, <3>2, <3>3, <3>4
  <2>4. launch[r].pc \notin Early
    BY <2>1 DEF Pub!ThreadOwnsItsNodes, Early
  <2>5. \A q \in Runs : thread'[q].pc = "running" =>
            active' \cap NodesOf[q] \subseteq thread'[q].at
    BY <2>1, OwnRegistered
  <2> QED BY <2>1, <2>2, <2>3, <2>4, <2>5 DEF OwnershipMoves
<1>5. CASE Pub!Finish(r)
  <2>1. /\ UNCHANGED <<launch, bar, active, closed>> /\ thread[r].pc = "running"
        /\ thread'[r].pc = "clearing"
        /\ thread'[r].todo = thread[r].todo /\ thread'[r].at = thread[r].at
        /\ \A s \in Runs : s # r => thread'[s] = thread[s]
        /\ \A s \in Runs : thread'[s].captured = thread[s].captured
    BY <1>5, FinishStep DEF ThreadAt, ThreadMoves, Pub!registry
  <2>2. OwnLife(r)
    <3>1. thread'[r].pc # "none"
      BY <2>1
    <3>2. launch[r].pc \notin Early
      BY <2>1 DEF Pub!ThreadOwnsItsNodes, Early
    <3> QED BY <2>1, <3>1, <3>2 DEF OwnLife
  <2>3. LearnsNothing
    BY <2>1 DEF LearnsNothing, Knows
  <2> QED BY <2>2, <2>3, NothingLearnt
<1>6. CASE Pub!ThreadClears(r)
  <2>1. /\ UNCHANGED <<launch, bar>> /\ active' = {} /\ DOMAIN closed' = {}
        /\ thread[r].pc = "clearing" /\ thread'[r].pc = "closing"
        /\ thread'[r].todo = thread[r].todo /\ thread'[r].at = thread[r].at
        /\ \A s \in Runs : s # r => thread'[s] = thread[s]
        /\ thread'[r].captured = active
    BY <1>6, ThreadClearsStep, ClearFacts DEF ThreadAt, ThreadMoves
  <2>2. OwnLife(r)
    <3>1. thread'[r].pc # "none"
      BY <2>1
    <3>2. launch[r].pc \notin Early
      BY <2>1 DEF Pub!ThreadOwnsItsNodes, Early
    <3> QED BY <2>1, <3>1, <3>2 DEF OwnLife
  <2>3. LearnsNothing
    BY <2>1 DEF LearnsNothing, Knows
  <2> QED BY <2>2, <2>3, NothingLearnt
<1>7. CASE ThreadEnds(r)
  <2>1. /\ UNCHANGED <<launch, bar, active, closed>> /\ thread[r].pc = "closing"
        /\ thread'[r].pc = "over"
        /\ thread'[r].todo = thread[r].todo /\ thread'[r].at = thread[r].at
        /\ \A s \in Runs : s # r => thread'[s] = thread[s]
        /\ \A s \in Runs : thread'[s].captured = thread[s].captured
    BY <1>7 DEF ThreadEnds, ThreadAt, ThreadMoves, Pub!registry
  <2>2. OwnLife(r)
    <3>1. thread'[r].pc # "none"
      BY <2>1
    <3>2. launch[r].pc \notin Early
      BY <2>1 DEF Pub!ThreadOwnsItsNodes, Early
    <3> QED BY <2>1, <3>1, <3>2 DEF OwnLife
  <2>3. LearnsNothing
    BY <2>1 DEF LearnsNothing, Knows
  <2> QED BY <2>2, <2>3, NothingLearnt
<1>8. CASE Pub!Collect(r)
  <2>1. PICK node \in NodesOf[r] :
            /\ node \in Pub!Nodes /\ bar[node].state = "held"
            /\ Closes(node, bar[node].count)
    BY <1>8, CollectStep
  <2>2. UNCHANGED <<launch, thread>>
    BY <1>8, CollectStep
  <2>3. \A q \in Runs : node \notin thread[q].todo /\ node \notin thread[q].at
    <3>1. \A q \in Runs : \A n \in thread[q].todo : bar[n].state = "none"
      BY Unknown
    <3>2. \A q \in Runs : \A n \in thread[q].at : bar[n].state \in {"open", "frozen"}
      BY AtNode
    <3> QED BY <2>1, <3>1, <3>2
  <2>4. \A n \in Pub!Nodes : Knows(n)' => Knows(n) \/ n = node
    BY <2>1, <2>2 DEF Knows, Closes
  <2>5. ASSUME NEW q \in Runs, NEW n \in thread[q].at
        PROVE  bar'[n].state \in {"open", "frozen"}
    <3>1. n \in Pub!Nodes /\ n # node /\ bar[n].state \in {"open", "frozen"}
      BY <2>3, AtNode
    <3> QED BY <2>1, <3>1 DEF Closes
  <2>6. ASSUME NEW q \in Runs, NEW n \in thread[q].todo
        PROVE  bar'[n] = bar[n] /\ ~Knows(n)'
    <3>1. n \in Pub!Nodes /\ n # node /\ ~Knows(n)
      BY <2>3, Unknown
    <3> QED BY <2>1, <2>4, <3>1 DEF Closes
  <2>7. thread[r].at \subseteq NodesOf[r]
    BY AtNode
  <2>8. \A q \in Runs : thread'[q].pc = "running" =>
            active' \cap NodesOf[q] \subseteq thread'[q].at
    <3>1. active' \subseteq active
      BY <2>1 DEF Closes
    <3> QED BY <2>2, <3>1, OwnRegistered
  <2> QED BY <2>2, <2>5, <2>6, <2>7, <2>8, OwnRegistered DEF OwnershipMoves
<1> QED BY <1>1, <1>2, <1>3, <1>4, <1>5, <1>6, <1>7, <1>8

LEMMA OwnershipStep ==
    ASSUME Pub!TypeOK, \A q \in Runs : Pub!ThreadOwnsItsNodes(q),
           NEW r \in Runs, Quiet(r) \/ RegistryStep(r)
    PROVE  \A q \in Runs : Pub!ThreadOwnsItsNodes(q)'
<1>1. OwnershipMoves(r)
  BY QuietOwnership, LaunchOwnership, ClosingOwnership, ThreadOwnership
     DEF RegistryStep
<1> QED BY <1>1, OwnershipKept

LEMMA PollsKept ==
    ASSUME Pub!TypeOK, \A q \in Runs : Pub!PollsAllNodes(q),
           NEW r \in Runs, Quiet(r) \/ RegistryStep(r)
    PROVE  \A q \in Runs : Pub!PollsAllNodes(q)'
<1>1. ASSUME NEW q \in Runs, launch'[q].pc = launch[q].pc \/ ~Pub!Polling(q)',
             progress'[q] = progress[q]
      PROVE  Pub!PollsAllNodes(q)'
  BY <1>1 DEF Pub!PollsAllNodes, Pub!Polling
<1>2. SUFFICES ASSUME NEW q \in Runs
               PROVE  Pub!PollsAllNodes(q)'
  OBVIOUS
<1>3. CASE Quiet(r)
  BY <1>1, <1>3 DEF Quiet, EventStep, GoesTo, LaunchMoves, Pub!Polling
<1>4. CASE Pub!Start(r)
  BY <1>1, <1>4, StartStep DEF GoesTo, LaunchMoves, Pub!PollsAllNodes
<1>5. CASE Pub!List(r)
  <2>1. /\ launch[r].pc = "polling" /\ progress' = progress
        /\ \A s \in Runs : s # r => launch'[s] = launch[s]
    BY <1>5, ListStep DEF LaunchMoves
  <2> QED BY <1>1, <2>1 DEF Pub!PollsAllNodes, Pub!Polling
<1>6. CASE Pub!Copy(r)
  <2>1. /\ launch[r].pc = "listed" /\ progress' = progress
        /\ \A s \in Runs : s # r => launch'[s] = launch[s]
    BY <1>6, CopyStep DEF LaunchMoves
  <2> QED BY <1>1, <2>1 DEF Pub!PollsAllNodes, Pub!Polling
<1>7. CASE Pub!Report(r)
  <2>1. /\ launch[r].pc = "copied"
        /\ \A s \in Runs : s # r => launch'[s] = launch[s] /\ progress'[s] = progress[s]
    BY <1>7, ReportStep DEF LaunchMoves
  <2>2. DOMAIN progress[r] \subseteq DOMAIN progress'[r]
    <3>1. PICK pick \in Pub!Picks(r) : progress'[r] = Pub!Merged(r, pick)
      BY <1>7, ReportStep
    <3>2. DOMAIN Pub!Merged(r, pick) =
              DOMAIN launch[r].copied \cup DOMAIN pick \cup DOMAIN progress[r]
      BY MergedFacts
    <3> QED BY <3>1, <3>2
  <2> QED BY <1>1, <2>1, <2>2 DEF Pub!PollsAllNodes, Pub!Polling
<1>8. CASE Pub!LaunchClears(r)
  <2>1. /\ launch'[r].pc = "closing" /\ progress' = progress
        /\ \A s \in Runs : s # r => launch'[s] = launch[s]
    BY <1>8, LaunchClearsStep DEF LaunchMoves
  <2> QED BY <1>1, <2>1 DEF Pub!Polling
<1>9. ASSUME NEW node \in Pub!Nodes, LaunchClosing(r, node)
      PROVE  Pub!PollsAllNodes(q)'
  <2>1. /\ launch'[r].pc = "closing" /\ progress' = progress
        /\ \A s \in Runs : s # r => launch'[s] = launch[s]
    BY <1>9 DEF LaunchClosing, LaunchMoves
  <2> QED BY <1>1, <2>1 DEF Pub!Polling
<1>10. CASE UNCHANGED <<launch, progress>>
  BY <1>1, <1>10
<1> QED BY <1>3, <1>4, <1>5, <1>6, <1>7, <1>8, <1>9, <1>10, OpenBarStep,
           AdvanceStep, CloseBarStep, RaiseStep, FinishStep, ThreadClearsStep, CollectStep
        DEF RegistryStep, ThreadClosing, ThreadEnds

LEMMA OthersStand ==
    ASSUME Pub!TypeOK, \A q \in Runs : Pub!ThreadOwnsItsNodes(q),
           NEW r \in Runs, Quiet(r) \/ RegistryStep(r)
    PROVE  /\ \A s \in Runs : s # r => launch'[s] = launch[s] /\ thread'[s] = thread[s]
           /\ \A s \in Runs : beside[s] \subseteq beside'[s]
<1>1. OwnershipMoves(r)
  BY QuietOwnership, LaunchOwnership, ClosingOwnership, ThreadOwnership DEF RegistryStep
<1>2. \A s \in Runs : beside[s] \subseteq beside'[s]
  BY AtWorkKept DEF Quiet, Grows
<1> QED BY <1>1, <1>2 DEF OwnershipMoves

\* The steps that touch neither a launch nor a message, and those of r that poll.
LEMMA OthersProgress ==
    ASSUME Pub!TypeOK, NEW r \in Runs, Quiet(r) \/ RegistryStep(r), NEW q \in Runs
    PROVE  /\ q # r => progress'[q] = progress[q]
           /\ ~Pub!Start(r) /\ ~Pub!Report(r) => progress' = progress
           /\ stray \subseteq stray'
<1>1. CASE Quiet(r)
  BY <1>1 DEF Quiet
<1>2. CASE Pub!Start(r) \/ Pub!Report(r)
  BY <1>2, StartStep, ReportStep DEF Pub!history
<1>3. CASE Pub!List(r) \/ Pub!Copy(r)
  BY <1>3, ListStep, CopyStep DEF Pub!history
<1>4. CASE Pub!LaunchClears(r) \/ Pub!ThreadClears(r)
  BY <1>4, LaunchClearsStep, ThreadClearsStep, ClearFacts
<1>5. CASE \/ Pub!OpenBar(r) \/ Pub!Advance(r) \/ Pub!CloseBar(r) \/ Pub!Raise(r)
           \/ Pub!Finish(r) \/ Pub!Collect(r)
  BY <1>5, OpenBarStep, AdvanceStep, CloseBarStep, RaiseStep, FinishStep, CollectStep
     DEF Pub!history
<1>6. CASE (\E node \in Pub!Nodes : LaunchClosing(r, node) \/ ThreadClosing(r, node))
           \/ ThreadEnds(r)
  BY <1>6 DEF LaunchClosing, ThreadClosing, ThreadEnds, Pub!history
<1> QED BY <1>1, <1>2, <1>3, <1>4, <1>5, <1>6 DEF RegistryStep

-----------------------------------------------------------------------------
(* The registries of a run that is alone *)

LEMMA Beside ==
    ASSUME Pub!OverlapIsNoticed, NEW q \in Runs, Pub!AtWork(q), NEW s \in Runs, Pub!AtWork(s)
    PROVE  s \in beside[q] \cup {q}
  BY DEF Pub!OverlapIsNoticed

LEMMA NobodyElse ==
    ASSUME Pub!OverlapIsNoticed, NEW q \in Runs, beside[q] = {}, Pub!AtWork(q)
    PROVE  \A s \in Runs : s # q => ~Pub!AtWork(s)
  BY DEF Pub!OverlapIsNoticed

LEMMA PollingIsWork ==
    ASSUME NEW q \in Runs, Pub!Polling(q)
    PROVE  Pub!AtWork(q)
  BY DEF Pub!Polling, Pub!AtWork

\* Only a run at work touches the registries, but for the bars that are collected.
LEMMA IdleSteps ==
    ASSUME Pub!TypeOK, NEW r \in Runs, ~Pub!AtWork(r), RegistryStep(r)
    PROVE  Pub!Collect(r)
<1> USE DEF Pub!AtWork, Pub!Alive
<1>1. ~Pub!Start(r) /\ ~Pub!List(r) /\ ~Pub!Copy(r) /\ ~Pub!Report(r) /\ ~Pub!LaunchClears(r)
  BY DEF Pub!Start, Pub!List, Pub!Copy, Pub!Report, Pub!LaunchClears
<1>2. ~ \E node \in Pub!Nodes : LaunchClosing(r, node) \/ ThreadClosing(r, node)
  BY DEF LaunchClosing, ThreadClosing
<1>3. /\ ~Pub!OpenBar(r) /\ ~Pub!CloseBar(r) /\ ~Pub!Raise(r) /\ ~Pub!Finish(r)
      /\ ~Pub!ThreadClears(r) /\ ~ThreadEnds(r) /\ ~Pub!Advance(r)
  BY DEF Pub!OpenBar, Pub!Advance, Pub!CloseBar, Pub!Raise, Pub!Finish, Pub!ThreadClears,
     ThreadEnds, Pub!Running
<1> QED BY <1>1, <1>2, <1>3 DEF RegistryStep

\* A bar that is collected was met open by a reset.
LEMMA CollectedIsStray ==
    ASSUME Pub!RegistriesAreTidy, NEW r \in Runs, NEW node \in NodesOf[r],
           node \in Pub!Nodes, bar[node].state = "held", ~Pub!Alive(r)
    PROVE  node \notin active /\ IdOf[node] \in stray
  BY DEF Pub!RegistriesAreTidy, Pub!Alive

\* Nothing happens to a node that is current, nor to the nodes that share its id.
LEMMA NodeKept ==
    ASSUME NEW q \in Runs, NEW n \in NodesOf[q], Pub!NodeIsCurrent(q, n),
           launch'[q] = launch[q], progress'[q] = progress[q],
           \A m \in NodesOf[q] : bar'[m] = bar[m], n \in active' <=> n \in active,
           IdOf[n] \in DOMAIN closed' <=> IdOf[n] \in DOMAIN closed,
           IdOf[n] \in DOMAIN closed => closed'[IdOf[n]] = closed[IdOf[n]]
    PROVE  Pub!NodeIsCurrent(q, n)'
<1>1. Pub!Gone(q, IdOf[n])' <=> Pub!Gone(q, IdOf[n])
  BY DEF Pub!Gone
<1> QED BY <1>1 DEF Pub!NodeIsCurrent

\* Counts grow, and what is gone stays so.
LEMMA NodeGrows ==
    ASSUME Pub!TypeOK, NEW r \in Runs, NEW n \in NodesOf[r], Pub!NodeIsCurrent(r, n),
           bar' \in [Pub!Nodes -> Pub!Bar],
           launch'[r] = launch[r], progress'[r] = progress[r],
           IdOf[n] \in DOMAIN progress[r],
           \A m \in NodesOf[r] : /\ bar[m].count <= bar'[m].count
                                 /\ bar[m].state = "gone" => bar'[m].state = "gone",
           bar'[n].state \in {"none", "open", "gone"},
           bar'[n].state = "none" => bar'[n].count = 0,
           bar'[n].state = "open" => n \in active',
           bar'[n].state = "gone" => bar'[n].count = Steps,
           IdOf[n] \in DOMAIN closed' <=> Pub!Gone(r, IdOf[n])',
           IdOf[n] \in DOMAIN closed' => closed'[IdOf[n]] = Steps
    PROVE  Pub!NodeIsCurrent(r, n)'
<1>1. \A m \in NodesOf[r] : bar[m].count \in Nat /\ bar'[m].count \in Nat
  BY NodesBelong, BarTypes DEF Pub!Bar
<1>2. PICK p \in Pub!Counts(Pub!Ids) : p = progress[r]
  BY Types
<1>3. progress[r][IdOf[n]] \in Nat
  BY <1>2, CountsFacts
<1>4. n \in DOMAIN launch[r].head => launch[r].head[n] \in Nat
  <2>1. PICK h \in Pub!Counts(Pub!Nodes) : h = launch[r].head
    BY Types, LaunchFields
  <2> QED BY <2>1, CountsFacts
<1>5. Pub!Gone(r, IdOf[n]) => Pub!Gone(r, IdOf[n])'
  BY DEF Pub!Gone
<1>6. \E m \in NodesOf[r] : /\ IdOf[m] = IdOf[n]
                            /\ progress'[r][IdOf[n]] <= bar'[m].count
  <2>1. PICK m \in NodesOf[r] : IdOf[m] = IdOf[n] /\ progress[r][IdOf[n]] <= bar[m].count
    BY DEF Pub!NodeIsCurrent
  <2>2. bar[m].count <= bar'[m].count /\ bar[m].count \in Nat /\ bar'[m].count \in Nat
    BY <1>1
  <2>3. progress'[r][IdOf[n]] <= bar'[m].count
    BY <1>3, <2>1, <2>2
  <2> QED BY <2>1, <2>3
<1>7. launch[r].pc # "polling" =>
          n \in DOMAIN launch[r].head /\ launch[r].head[n] <= bar'[n].count
  BY <1>1, <1>4 DEF Pub!NodeIsCurrent
<1>8. launch[r].pc = "listed" =>
          \/ n \in launch[r].listed \/ launch[r].head[n] = 0 \/ bar'[n].state = "gone"
  BY DEF Pub!NodeIsCurrent
<1>9. launch[r].pc = "copied" =>
          IF IdOf[n] \in DOMAIN launch[r].copied
          THEN launch[r].copied[IdOf[n]] = Steps /\ Pub!Gone(r, IdOf[n])'
          ELSE n \in launch[r].listed \/ launch[r].head[n] = 0
  BY <1>5 DEF Pub!NodeIsCurrent
<1> QED BY <1>6, <1>7, <1>8, <1>9 DEF Pub!NodeIsCurrent

LEMMA CurrentForOthers ==
    ASSUME Pub!TypeOK, \A s \in Runs : Pub!ThreadOwnsItsNodes(s), Pub!OverlapIsNoticed,
           Pub!RegistriesAreTidy, Pub!RegistryIsCurrent,
           NEW r \in Runs, Quiet(r) \/ RegistryStep(r),
           NEW q \in Runs, beside[q] = {}, q # r, Pub!Polling(q)', Pub!Running(q)',
           NEW n \in NodesOf[q], IdOf[n] \notin stray
    PROVE  Pub!NodeIsCurrent(q, n)'
<1>1. launch'[q] = launch[q] /\ thread'[q] = thread[q] /\ progress'[q] = progress[q]
  BY OthersStand, OthersProgress
<1>2. Pub!Polling(q) /\ Pub!Running(q)
  BY <1>1 DEF Pub!Polling, Pub!Running
<1>3. Pub!NodeIsCurrent(q, n)
  BY <1>2 DEF Pub!RegistryIsCurrent
<1>4. ~Pub!AtWork(r)
  BY <1>2, NobodyElse, PollingIsWork
<1>5. CASE Quiet(r)
  <2>1. UNCHANGED <<bar, active, closed>>
    BY <1>5 DEF Quiet, Pub!registry
  <2> QED BY <1>1, <1>3, <2>1, NodeKept
<1>6. CASE Pub!Collect(r)
  <2>1. PICK node \in NodesOf[r] : /\ node \in Pub!Nodes /\ bar[node].state = "held"
                                   /\ Closes(node, bar[node].count)
    BY <1>6, CollectStep
  <2>2. IdOf[node] \in stray
    BY <1>6, <2>1, CollectStep, CollectedIsStray
  <2>3. \A m \in NodesOf[q] : m \in Pub!Nodes /\ m # node
    BY NodesBelong, OneOwner
  <2>4. /\ \A m \in NodesOf[q] : bar'[m] = bar[m]
        /\ n \in active' <=> n \in active
    BY <2>1, <2>3 DEF Closes
  <2>5. /\ IdOf[n] \in DOMAIN closed' <=> IdOf[n] \in DOMAIN closed
        /\ IdOf[n] \in DOMAIN closed => closed'[IdOf[n]] = closed[IdOf[n]]
    BY <2>1, <2>2 DEF Closes
  <2> QED BY <1>1, <1>3, <2>4, <2>5, NodeKept
<1> QED BY <1>4, <1>5, <1>6, IdleSteps

\* The thread of r goes on: what happens to one node.
LEMMA CurrentForOwnThread ==
    ASSUME Pub!TypeOK, NEW r \in Runs, Pub!ThreadOwnsItsNodes(r), Pub!PollsAllNodes(r),
           NEW n \in NodesOf[r], Pub!NodeIsCurrent(r, n), Pub!Polling(r),
           Pub!OpenBar(r) \/ Pub!Advance(r) \/ Pub!CloseBar(r)
    PROVE  Pub!NodeIsCurrent(r, n)'
<1>0. /\ n \in Pub!Nodes /\ Steps \in Nat /\ \A m \in NodesOf[r] : m \in Pub!Nodes
      /\ IdOf[n] \in DOMAIN progress[r]
  BY NodesBelong DEF Pub!PollsAllNodes
<1>1. launch'[r] = launch[r] /\ progress'[r] = progress[r]
  BY OpenBarStep, AdvanceStep, CloseBarStep
<1>2. \A m \in NodesOf[r] : bar[m].count \in 0 .. Steps
  BY <1>0, BarTypes
<1>3. CASE Pub!OpenBar(r)
  <2>1. PICK node \in thread[r].todo :
            /\ node \in Pub!Nodes /\ active' = active \cup {node}
            /\ bar' \in [Pub!Nodes -> Pub!Bar]
            /\ bar'[node].state = "open" /\ bar'[node].count = bar[node].count
            /\ \A m \in Pub!Nodes : m # node => bar'[m] = bar[m]
    BY <1>3, OpenBarStep
  <2>2. bar[node].state = "none" /\ closed' = closed
    BY <1>3, OpenBarStep DEF Pub!ThreadOwnsItsNodes
  <2>3. \A m \in NodesOf[r] : /\ bar[m].count <= bar'[m].count
                              /\ bar'[m].state = "gone" <=> bar[m].state = "gone"
    BY <1>0, <1>2, <2>1, <2>2
  <2>4. Pub!Gone(r, IdOf[n])' <=> Pub!Gone(r, IdOf[n])
    BY <2>3 DEF Pub!Gone
  <2>5. /\ bar'[n].state \in {"none", "open", "gone"}
        /\ bar'[n].state = "none" => bar'[n].count = 0
        /\ bar'[n].state = "open" => n \in active'
        /\ bar'[n].state = "gone" => bar'[n].count = Steps
    BY <1>0, <2>1 DEF Pub!NodeIsCurrent
  <2>6. /\ IdOf[n] \in DOMAIN closed' <=> Pub!Gone(r, IdOf[n])'
        /\ IdOf[n] \in DOMAIN closed' => closed'[IdOf[n]] = Steps
    BY <2>2, <2>4 DEF Pub!NodeIsCurrent
  <2> QED BY <1>0, <1>1, <2>1, <2>3, <2>5, <2>6, NodeGrows
<1>4. CASE Pub!Advance(r)
  <2>1. PICK node \in thread[r].at :
            /\ node \in Pub!Nodes /\ bar[node].state = "open" /\ bar'[node].state = "open"
            /\ bar'[node].count = bar[node].count + 1
            /\ bar' \in [Pub!Nodes -> Pub!Bar]
            /\ \A m \in Pub!Nodes : m # node => bar'[m] = bar[m]
    BY <1>4, AdvanceStep
  <2>2. active' = active /\ closed' = closed
    BY <1>4, AdvanceStep
  <2>3. \A m \in NodesOf[r] : /\ bar[m].count <= bar'[m].count
                              /\ bar'[m].state = bar[m].state
    BY <1>0, <1>2, <2>1
  <2>4. Pub!Gone(r, IdOf[n])' <=> Pub!Gone(r, IdOf[n])
    BY <2>3 DEF Pub!Gone
  <2>5. /\ bar'[n].state \in {"none", "open", "gone"}
        /\ bar'[n].state = "none" => bar'[n].count = 0
        /\ bar'[n].state = "open" => n \in active'
        /\ bar'[n].state = "gone" => bar'[n].count = Steps
    BY <1>0, <2>1, <2>2 DEF Pub!NodeIsCurrent
  <2>6. /\ IdOf[n] \in DOMAIN closed' <=> Pub!Gone(r, IdOf[n])'
        /\ IdOf[n] \in DOMAIN closed' => closed'[IdOf[n]] = Steps
    BY <2>2, <2>4 DEF Pub!NodeIsCurrent
  <2> QED BY <1>0, <1>1, <2>1, <2>3, <2>5, <2>6, NodeGrows
<1>5. CASE Pub!CloseBar(r)
  <2>1. PICK node \in thread[r].at : node \in Pub!Nodes /\ Closes(node, Steps)
    BY <1>5, CloseBarStep
  <2>2. node \in NodesOf[r]
    BY AtNode
  <2>3. /\ bar' \in [Pub!Nodes -> Pub!Bar]
        /\ bar'[node].state = "gone" /\ bar'[node].count = Steps
        /\ \A m \in Pub!Nodes : m # node => bar'[m] = bar[m]
        /\ active' = active \ {node}
        /\ DOMAIN closed' = DOMAIN closed \cup {IdOf[node]}
        /\ closed'[IdOf[node]] = Steps
        /\ \A i \in DOMAIN closed \ {IdOf[node]} : closed'[i] = closed[i]
    BY <2>1 DEF Closes
  <2>4. \A m \in NodesOf[r] : /\ bar[m].count <= bar'[m].count
                              /\ bar[m].state = "gone" => bar'[m].state = "gone"
                              /\ bar'[m].state = "gone" => bar[m].state = "gone" \/ m = node
    BY <1>0, <1>2, <2>3
  <2>5. Pub!Gone(r, IdOf[n])' <=> Pub!Gone(r, IdOf[n]) \/ IdOf[n] = IdOf[node]
    BY <2>2, <2>3, <2>4 DEF Pub!Gone
  <2>6. /\ bar'[n].state \in {"none", "open", "gone"}
        /\ bar'[n].state = "none" => bar'[n].count = 0
        /\ bar'[n].state = "open" => n \in active'
        /\ bar'[n].state = "gone" => bar'[n].count = Steps
    BY <1>0, <2>3 DEF Pub!NodeIsCurrent
  <2>7. IdOf[n] \in DOMAIN closed' <=> Pub!Gone(r, IdOf[n])'
    BY <2>3, <2>5 DEF Pub!NodeIsCurrent
  <2>8. IdOf[n] \in DOMAIN closed' => closed'[IdOf[n]] = Steps
    BY <2>3 DEF Pub!NodeIsCurrent
  <2> QED BY <1>0, <1>1, <2>3, <2>4, <2>6, <2>7, <2>8, NodeGrows
<1> QED BY <1>3, <1>4, <1>5

\* What a message says of a node of a run that is alone: no less than its bar counted
\* when the poll began, and no more than a bar of the run with that id counts.
LEMMA PollCounts ==
    ASSUME Pub!TypeOK, NEW r \in Runs, launch[r].pc = "copied", beside[r] = {},
           Pub!PollsOwnNodes(r), Pub!PollsAllNodes(r), Pub!Running(r),
           \A m \in NodesOf[r] : IdOf[m] \notin stray => Pub!NodeIsCurrent(r, m),
           NEW n \in NodesOf[r], IdOf[n] \notin stray, NEW pick \in Pub!Picks(r)
    PROVE  /\ launch[r].head[n] <= Pub!Merged(r, pick)[IdOf[n]]
           /\ \E m \in NodesOf[r] : /\ IdOf[m] = IdOf[n]
                                    /\ Pub!Merged(r, pick)[IdOf[n]] <= bar[m].count
<1> DEFINE M == Pub!Merged(r, pick)
<1>1. PICK i : i = IdOf[n]
  OBVIOUS
<1>2. Pub!NodeIsCurrent(r, n) /\ n \in Pub!Nodes /\ Steps \in Nat
  BY NodesBelong
<1>3. PICK l \in Pub!Launch : l = launch[r]
  BY Types
<1>4. n \in DOMAIN l.head /\ l.head[n] <= bar[n].count
  BY <1>2, <1>3 DEF Pub!NodeIsCurrent
<1>5. l.head[n] \in 0 .. Steps /\ \A m \in NodesOf[r] : bar[m].count \in 0 .. Steps
  BY <1>4, LaunchFields, CountsFacts, NodesBelong, BarTypes
<1>c. /\ \A j \in DOMAIN l.copied : M[j] = l.copied[j]
      /\ \A j \in DOMAIN pick \ DOMAIN l.copied : M[j] = bar[pick[j]].count
      /\ \A j \in DOMAIN progress[r] \ (DOMAIN l.copied \cup DOMAIN pick) :
            M[j] = progress[r][j]
  BY <1>3, MergedFacts
<1>d. /\ \A k \in l.listed : IdOf[k] \in DOMAIN pick
       /\ \A j \in DOMAIN pick : pick[j] \in l.listed /\ IdOf[pick[j]] = j
  BY <1>3, PicksFacts
<1> HIDE DEF M
<1>6. CASE i \in DOMAIN l.copied
  <2>1. M[i] = l.copied[i] /\ l.copied[i] = Steps /\ Pub!Gone(r, i)
    BY <1>1, <1>2, <1>3, <1>6, <1>c DEF Pub!NodeIsCurrent
  <2>2. PICK m \in NodesOf[r] : IdOf[m] = i /\ bar[m].state = "gone"
    BY <2>1 DEF Pub!Gone
  <2>3. bar[m].count = Steps
    BY <1>1, <2>2 DEF Pub!NodeIsCurrent
  <2>4. M[i] <= bar[m].count /\ l.head[n] <= M[i]
    BY <1>2, <1>5, <2>1, <2>3
  <2> QED BY <1>1, <1>3, <2>2, <2>4 DEF M
<1>7. CASE i \in DOMAIN pick \ DOMAIN l.copied
  <2>a. i \in DOMAIN pick /\ i \notin DOMAIN l.copied
    BY <1>7
  <2>b. M[i] = bar[pick[i]].count
    BY <1>7, <1>c
  <2>c. pick[i] \in l.listed /\ IdOf[pick[i]] = i
    <3>1. i \in DOMAIN pick
      BY <2>a
    <3>2. \A j \in DOMAIN pick : pick[j] \in launch[r].listed /\ IdOf[pick[j]] = j
      BY PicksFacts
    <3>3. pick[i] \in launch[r].listed /\ IdOf[pick[i]] = i
      BY <3>1, <3>2
    <3> QED BY <1>3, <3>3
  <2>1. M[i] = bar[pick[i]].count /\ pick[i] \in l.listed /\ IdOf[pick[i]] = i
    BY <2>b, <2>c
  <2>2. /\ l.listed \subseteq NodesOf[r]
        /\ \A k \in l.listed \cap NodesOf[r] : \A m \in l.listed \cap NodesOf[r] : k = m
    BY <1>3 DEF Pub!PollsOwnNodes
  <2>3. n \in l.listed \/ l.head[n] = 0
    BY <1>1, <1>2, <1>3, <1>7 DEF Pub!NodeIsCurrent
  <2>4. l.head[n] <= M[i]
    <3>1. CASE n \in l.listed
      <4>1. n = pick[i]
        BY <2>1, <2>2, <3>1
      <4> QED BY <1>4, <2>1, <4>1
    <3>2. CASE l.head[n] = 0
      <4>1. M[i] \in 0 .. Steps
        BY <1>5, <2>1, <2>2
      <4> QED BY <1>2, <3>2, <4>1
    <3> QED BY <2>3, <3>1, <3>2
  <2>5. M[i] <= bar[pick[i]].count
    <3>1. bar[pick[i]].count \in Nat
      BY <1>2, <1>5, <2>1, <2>2
    <3> QED BY <2>1, <3>1
  <2> QED BY <1>1, <1>3, <2>1, <2>2, <2>4, <2>5 DEF M
<1>8. CASE i \notin DOMAIN pick /\ i \notin DOMAIN l.copied
  <2>1. i \in DOMAIN progress[r]
    BY <1>1, NodesBelong DEF Pub!PollsAllNodes, Pub!Polling
  <2>2. M[i] = progress[r][i]
    BY <1>8, <1>c, <2>1
  <2>3. PICK p \in Pub!Counts(Pub!Ids) : p = progress[r]
    BY Types
  <2>4. M[i] \in Nat
    BY <2>1, <2>2, <2>3, CountsFacts
  <2>5. n \notin l.listed
    BY <1>1, <1>8, <1>d
  <2>6. l.head[n] = 0
    BY <1>1, <1>2, <1>3, <1>8, <2>5 DEF Pub!NodeIsCurrent
  <2>7. l.head[n] <= M[i]
    BY <2>4, <2>6
  <2>8. \E m \in NodesOf[r] : IdOf[m] = i /\ progress[r][i] <= bar[m].count
    BY <1>1, <1>2 DEF Pub!NodeIsCurrent
  <2> QED BY <1>1, <1>3, <2>2, <2>7, <2>8 DEF M
<1> QED BY <1>6, <1>7, <1>8

LEMMA CurrentForOwnLaunch ==
    ASSUME Pub!TypeOK, NEW r \in Runs, Pub!ThreadOwnsItsNodes(r), Pub!PollsAllNodes(r),
           Pub!PollsOwnNodes(r), Pub!OverlapIsNoticed, Pub!RegistriesAreTidy, beside[r] = {},
           Pub!Polling(r) /\ Pub!Running(r) =>
               \A m \in NodesOf[r] : IdOf[m] \notin stray => Pub!NodeIsCurrent(r, m),
           NEW n \in NodesOf[r], IdOf[n] \notin stray,
           Pub!Start(r) \/ Pub!List(r) \/ Pub!Copy(r) \/ Pub!Report(r),
           Pub!Running(r)', Pub!Polling(r)'
    PROVE  Pub!NodeIsCurrent(r, n)'
<1>0. n \in Pub!Nodes /\ Steps \in Nat /\ IdOf[n] \in Pub!IdsOf(r)
  BY NodesBelong
<1>b. bar[n].count \in 0 .. Steps
  BY <1>0, BarTypes
<1>1. CASE Pub!Start(r)
  <2>1. launch[r].pc = "starting" /\ Pub!AtWork(r)
    BY <1>1 DEF Pub!Start, Pub!AtWork
  <2>2. thread[r].pc = "none" /\ \A m \in NodesOf[r] : m \in thread[r].todo
    BY <2>1 DEF Pub!ThreadOwnsItsNodes
  <2>3. \A m \in NodesOf[r] : bar[m].state = "none" /\ bar[m].count = 0
    BY <2>2 DEF Pub!ThreadOwnsItsNodes
  <2>4. IdOf[n] \notin DOMAIN closed
    <3>1. SUFFICES ASSUME IdOf[n] \in DOMAIN closed
                   PROVE  FALSE
      OBVIOUS
    <3>2. PICK s \in Runs : thread[s].pc \in {"running", "clearing"}
      BY <3>1 DEF Pub!RegistriesAreTidy
    <3>3. Pub!AtWork(s) /\ s # r
      BY <2>2, <3>2 DEF Pub!AtWork, Pub!Alive
    <3> QED BY <2>1, <3>3, NobodyElse
  <2>5. /\ UNCHANGED <<bar, active, closed>> /\ launch'[r].pc = "polling"
        /\ progress'[r][IdOf[n]] = 0
    BY <1>0, <1>1, StartStep DEF Pub!registry, GoesTo
  <2>6. ~Pub!Gone(r, IdOf[n])'
    BY <2>3, <2>5 DEF Pub!Gone
  <2>7. \E m \in NodesOf[r] : IdOf[m] = IdOf[n] /\ progress'[r][IdOf[n]] <= bar'[m].count
    BY <2>3, <2>5
  <2> QED BY <2>3, <2>4, <2>5, <2>6, <2>7 DEF Pub!NodeIsCurrent
<1>2. CASE Pub!List(r)
  <2>1. /\ UNCHANGED <<bar, active, closed, thread, progress>> /\ launch[r].pc = "polling"
        /\ launch'[r].pc = "listed" /\ launch'[r].listed = active
        /\ n \in DOMAIN launch'[r].head /\ launch'[r].head[n] = bar[n].count
    BY <1>2, ListStep DEF Pub!registry
  <2>2. Pub!NodeIsCurrent(r, n)
    BY <2>1 DEF Pub!Polling, Pub!Running
  <2>3. Pub!Gone(r, IdOf[n])' <=> Pub!Gone(r, IdOf[n])
    BY <2>1 DEF Pub!Gone
  <2> QED BY <1>b, <2>1, <2>2, <2>3 DEF Pub!NodeIsCurrent
<1>3. CASE Pub!Copy(r)
  <2>1. /\ UNCHANGED <<bar, active, closed, thread, progress>> /\ launch[r].pc = "listed"
        /\ launch'[r].pc = "copied" /\ launch'[r].listed = launch[r].listed
        /\ launch'[r].copied = closed /\ launch'[r].head = launch[r].head
    BY <1>3, CopyStep DEF Pub!registry
  <2>2. Pub!NodeIsCurrent(r, n)
    BY <2>1 DEF Pub!Polling, Pub!Running
  <2>3. Pub!Gone(r, IdOf[n])' <=> Pub!Gone(r, IdOf[n])
    BY <2>1 DEF Pub!Gone
  <2>4. bar[n].state = "gone" => Pub!Gone(r, IdOf[n])
    BY DEF Pub!Gone
  <2> QED BY <2>1, <2>2, <2>3, <2>4 DEF Pub!NodeIsCurrent
<1>4. CASE Pub!Report(r)
  <2>1. /\ UNCHANGED <<bar, active, closed, thread>> /\ launch[r].pc = "copied"
        /\ launch'[r].pc \in {"polling", "failing"}
    BY <1>4, ReportStep DEF Pub!registry
  <2>2. Pub!Running(r) /\ Pub!Polling(r) /\ launch'[r].pc = "polling"
    BY <2>1 DEF Pub!Polling, Pub!Running
  <2>3. Pub!NodeIsCurrent(r, n)
    BY <2>2
  <2>4. PICK pick \in Pub!Picks(r) : progress'[r] = Pub!Merged(r, pick)
    BY <1>4, ReportStep
  <2>5. \E m \in NodesOf[r] : IdOf[m] = IdOf[n] /\ progress'[r][IdOf[n]] <= bar[m].count
    BY <2>1, <2>2, <2>4, PollCounts
  <2>6. Pub!Gone(r, IdOf[n])' <=> Pub!Gone(r, IdOf[n])
    BY <2>1 DEF Pub!Gone
  <2> QED BY <2>1, <2>2, <2>3, <2>5, <2>6 DEF Pub!NodeIsCurrent
<1> QED BY <1>1, <1>2, <1>3, <1>4

\* Any other step of r ends its polls or its thread.
LEMMA RegistryKept ==
    ASSUME Pub!TypeOK, \A s \in Runs : Pub!ThreadOwnsItsNodes(s),
           \A s \in Runs : Pub!PollsAllNodes(s), \A s \in Runs : Pub!PollsOwnNodes(s),
           Pub!OverlapIsNoticed, Pub!RegistriesAreTidy, Pub!RegistryIsCurrent,
           NEW r \in Runs, Quiet(r) \/ RegistryStep(r)
    PROVE  Pub!RegistryIsCurrent'
<1>1. SUFFICES ASSUME NEW q \in Runs, beside'[q] = {}, Pub!Polling(q)', Pub!Running(q)',
                      NEW n \in NodesOf[q], IdOf[n] \notin stray'
               PROVE  Pub!NodeIsCurrent(q, n)'
  BY DEF Pub!RegistryIsCurrent
<1>2. beside[q] = {} /\ IdOf[n] \notin stray
  BY <1>1, OthersStand, OthersProgress
<1>3. CASE q # r
  BY <1>1, <1>2, <1>3, CurrentForOthers
<1>4. CASE q = r
  <2>0. /\ Pub!Polling(r)' /\ Pub!Running(r)' /\ n \in NodesOf[r] /\ beside[r] = {}
        /\ IdOf[n] \notin stray
    BY <1>1, <1>2, <1>4
  <2>1. Pub!Polling(r) /\ Pub!Running(r) =>
            \A m \in NodesOf[r] : IdOf[m] \notin stray => Pub!NodeIsCurrent(r, m)
    BY <2>0 DEF Pub!RegistryIsCurrent
  <2>2. CASE Pub!Start(r) \/ Pub!List(r) \/ Pub!Copy(r) \/ Pub!Report(r)
    BY <1>4, <2>0, <2>1, <2>2, CurrentForOwnLaunch
  <2>3. CASE Pub!OpenBar(r) \/ Pub!Advance(r) \/ Pub!CloseBar(r)
    <3>1. UNCHANGED launch
      BY <2>3, OpenBarStep, AdvanceStep, CloseBarStep
    <3>2. Pub!Polling(r) /\ Pub!Running(r)
      BY <2>0, <2>3, <3>1 DEF Pub!Polling, Pub!OpenBar, Pub!Advance, Pub!CloseBar
    <3> QED BY <1>4, <2>0, <2>1, <2>3, <3>2, CurrentForOwnThread
  <2>4. CASE Quiet(r)
    <3>1. UNCHANGED <<thread, bar, active, closed, progress>>
      BY <2>4 DEF Quiet, Pub!registry
    <3>2. UNCHANGED launch
      BY <2>0, <2>4 DEF Quiet, EventStep, GoesTo, Pub!Polling
    <3>3. Pub!Polling(r) /\ Pub!Running(r)
      BY <2>0, <3>1, <3>2 DEF Pub!Polling, Pub!Running
    <3> QED BY <1>4, <2>0, <2>1, <3>1, <3>2, <3>3, NodeKept
  <2>5. CASE Pub!LaunchClears(r) \/ \E node \in Pub!Nodes : LaunchClosing(r, node)
    BY <2>0, <2>5, LaunchClearsStep DEF Pub!Polling, LaunchClosing
  <2>6. CASE Pub!Raise(r) \/ Pub!Finish(r) \/ Pub!ThreadClears(r)
    BY <2>0, <2>6, RaiseStep, FinishStep, ThreadClearsStep DEF Pub!Running, ThreadAt
  <2>7. CASE (\E node \in Pub!Nodes : ThreadClosing(r, node)) \/ ThreadEnds(r)
    BY <2>0, <2>7 DEF Pub!Running, ThreadAt, ThreadClosing, ThreadEnds
  <2>8. CASE Pub!Collect(r)
    <3>1. UNCHANGED launch /\ launch[r].pc = "over"
      BY <2>8, CollectStep
    <3> QED BY <2>0, <3>1 DEF Pub!Polling
  <2> QED BY <2>2, <2>3, <2>4, <2>5, <2>6, <2>7, <2>8 DEF RegistryStep
<1> QED BY <1>3, <1>4

-----------------------------------------------------------------------------
(* What stays in the registries *)

\* What tidy registries are, in parts.
Tidy(q) ==
    /\ active \cap NodesOf[q] # {} => thread[q].pc \in {"running", "clearing"}
    /\ \A n \in thread[q].captured : IdOf[n] \in stray
    /\ launch[q].pc = "closing" => \A n \in launch[q].listed : IdOf[n] \in stray
TidyClosed ==
    \A i \in DOMAIN closed \ stray :
        \E s \in Runs : i \in Pub!IdsOf(s) /\ thread[s].pc \in {"running", "clearing"}
TidyBar(n) ==
    /\ bar[n].state = "frozen" => IdOf[n] \in stray
    /\ bar[n].state \in {"open", "held"} => n \in active \/ IdOf[n] \in stray

LEMMA TidyParts ==
    /\ Pub!RegistriesAreTidy <=>
           (\A q \in Runs : Tidy(q)) /\ TidyClosed /\ (\A n \in Pub!Nodes : TidyBar(n))
    /\ Pub!RegistriesAreTidy' <=>
           (\A q \in Runs : Tidy(q)') /\ TidyClosed' /\ (\A n \in Pub!Nodes : TidyBar(n)')
  BY DEF Pub!RegistriesAreTidy, Tidy, TidyBar, TidyClosed

\* Nothing is opened or closed, and no thread that has bars in the registries leaves
\* the run.
LEMMA TidyStays ==
    ASSUME Pub!RegistriesAreTidy, UNCHANGED <<bar, active, closed, stray>>,
           \A q \in Runs : /\ thread'[q].captured = thread[q].captured
                           /\ thread[q].pc \in {"running", "clearing"} =>
                                  thread'[q].pc \in {"running", "clearing"},
           \A q \in Runs : launch'[q] = launch[q] \/ launch'[q].pc # "closing"
    PROVE  Pub!RegistriesAreTidy'
<1>0. (\A q \in Runs : Tidy(q)) /\ TidyClosed /\ (\A n \in Pub!Nodes : TidyBar(n))
  BY TidyParts
<1>1. \A q \in Runs : Tidy(q)'
  BY <1>0 DEF Tidy
<1>2. TidyClosed'
  BY <1>0 DEF TidyClosed
<1>3. \A n \in Pub!Nodes : TidyBar(n)'
  BY <1>0 DEF TidyBar
<1> QED BY <1>1, <1>2, <1>3, TidyParts

\* A reset empties the registries; who clears them has to close what was open.
LEMMA TidyClear ==
    ASSUME Pub!TypeOK, Pub!RegistriesAreTidy, Pub!Clear, bar' = bar,
           \A q \in Runs : \/ thread'[q].captured = thread[q].captured
                           \/ thread'[q].captured = active,
           \A q \in Runs : \/ launch'[q] = launch[q]
                           \/ launch'[q].listed = active
    PROVE  Pub!RegistriesAreTidy'
<1>0. (\A q \in Runs : Tidy(q)) /\ TidyClosed /\ (\A n \in Pub!Nodes : TidyBar(n))
  BY TidyParts
<1>c. /\ active' = {} /\ DOMAIN closed' = {} /\ stray \subseteq stray'
      /\ \A n \in active : IdOf[n] \in stray'
  BY ClearFacts
<1>1. ASSUME NEW q \in Runs
      PROVE  Tidy(q)'
  <2>1. Tidy(q)
    BY <1>0
  <2>2. \A n \in thread'[q].captured : IdOf[n] \in stray'
    BY <1>c, <2>1 DEF Tidy
  <2>3. launch'[q].pc = "closing" => \A n \in launch'[q].listed : IdOf[n] \in stray'
    BY <1>c, <2>1 DEF Tidy
  <2> QED BY <1>c, <2>2, <2>3 DEF Tidy
<1>2. TidyClosed'
  BY <1>c DEF TidyClosed
<1>3. \A n \in Pub!Nodes : TidyBar(n)'
  BY <1>0, <1>c DEF TidyBar
<1> QED BY <1>1, <1>2, <1>3, TidyParts

\* The bar of a node whose id is stray is closed, and no thread starts or ends.
LEMMA TidyClosing ==
    ASSUME Pub!TypeOK, Pub!RegistriesAreTidy, stray' = stray,
           NEW node \in Pub!Nodes, IdOf[node] \in stray,
           active' = active \ {node}, DOMAIN closed' = DOMAIN closed \cup {IdOf[node]},
           \A n \in Pub!Nodes : n # node => bar'[n] = bar[n],
           \A q \in Runs : /\ thread'[q].pc = thread[q].pc
                           /\ thread'[q].captured \subseteq thread[q].captured,
           \A q \in Runs : /\ launch'[q].pc = launch[q].pc
                           /\ launch'[q].listed \subseteq launch[q].listed
    PROVE  Pub!RegistriesAreTidy'
<1>0. (\A q \in Runs : Tidy(q)) /\ TidyClosed /\ (\A n \in Pub!Nodes : TidyBar(n))
  BY TidyParts
<1>1. ASSUME NEW q \in Runs
      PROVE  Tidy(q)'
  <2>1. Tidy(q)
    BY <1>0
  <2>2. active' \cap NodesOf[q] # {} => thread'[q].pc \in {"running", "clearing"}
    BY <2>1 DEF Tidy
  <2> QED BY <2>1, <2>2 DEF Tidy
<1>2. TidyClosed'
  BY <1>0 DEF TidyClosed
<1>3. ASSUME NEW n \in Pub!Nodes
      PROVE  TidyBar(n)'
  <2>1. CASE n = node
    BY <2>1 DEF TidyBar
  <2>2. CASE n # node
    BY <1>0, <2>2 DEF TidyBar
  <2> QED BY <2>1, <2>2
<1> QED BY <1>1, <1>2, <1>3, TidyParts

LEMMA TidyLaunch ==
    ASSUME Pub!TypeOK, \A s \in Runs : Pub!ThreadOwnsItsNodes(s), Pub!RegistriesAreTidy,
           NEW r \in Runs,
           \/ Quiet(r) \/ Pub!Start(r) \/ Pub!List(r) \/ Pub!Copy(r) \/ Pub!Report(r)
           \/ Pub!LaunchClears(r) \/ \E node \in Pub!Nodes : LaunchClosing(r, node)
    PROVE  Pub!RegistriesAreTidy'
<1>1. CASE Quiet(r)
  <2>1. UNCHANGED <<thread, bar, active, closed, stray>>
    BY <1>1 DEF Quiet, Pub!registry
  <2>2. \A q \in Runs : launch'[q] = launch[q] \/ launch'[q].pc # "closing"
    BY <1>1 DEF Quiet, EventStep, GoesTo, LaunchMoves
  <2> QED BY <2>1, <2>2, TidyStays
<1>2. CASE Pub!Start(r)
  <2>1. /\ UNCHANGED <<bar, active, closed, stray>>
        /\ \A q \in Runs : launch'[q] = launch[q] \/ launch'[q].pc # "closing"
    BY <1>2, StartStep DEF Pub!registry, Pub!history, GoesTo, LaunchMoves
  <2>2. \A q \in Runs : /\ thread'[q].captured = thread[q].captured
                        /\ thread[q].pc \in {"running", "clearing"} =>
                               thread'[q].pc \in {"running", "clearing"}
    BY <1>2, StartStep DEF ThreadAt, ThreadMoves
  <2> QED BY <2>1, <2>2, TidyStays
<1>3. CASE Pub!List(r)
  BY <1>3, ListStep, TidyStays DEF Pub!registry, Pub!history, LaunchMoves
<1>4. CASE Pub!Copy(r)
  BY <1>4, CopyStep, TidyStays DEF Pub!registry, Pub!history, LaunchMoves
<1>5. CASE Pub!Report(r)
  BY <1>5, ReportStep, TidyStays DEF Pub!registry, Pub!history, LaunchMoves
<1>6. CASE Pub!LaunchClears(r)
  BY <1>6, LaunchClearsStep, TidyClear DEF LaunchMoves
<1>7. ASSUME NEW node \in Pub!Nodes, LaunchClosing(r, node)
      PROVE  Pub!RegistriesAreTidy'
  <2>1. /\ thread' = thread /\ stray' = stray
        /\ \A q \in Runs : /\ launch'[q].pc = launch[q].pc
                           /\ launch'[q].listed \subseteq launch[q].listed
    BY <1>7 DEF LaunchClosing, LaunchMoves, Pub!history
  <2>2. IdOf[node] \in stray
    BY <1>7, TidyParts DEF LaunchClosing, Tidy
  <2>3. /\ active' = active \ {node} /\ DOMAIN closed' = DOMAIN closed \cup {IdOf[node]}
        /\ \A n \in Pub!Nodes : n # node => bar'[n] = bar[n]
    BY <1>7, ClosedFacts DEF LaunchClosing
  <2> QED BY <2>1, <2>2, <2>3, TidyClosing
<1> QED BY <1>1, <1>2, <1>3, <1>4, <1>5, <1>6, <1>7

LEMMA TidyThread ==
    ASSUME Pub!TypeOK, \A s \in Runs : Pub!ThreadOwnsItsNodes(s), Pub!RegistriesAreTidy,
           NEW r \in Runs,
           \/ Pub!OpenBar(r) \/ Pub!Advance(r) \/ Pub!CloseBar(r) \/ Pub!Raise(r) \/ Pub!Finish(r)
           \/ Pub!ThreadClears(r) \/ \E node \in Pub!Nodes : ThreadClosing(r, node)
           \/ ThreadEnds(r) \/ Pub!Collect(r)
    PROVE  Pub!RegistriesAreTidy'
<1>0. (\A q \in Runs : Tidy(q)) /\ TidyClosed /\ (\A n \in Pub!Nodes : TidyBar(n))
  BY TidyParts
<1>1. CASE Pub!OpenBar(r)
  <2>1. PICK node \in thread[r].todo :
            LET t == thread[r]
            IN /\ ThreadAt(r, "running", t.todo \ {node}, {node}, t.captured)
               /\ node \in Pub!Nodes /\ active' = active \cup {node}
               /\ bar'[node].state = "open"
               /\ \A n \in Pub!Nodes : n # node => bar'[n] = bar[n]
    BY <1>1, OpenBarStep
  <2>2. \A q \in Runs : q # r => node \notin NodesOf[q]
    BY Unknown, OneOwner
  <2>3. /\ launch' = launch /\ closed' = closed /\ stray' = stray
        /\ thread[r].pc = "running" /\ thread'[r].pc = "running"
        /\ thread'[r].captured = thread[r].captured
        /\ \A s \in Runs : s # r => thread'[s] = thread[s]
    BY <1>1, <2>1, OpenBarStep DEF ThreadAt, ThreadMoves, Pub!history
  <2>4. ASSUME NEW q \in Runs
        PROVE  Tidy(q)'
    <3>1. CASE q = r
      BY <1>0, <2>3, <3>1 DEF Tidy
    <3>2. CASE q # r
      <4>1. active' \cap NodesOf[q] = active \cap NodesOf[q]
        BY <2>1, <2>2, <3>2
      <4> QED BY <1>0, <2>3, <3>2, <4>1 DEF Tidy
    <3> QED BY <3>1, <3>2
  <2>5. TidyClosed'
    <3>1. \A s \in Runs : thread'[s].pc = thread[s].pc
      BY <2>3
    <3> QED BY <1>0, <2>3, <3>1 DEF TidyClosed
  <2>6. \A n \in Pub!Nodes : TidyBar(n)'
    BY <1>0, <2>1, <2>3 DEF TidyBar
  <2> QED BY <2>4, <2>5, <2>6, TidyParts
<1>2. CASE Pub!Advance(r)
  <2>1. PICK node \in thread[r].at :
            /\ bar[node].state = "open" /\ bar'[node].state = "open"
            /\ \A n \in Pub!Nodes : n # node => bar'[n] = bar[n]
    BY <1>2, AdvanceStep
  <2>2. UNCHANGED <<launch, thread, active, closed, stray>>
    BY <1>2, AdvanceStep DEF Pub!history
  <2>3. \A q \in Runs : Tidy(q)'
    BY <1>0, <2>2 DEF Tidy
  <2>4. TidyClosed'
    BY <1>0, <2>2 DEF TidyClosed
  <2>5. \A n \in Pub!Nodes : bar'[n].state = bar[n].state
    BY <2>1
  <2>6. \A n \in Pub!Nodes : TidyBar(n)'
    BY <1>0, <2>2, <2>5 DEF TidyBar
  <2> QED BY <2>3, <2>4, <2>6, TidyParts
<1>3. CASE Pub!CloseBar(r)
  <2>1. PICK node \in thread[r].at : node \in Pub!Nodes /\ Closes(node, Steps)
    BY <1>3, CloseBarStep
  <2>2. node \in NodesOf[r] /\ IdOf[node] \in Pub!IdsOf(r)
    BY AtNode, NodesBelong
  <2>3. /\ launch' = launch /\ stray' = stray
        /\ \A s \in Runs : /\ thread'[s].pc = thread[s].pc
                           /\ thread'[s].captured = thread[s].captured
        /\ thread[r].pc = "running"
    BY <1>3, CloseBarStep DEF ThreadAt, ThreadMoves, Pub!history
  <2>4. /\ active' = active \ {node} /\ DOMAIN closed' = DOMAIN closed \cup {IdOf[node]}
        /\ bar'[node].state = "gone" /\ \A n \in Pub!Nodes : n # node => bar'[n] = bar[n]
    BY <2>1 DEF Closes
  <2>5. ASSUME NEW q \in Runs
        PROVE  Tidy(q)'
    <3>1. active' \cap NodesOf[q] # {} => active \cap NodesOf[q] # {}
      BY <2>4
    <3> QED BY <1>0, <2>3, <3>1 DEF Tidy
  <2>6. TidyClosed'
    BY <1>0, <2>2, <2>3, <2>4 DEF TidyClosed
  <2>7. \A n \in Pub!Nodes : TidyBar(n)'
    BY <1>0, <2>3, <2>4 DEF TidyBar
  <2> QED BY <2>5, <2>6, <2>7, TidyParts
<1>4. CASE Pub!Raise(r)
  <2>1. /\ UNCHANGED <<launch, active, closed, stray>> /\ thread[r].pc = "running"
        /\ thread'[r].pc = "clearing" /\ thread'[r].captured = thread[r].captured
        /\ \A s \in Runs : s # r => thread'[s] = thread[s]
    BY <1>4, RaiseStep DEF ThreadAt, ThreadMoves, Pub!history
  <2>2. \A n \in Pub!Nodes :
            /\ n \in thread[r].at => bar'[n].state = "held"
            /\ n \notin thread[r].at => bar'[n] = bar[n]
    BY <1>4, RaiseStep
  <2>3. \A q \in Runs : Tidy(q)'
    BY <1>0, <2>1 DEF Tidy
  <2>4. TidyClosed'
    BY <1>0, <2>1 DEF TidyClosed
  <2>5. ASSUME NEW n \in Pub!Nodes
        PROVE  TidyBar(n)'
    <3>1. CASE n \in thread[r].at
      <4>1. bar[n].state \in {"open", "frozen"} /\ TidyBar(n)
        BY <1>0, <3>1, AtNode
      <4> QED BY <2>1, <2>2, <3>1, <4>1 DEF TidyBar
    <3>2. CASE n \notin thread[r].at
      BY <1>0, <2>1, <2>2, <3>2 DEF TidyBar
    <3> QED BY <3>1, <3>2
  <2> QED BY <2>3, <2>4, <2>5, TidyParts
<1>5. CASE Pub!Finish(r)
  <2>1. /\ UNCHANGED <<launch, bar, active, closed, stray>>
        /\ thread'[r].pc = "clearing" /\ thread'[r].captured = thread[r].captured
        /\ \A s \in Runs : s # r => thread'[s] = thread[s]
    BY <1>5, FinishStep DEF ThreadAt, ThreadMoves, Pub!registry, Pub!history
  <2> QED BY <2>1, TidyStays
<1>6. CASE Pub!ThreadClears(r)
  <2>1. /\ UNCHANGED <<launch, bar>> /\ Pub!Clear /\ thread'[r].captured = active
        /\ \A s \in Runs : s # r => thread'[s] = thread[s]
    BY <1>6, ThreadClearsStep DEF ThreadAt, ThreadMoves
  <2> QED BY <2>1, TidyClear
<1>7. ASSUME NEW node \in Pub!Nodes, ThreadClosing(r, node)
      PROVE  Pub!RegistriesAreTidy'
  <2>1. /\ launch' = launch /\ stray' = stray
        /\ \A q \in Runs : /\ thread'[q].pc = thread[q].pc
                           /\ thread'[q].captured \subseteq thread[q].captured
    BY <1>7 DEF ThreadClosing, ThreadAt, ThreadMoves, Pub!history
  <2>2. IdOf[node] \in stray
    BY <1>0, <1>7 DEF ThreadClosing, Tidy
  <2>3. /\ active' = active \ {node} /\ DOMAIN closed' = DOMAIN closed \cup {IdOf[node]}
        /\ \A n \in Pub!Nodes : n # node => bar'[n] = bar[n]
    BY <1>7, ClosedFacts DEF ThreadClosing
  <2> QED BY <2>1, <2>2, <2>3, TidyClosing
<1>8. CASE ThreadEnds(r)
  <2>1. /\ UNCHANGED <<launch, bar, active, closed, stray>> /\ thread[r].pc = "closing"
        /\ thread'[r].captured = thread[r].captured
        /\ \A s \in Runs : s # r => thread'[s] = thread[s]
    BY <1>8 DEF ThreadEnds, ThreadAt, ThreadMoves, Pub!registry, Pub!history
  <2> QED BY <2>1, TidyStays
<1>9. CASE Pub!Collect(r)
  <2>1. PICK node \in NodesOf[r] : /\ node \in Pub!Nodes /\ bar[node].state = "held"
                                   /\ Closes(node, bar[node].count)
    BY <1>9, CollectStep
  <2>2. IdOf[node] \in stray /\ UNCHANGED <<launch, thread, stray>>
    BY <1>9, <2>1, CollectStep, CollectedIsStray DEF Pub!history
  <2>3. /\ active' = active \ {node} /\ DOMAIN closed' = DOMAIN closed \cup {IdOf[node]}
        /\ \A n \in Pub!Nodes : n # node => bar'[n] = bar[n]
    BY <2>1 DEF Closes
  <2>4. \A q \in Runs : /\ thread'[q].pc = thread[q].pc
                          /\ thread'[q].captured \subseteq thread[q].captured
                          /\ launch'[q].pc = launch[q].pc
                          /\ launch'[q].listed \subseteq launch[q].listed
    BY <2>2
  <2> QED BY <2>1, <2>2, <2>3, <2>4, TidyClosing
<1> QED BY <1>1, <1>2, <1>3, <1>4, <1>5, <1>6, <1>7, <1>8, <1>9

LEMMA TidinessKept ==
    ASSUME Pub!TypeOK, \A s \in Runs : Pub!ThreadOwnsItsNodes(s), Pub!RegistriesAreTidy,
           NEW r \in Runs, Quiet(r) \/ RegistryStep(r)
    PROVE  Pub!RegistriesAreTidy'
  BY TidyLaunch, TidyThread DEF RegistryStep

-----------------------------------------------------------------------------
(* What a poll finds *)

\* The ids of runs beside q are explained.
LEMMA OwnIsExplained ==
    ASSUME NEW q \in Runs, NEW s \in beside[q] \cup {q}
    PROVE  Pub!IdsOf(s) \subseteq Pub!Explained(q)
  BY DEF Pub!Explained

\* Whose bars are registered, and whose were: of runs at work beside the run.
LEMMA RegisteredIsBeside ==
    ASSUME Pub!TypeOK, Pub!RegistriesAreTidy, Pub!OverlapIsNoticed,
           NEW q \in Runs, Pub!AtWork(q)
    PROVE  /\ active \subseteq UNION {NodesOf[s] : s \in beside[q] \cup {q}}
           /\ DOMAIN closed \subseteq Pub!Explained(q)
<1>1. ASSUME NEW n \in active
      PROVE  \E s \in beside[q] \cup {q} : n \in NodesOf[s]
  <2>1. PICK s \in Runs : n \in NodesOf[s]
    BY Types, NodesBelong
  <2>2. Pub!AtWork(s)
    BY <2>1 DEF Pub!RegistriesAreTidy, Pub!AtWork, Pub!Alive
  <2> QED BY <2>1, <2>2, Beside
<1>2. ASSUME NEW i \in DOMAIN closed \ stray
      PROVE  \E s \in beside[q] \cup {q} : i \in Pub!IdsOf(s)
  <2>1. PICK s \in Runs : i \in Pub!IdsOf(s) /\ thread[s].pc \in {"running", "clearing"}
    BY DEF Pub!RegistriesAreTidy
  <2>2. Pub!AtWork(s)
    BY <2>1 DEF Pub!AtWork, Pub!Alive
  <2> QED BY <2>1, <2>2, Beside
<1>3. SUFFICES ASSUME NEW i \in DOMAIN closed
               PROVE  i \in Pub!Explained(q)
  BY <1>1
<1>4. CASE i \in stray
  BY <1>4 DEF Pub!Explained
<1>5. CASE i \notin stray
  <2>1. PICK s \in beside[q] \cup {q} : i \in Pub!IdsOf(s)
    BY <1>2, <1>3, <1>5
  <2> QED BY <2>1, OwnIsExplained
<1> QED BY <1>4, <1>5

\* What is explained stays so.
LEMMA ExplainedGrows ==
    ASSUME NEW q \in Runs, beside[q] \subseteq beside'[q], stray \subseteq stray'
    PROVE  /\ Pub!Explained(q) \subseteq Pub!Explained(q)'
           /\ UNION {NodesOf[s] : s \in beside[q] \cup {q}}
                  \subseteq UNION {NodesOf[s] : s \in beside'[q] \cup {q}}
  BY DEF Pub!Explained, Pub!IdsOf

\* The ids of nodes that runs beside q have are explained.
LEMMA ListedIsExplained ==
    ASSUME NEW q \in Runs, NEW n, n \in UNION {NodesOf[s] : s \in beside[q] \cup {q}}
    PROVE  IdOf[n] \in Pub!Explained(q)
<1>1. PICK s \in beside[q] \cup {q} : n \in NodesOf[s]
  OBVIOUS
<1>2. IdOf[n] \in Pub!IdsOf(s)
  BY <1>1 DEF Pub!IdsOf
<1> QED BY <1>2, OwnIsExplained

LEMMA PollsOwnKept ==
    ASSUME Pub!TypeOK, \A s \in Runs : Pub!ThreadOwnsItsNodes(s),
           \A s \in Runs : Pub!PollsAllNodes(s), Pub!OverlapIsNoticed, Pub!RegistriesAreTidy,
           NEW r \in Runs, Quiet(r) \/ RegistryStep(r),
           NEW q \in Runs, Pub!PollsOwnNodes(q)
    PROVE  Pub!PollsOwnNodes(q)'
<1>0. /\ Pub!Explained(q) \subseteq Pub!Explained(q)'
      /\ UNION {NodesOf[s] : s \in beside[q] \cup {q}}
             \subseteq UNION {NodesOf[s] : s \in beside'[q] \cup {q}}
  BY OthersStand, OthersProgress, ExplainedGrows
<1>1. ASSUME progress'[q] = progress[q], Pub!Running(q)' => Pub!Running(q),
             \/ launch'[q] = launch[q]
             \/ launch'[q].pc \notin {"listed", "copied"}
      PROVE  Pub!PollsOwnNodes(q)'
  BY <1>0, <1>1 DEF Pub!PollsOwnNodes
<1>p. /\ DOMAIN progress[q] \subseteq Pub!Explained(q)'
      /\ progress[q] # Pub!Empty => Pub!IdsOf(q) \subseteq DOMAIN progress[q]
  BY <1>0 DEF Pub!PollsOwnNodes
<1>2. CASE q # r
  <2>1. launch'[q] = launch[q] /\ thread'[q] = thread[q] /\ progress'[q] = progress[q]
    BY <1>2, OthersStand, OthersProgress
  <2> QED BY <1>1, <2>1 DEF Pub!Running
<1>3. CASE q = r
  <2>1. CASE Quiet(r)
    BY <1>1, <1>3, <2>1 DEF Quiet, EventStep, GoesTo, Pub!Running
  <2>2. CASE Pub!Start(r)
    <3>1. /\ launch'[r].pc = "polling" /\ DOMAIN progress'[r] = Pub!IdsOf(r)
          /\ Pub!IdsOf(r) \subseteq Pub!Explained(r)
      BY <2>2, StartStep, OwnIsExplained DEF GoesTo
    <3> QED BY <1>0, <1>3, <3>1 DEF Pub!PollsOwnNodes
  <2>3. CASE Pub!List(r)
    <3>1. /\ launch[r].pc = "polling" /\ launch'[r].pc = "listed"
          /\ launch'[r].listed = active /\ progress' = progress /\ thread' = thread
      BY <2>3, ListStep
    <3>2. Pub!AtWork(q)
      BY <1>3, <3>1 DEF Pub!AtWork
    <3>3. active \subseteq UNION {NodesOf[s] : s \in beside'[q] \cup {q}}
      BY <1>0, <3>2, RegisteredIsBeside
    <3>4. Pub!Running(q) =>
              \A n \in active \cap NodesOf[q] : \A m \in active \cap NodesOf[q] : n = m
      BY OwnRegistered DEF Pub!Running
    <3>5. Pub!Running(q)' <=> Pub!Running(q)
      BY <3>1 DEF Pub!Running
    <3> QED BY <1>3, <1>p, <3>1, <3>3, <3>4, <3>5 DEF Pub!PollsOwnNodes
  <2>4. CASE Pub!Copy(r)
    <3>1. /\ launch[r].pc = "listed" /\ launch'[r].pc = "copied"
          /\ launch'[r].listed = launch[r].listed /\ launch'[r].copied = closed
          /\ progress' = progress /\ thread' = thread
      BY <2>4, CopyStep
    <3>2. Pub!AtWork(q)
      BY <1>3, <3>1 DEF Pub!AtWork
    <3>3. DOMAIN closed \subseteq Pub!Explained(q)'
      BY <1>0, <3>2, RegisteredIsBeside
    <3>4. Pub!Running(q)' <=> Pub!Running(q)
      BY <3>1 DEF Pub!Running
    <3>5. launch[q].listed \subseteq UNION {NodesOf[s] : s \in beside'[q] \cup {q}}
      BY <1>0, <1>3, <3>1 DEF Pub!PollsOwnNodes
    <3>6. Pub!Running(q) =>
              \A n \in launch[q].listed \cap NodesOf[q] :
                  \A m \in launch[q].listed \cap NodesOf[q] : n = m
      BY <1>3, <3>1 DEF Pub!PollsOwnNodes
    <3> QED BY <1>3, <1>p, <3>1, <3>3, <3>4, <3>5, <3>6 DEF Pub!PollsOwnNodes
  <2>5. CASE Pub!Report(r)
    <3>1. /\ launch[r].pc = "copied" /\ launch'[r].pc \in {"polling", "failing"}
      BY <2>5, ReportStep
    <3>2. PICK pick \in Pub!Picks(r) : progress'[r] = Pub!Merged(r, pick)
      BY <2>5, ReportStep
    <3>3. DOMAIN progress'[r] = DOMAIN launch[r].copied \cup DOMAIN pick \cup DOMAIN progress[r]
      BY <3>2, MergedFacts
    <3>4. Pub!IdsOf(r) \subseteq DOMAIN progress[r]
      BY <3>1 DEF Pub!PollsAllNodes, Pub!Polling
    <3>5. DOMAIN pick \subseteq Pub!Explained(r)
      <4>1. \A i \in DOMAIN pick : pick[i] \in launch[r].listed /\ IdOf[pick[i]] = i
        BY PicksFacts
      <4>2. launch[r].listed \subseteq UNION {NodesOf[s] : s \in beside[r] \cup {r}}
        BY <1>3, <3>1 DEF Pub!PollsOwnNodes
      <4>3. ASSUME NEW i \in DOMAIN pick
            PROVE  i \in Pub!Explained(r)
        <5>1. pick[i] \in UNION {NodesOf[s] : s \in beside[r] \cup {r}} /\ IdOf[pick[i]] = i
          BY <4>1, <4>2
        <5> QED BY <5>1, ListedIsExplained
      <4> QED BY <4>3
    <3>6. DOMAIN launch[r].copied \subseteq Pub!Explained(r)
      BY <1>3, <3>1 DEF Pub!PollsOwnNodes
    <3>7. DOMAIN progress'[r] \subseteq Pub!Explained(r)'
      BY <1>0, <1>3, <1>p, <3>3, <3>5, <3>6
    <3>8. Pub!IdsOf(r) \subseteq DOMAIN progress'[r]
      BY <3>3, <3>4
    <3> QED BY <1>3, <3>1, <3>7, <3>8 DEF Pub!PollsOwnNodes
  <2>6. CASE Pub!LaunchClears(r) \/ \E node \in Pub!Nodes : LaunchClosing(r, node)
    <3>1. /\ launch'[r].pc = "closing" /\ progress' = progress /\ thread' = thread
      BY <2>6, LaunchClearsStep DEF LaunchClosing
    <3> QED BY <1>1, <1>3, <3>1 DEF Pub!Running
  <2>7. CASE UNCHANGED <<launch, progress>> /\ (Pub!Running(r)' => Pub!Running(r))
    BY <1>1, <1>3, <2>7
  <2>8. CASE \/ Pub!OpenBar(r) \/ Pub!Advance(r) \/ Pub!CloseBar(r) \/ Pub!Raise(r)
             \/ Pub!Finish(r) \/ Pub!ThreadClears(r) \/ Pub!Collect(r)
    <3>1. UNCHANGED <<launch, progress>>
      BY <2>8, OpenBarStep, AdvanceStep, CloseBarStep, RaiseStep, FinishStep,
         ThreadClearsStep, CollectStep
    <3>2. Pub!Running(r)' => Pub!Running(r)
      BY <2>8, AdvanceStep, ThreadClearsStep, CollectStep
         DEF Pub!OpenBar, Pub!CloseBar, Pub!Raise, Pub!Finish, ThreadAt, Pub!Running
    <3> QED BY <2>7, <3>1, <3>2
  <2>9. CASE (\E node \in Pub!Nodes : ThreadClosing(r, node)) \/ ThreadEnds(r)
    BY <2>7, <2>9 DEF ThreadClosing, ThreadEnds, ThreadAt, Pub!Running
  <2> QED BY <2>1, <2>2, <2>3, <2>4, <2>5, <2>6, <2>8, <2>9 DEF RegistryStep
<1> QED BY <1>2, <1>3

-----------------------------------------------------------------------------
(* The invariant of the publishers *)

\* A step of a request, as one of its run, and a step of a launch or its thread.
LEMMA NextKinds ==
    ASSUME Pub!IInv, Pub!Next
    PROVE  \E r \in Runs :
               /\ Quiet(r) \/ RegistryStep(r)
               /\ EventTypes /\ faults' \in 0 .. MaxFaults
               /\ beside' \in [Runs -> SUBSET Runs]
               /\ StatusMoves(r) /\ Pub!OverlapIsNoticed'
<1>1. /\ Pub!TypeOK /\ Pub!OverlapIsNoticed /\ Pub!MessagesWereSent
      /\ \A q \in Runs : Pub!StatusFollows(q)
      /\ \A q \in Runs : Pub!ThreadOwnsItsNodes(q)
  BY DEF Pub!IInv
<1>2. ASSUME NEW q \in Requests, Pub!Handler(q) \/ Pub!Delivery(q)
      PROVE  /\ RunOf[q] \in Runs /\ Quiet(RunOf[q])
             /\ EventTypes /\ faults' \in 0 .. MaxFaults
             /\ beside' \in [Runs -> SUBSET Runs]
             /\ StatusMoves(RunOf[q]) /\ Pub!OverlapIsNoticed'
  <2>1. RunOf[q] \in Runs /\ Pub!StatusFollows(RunOf[q])
    BY <1>1, NodesBelong
  <2>2. Quiet(RunOf[q]) /\ EventTypes /\ faults' \in 0 .. MaxFaults
    BY <1>1, <1>2, <2>1, RequestKinds
  <2>3. beside' \in [Runs -> SUBSET Runs]
    BY <2>2 DEF Quiet, Grows
  <2>4. StatusMoves(RunOf[q]) /\ Pub!OverlapIsNoticed'
    BY <1>1, <1>2, <2>1, RequestStatus, OverlapKeptByRequests
  <2> QED BY <2>1, <2>2, <2>3, <2>4
<1>3. ASSUME NEW r \in Runs, Pub!LaunchStep(r) \/ Pub!ThreadStep(r)
      PROVE  /\ Quiet(r) \/ RegistryStep(r)
             /\ EventTypes /\ faults' \in 0 .. MaxFaults
             /\ beside' \in [Runs -> SUBSET Runs]
             /\ StatusMoves(r) /\ Pub!OverlapIsNoticed'
  BY <1>1, <1>3, StepKinds, WorkStatus, OverlapKept
<1> QED BY <1>2, <1>3 DEF Pub!Next

LEMMA PublishersStep ==
    ASSUME Pub!IInv, Pub!Next
    PROVE  Pub!IInv'
<1>1. PICK r \in Runs :
          /\ Quiet(r) \/ RegistryStep(r)
          /\ EventTypes /\ faults' \in 0 .. MaxFaults
          /\ beside' \in [Runs -> SUBSET Runs]
          /\ StatusMoves(r) /\ Pub!OverlapIsNoticed'
  BY NextKinds
<1>2. /\ Pub!TypeOK /\ Pub!OverlapIsNoticed /\ Pub!MessagesWereSent
      /\ Pub!RegistryIsCurrent /\ Pub!RegistriesAreTidy
      /\ \A q \in Runs : Pub!StatusFollows(q)
      /\ \A q \in Runs : Pub!ThreadOwnsItsNodes(q)
      /\ \A q \in Runs : Pub!PollsAllNodes(q)
      /\ \A q \in Runs : Pub!PollsOwnNodes(q)
  BY DEF Pub!IInv
<1>3. Pub!TypeOK'
  BY <1>1, <1>2, TypesKept
<1>4. \A q \in Runs : Pub!StatusFollows(q)'
  BY <1>1, <1>2, StatusMovesFacts
<1>5. Pub!MessagesWereSent'
  BY <1>2, MessagesKept
<1>6. \A q \in Runs : Pub!ThreadOwnsItsNodes(q)'
  BY <1>1, <1>2, OwnershipStep
<1>7. \A q \in Runs : Pub!PollsAllNodes(q)'
  BY <1>1, <1>2, PollsKept
<1>8. \A q \in Runs : Pub!PollsOwnNodes(q)'
  BY <1>1, <1>2, PollsOwnKept
<1>9. Pub!RegistryIsCurrent'
  BY <1>1, <1>2, RegistryKept
<1>10. Pub!RegistriesAreTidy'
  BY <1>1, <1>2, TidinessKept
<1> QED BY <1>1, <1>3, <1>4, <1>5, <1>6, <1>7, <1>8, <1>9, <1>10 DEF Pub!IInv

LEMMA PublishersStart ==
    ASSUME Pub!Init
    PROVE  Pub!IInv
<1> USE DEF Pub!Init
<1>1. /\ Pub!NoLaunch \in Pub!Launch /\ Pub!NoLaunch.pc = "idle" /\ Pub!NoLaunch.listed = {}
      /\ DOMAIN Pub!NoLaunch.copied = {}
  BY EmptyCounts DEF Pub!NoLaunch, Pub!Launch
<1>2. \A r \in Runs : launch[r] = Pub!NoLaunch
  OBVIOUS
<1>3. \A r \in Runs : /\ thread[r].pc = "none" /\ thread[r].todo = NodesOf[r]
                      /\ thread[r].at = {} /\ thread[r].captured = {}
  OBVIOUS
<1>4. /\ DOMAIN closed = {} /\ active = {} /\ stray = {}
      /\ \A r \in Runs : progress[r] = Pub!Empty /\ DOMAIN progress[r] = {}
  BY EmptyCounts
<1>5. Pub!TypeOK
  <2>1. thread \in [Runs -> Pub!Thread]
    <3>1. \A r \in Runs : NodesOf[r] \in SUBSET Pub!Nodes
      BY NodesBelong
    <3> QED BY <3>1 DEF Pub!Thread
  <2>2. launch \in [Runs -> Pub!Launch] /\ progress \in [Runs -> Pub!Counts(Pub!Ids)]
    BY <1>1, EmptyCounts
  <2>3. bar \in [Pub!Nodes -> Pub!Bar]
    BY NodesBelong DEF Pub!Bar
  <2>4. closed \in Pub!Counts(Pub!Ids) /\ faults \in 0 .. MaxFaults
    BY EmptyCounts, NodesBelong
  <2>5. beside \in [Runs -> SUBSET Runs] /\ stray \subseteq Pub!Ids
    OBVIOUS
  <2> QED BY <2>1, <2>2, <2>3, <2>4, <2>5, OrderFacts DEF Pub!TypeOK
<1>6. ASSUME NEW r \in Runs
      PROVE  /\ Pub!StatusFollows(r) /\ Pub!ThreadOwnsItsNodes(r)
             /\ Pub!PollsAllNodes(r) /\ Pub!PollsOwnNodes(r)
  <2>1. Pub!StatusFollows(r)
    <3>1. status[r] = "CREATED" /\ shown[r] = "CREATED" /\ launch[r].pc = "idle"
      BY <1>1, <1>2
    <3>2. \A q \in Requests : handler[q] = "idle"
      OBVIOUS
    <3>3. Pub!RequestsTakeTurns(r)
      BY <3>1, <3>2, OrderFacts DEF Pub!RequestsTakeTurns
    <3> QED BY <3>1, <3>3, OrderFacts DEF Pub!StatusFollows
  <2>2. Pub!ThreadOwnsItsNodes(r)
    <3>1. \A n \in NodesOf[r] : bar[n] = [state |-> "none", count |-> 0]
      BY NodesBelong
    <3>2. \A s \in Runs : launch[s].listed = {}
      BY <1>1, <1>2
    <3> QED BY <1>3, <1>4, <3>1, <3>2, ZenonT(60) DEF Pub!ThreadOwnsItsNodes, Pub!Running
  <2>3. Pub!PollsAllNodes(r)
    BY <1>1, <1>2 DEF Pub!PollsAllNodes, Pub!Polling
  <2>4. Pub!PollsOwnNodes(r)
    BY <1>1, <1>2, <1>4 DEF Pub!PollsOwnNodes
  <2> QED BY <2>1, <2>2, <2>3, <2>4
<1>7. Pub!OverlapIsNoticed
  BY <1>1, <1>2, <1>3 DEF Pub!OverlapIsNoticed, Pub!AtWork, Pub!Alive
<1>8. Pub!RegistryIsCurrent
  BY <1>3 DEF Pub!RegistryIsCurrent, Pub!Running
<1>9. Pub!RegistriesAreTidy
  <2>1. \A n \in Pub!Nodes : bar[n].state = "none"
    OBVIOUS
  <2> QED BY <1>1, <1>2, <1>3, <1>4, <2>1 DEF Pub!RegistriesAreTidy
<1>10. Pub!MessagesWereSent
  BY DEF Pub!MessagesWereSent
<1> QED BY <1>5, <1>6, <1>7, <1>8, <1>9, <1>10 DEF Pub!IInv

-----------------------------------------------------------------------------
(* What the steps do to what clients are told *)

LEMMA MessagesNameTheirNodes ==
    ASSUME Pub!IInv
    PROVE  OwnProgress
  BY DEF Pub!IInv, Pub!PollsOwnNodes, OwnProgress, Pub!OwnProgress

LEMMA IdleRegistries ==
    ASSUME Pub!IInv
    PROVE  NothingIsRetained
<1>1. SUFFICES ASSUME \A r \in Runs : ~Pub!AtWork(r)
               PROVE  active = {} /\ DOMAIN closed \subseteq stray
  BY DEF NothingIsRetained, Pub!NothingIsRetained
<1>2. \A r \in Runs : thread[r].pc \notin {"running", "clearing"}
  BY <1>1 DEF Pub!AtWork, Pub!Alive
<1>3. Pub!RegistriesAreTidy /\ Pub!TypeOK
  BY DEF Pub!IInv
<1>4. active = {}
  <2>1. ASSUME NEW n \in active
        PROVE  FALSE
    <3>1. PICK r \in Runs : n \in NodesOf[r]
      BY <1>3, Types, NodesBelong
    <3> QED BY <1>2, <1>3, <3>1 DEF Pub!RegistriesAreTidy
  <2> QED BY <2>1
<1>5. DOMAIN closed \subseteq stray
  BY <1>2, <1>3 DEF Pub!RegistriesAreTidy
<1> QED BY <1>4, <1>5

\* Only Report ends a poll.
LEMMA PollEnds ==
    ASSUME Pub!IInv, Pub!Next,
           NEW r \in Runs, launch[r].pc = "copied", launch'[r].pc # "copied"
    PROVE  Pub!Report(r)
<1>1. /\ Pub!TypeOK /\ \A q \in Runs : Pub!StatusFollows(q)
      /\ \A q \in Runs : Pub!ThreadOwnsItsNodes(q)
  BY DEF Pub!IInv
<1>2. ASSUME NEW q \in Requests, Pub!Handler(q) \/ Pub!Delivery(q)
      PROVE  FALSE
  <2>1. PICK s \in Runs : s = RunOf[q] /\ Pub!StatusFollows(s)
    BY <1>1, NodesBelong
  <2>2. CASE Pub!Handler(q) \/ Pub!Drop(q)
    BY <1>1, <2>2, HandlerStep, DropStep
  <2>3. CASE Pub!Claim(q)
    <3>1. launch[s].pc = "idle" /\ \A p \in Runs : p # s => launch'[p] = launch[p]
      BY <1>1, <2>1, <2>3, ClaimStep DEF EventStep, GoesTo, LaunchMoves, Pub!Claim,
         Pub!StatusFollows
    <3> QED BY <3>1
  <2> QED BY <1>2, <2>2, <2>3 DEF Pub!Delivery
<1>3. PICK s \in Runs : Pub!LaunchStep(s) \/ Pub!ThreadStep(s)
  BY <1>2 DEF Pub!Next
<1>4. s = r
  BY <1>1, <1>3, StepKinds, OthersStand
<1>5. ~Pub!ThreadStep(r)
  BY DEF Pub!ThreadStep, Pub!OpenBar, Pub!Advance, Pub!CloseBar, Pub!Raise, Pub!Finish,
     Pub!ThreadClears, Pub!ThreadCloses, Pub!Collect
<1>6. /\ ~Pub!TellRunning(r) /\ ~Pub!Start(r) /\ ~Pub!StartFails(r)
      /\ ~Pub!List(r)
      /\ ~Pub!Copy(r) /\ ~Pub!Join(r) /\ ~Pub!Fail(r) /\ ~Pub!LaunchClears(r)
      /\ ~Pub!LaunchCloses(r)
      /\ ~Pub!Complete(r) /\ ~Pub!TellCompleted(r)
  BY DEF Pub!TellRunning, Pub!Start, Pub!StartFails, Pub!List, Pub!Copy,
     Pub!Join, Pub!Fail,
     Pub!LaunchClears, Pub!LaunchCloses, Pub!Complete, Pub!TellCompleted
<1> QED BY <1>3, <1>4, <1>5, <1>6 DEF Pub!LaunchStep

\* What a message says of node n of run r.
SaysTrue(r, n) ==
    /\ launch[r].head[n] <= progress'[r][IdOf[n]]
    /\ \E m \in NodesOf[r] : /\ IdOf[m] = IdOf[n]
                             /\ progress'[r][IdOf[n]] <= bar[m].count

LEMMA MessagesAreCurrent ==
    ASSUME Pub!IInv, Pub!Next, NEW r \in Runs, beside[r] = {},
           launch[r].pc = "copied", launch'[r].pc # "copied",
           Pub!Running(r), NEW n \in NodesOf[r], IdOf[n] \notin stray
    PROVE  SaysTrue(r, n)
<1>1. Pub!Report(r)
  BY PollEnds
<1>2. /\ Pub!TypeOK /\ Pub!PollsOwnNodes(r) /\ Pub!PollsAllNodes(r)
      /\ \A m \in NodesOf[r] : IdOf[m] \notin stray => Pub!NodeIsCurrent(r, m)
  BY DEF Pub!IInv, Pub!RegistryIsCurrent, Pub!Polling
<1>3. PICK pick \in Pub!Picks(r) : progress'[r] = Pub!Merged(r, pick)
  BY <1>1, <1>2, ReportStep
<1>4. /\ launch[r].head[n] <= Pub!Merged(r, pick)[IdOf[n]]
      /\ \E m \in NodesOf[r] : /\ IdOf[m] = IdOf[n]
                               /\ Pub!Merged(r, pick)[IdOf[n]] <= bar[m].count
  BY <1>2, PollCounts
<1> QED BY <1>3, <1>4 DEF SaysTrue

LEMMA StatusesComeInOrder ==
    ASSUME Pub!IInv, Pub!Next
    PROVE  \A r \in Runs : InOrder(r)
<1>1. PICK r \in Runs : StatusMoves(r)
  BY NextKinds
<1> QED BY <1>1, StatusMovesFacts DEF Pub!IInv

LEMMA ShownStays ==
    ASSUME Pub!IInv, UNCHANGED shown
    PROVE  \A r \in Runs : InOrder(r)
  BY OrderIsNat DEF Pub!IInv, InOrder

-----------------------------------------------------------------------------
(* The feed: its inbox is bounded *)

Inboxes == UNION {[1 .. n -> Feed!Message] : n \in 0 .. MaxInbox}

LEMMA InboxFacts ==
    ASSUME NEW box
    PROVE  box \in Inboxes <=> box \in Seq(Feed!Message) /\ Len(box) <= MaxInbox
<1>0. MaxInbox \in Nat
  BY EventsAssumption
<1>1. ASSUME box \in Inboxes
      PROVE  box \in Seq(Feed!Message) /\ Len(box) <= MaxInbox
  <2>1. PICK n \in 0 .. MaxInbox : box \in [1 .. n -> Feed!Message]
    BY <1>1 DEF Inboxes
  <2>2. box \in Seq(Feed!Message) /\ Len(box) = n
    BY <1>0, <2>1
  <2> QED BY <1>0, <2>2
<1>2. ASSUME box \in Seq(Feed!Message), Len(box) <= MaxInbox
      PROVE  box \in Inboxes
  <2>1. Len(box) \in 0 .. MaxInbox /\ box \in [1 .. Len(box) -> Feed!Message]
    BY <1>0, <1>2
  <2> QED BY <2>1 DEF Inboxes
<1> QED BY <1>1, <1>2

LEMMA FeedStep ==
    ASSUME Feed!TypeOK, Feed!Next
    PROVE  Feed!TypeOK'
<1>0. MaxInbox \in Nat
  BY EventsAssumption
<1>1. inbox \in Seq(Feed!Message) /\ Len(inbox) <= MaxInbox
  BY InboxFacts DEF Feed!TypeOK, Inboxes
<1>2. ASSUME inbox' \in Seq(Feed!Message), Len(inbox') <= MaxInbox
      PROVE  inbox' \in UNION {[1 .. n -> Feed!Message] : n \in 0 .. MaxInbox}
  BY <1>2, InboxFacts DEF Inboxes
<1>3. CASE \E r \in Runs : Feed!Ask(r)
  BY <1>3 DEF Feed!TypeOK, Feed!Ask
<1>4. CASE Feed!Leave
  BY <1>4 DEF Feed!TypeOK, Feed!Leave
<1>5. ASSUME NEW message \in Feed!Message, Feed!Publish(message)
      PROVE  Feed!TypeOK'
  <2>1. inbox' \in Seq(Feed!Message) /\ Len(inbox') <= MaxInbox
    BY <1>0, <1>1, <1>5 DEF Feed!Publish
  <2> QED BY <1>2, <1>5, <2>1 DEF Feed!TypeOK, Feed!Publish
<1>6. CASE Feed!Subscribe
  BY <1>6 DEF Feed!TypeOK, Feed!Subscribe
<1>7. CASE Feed!Receive
  BY <1>7 DEF Feed!TypeOK, Feed!Receive
<1>8. CASE Feed!Listen
  <2>1. inbox' \in Seq(Feed!Message) /\ Len(inbox') <= MaxInbox
    BY <1>0, <1>1, <1>8 DEF Feed!Listen
  <2> QED BY <1>2, <1>8, <2>1 DEF Feed!TypeOK, Feed!Listen
<1>9. CASE Feed!SendText
  BY <1>9 DEF Feed!TypeOK, Feed!SendText
<1>10. CASE Feed!ListenFails
  BY <1>10 DEF Feed!TypeOK, Feed!ListenFails
<1>11. CASE Feed!TasksEnd
  BY <1>11 DEF Feed!TypeOK, Feed!TasksEnd
<1>12. CASE Feed!Unsubscribe
  <2>1. inbox' \in Seq(Feed!Message) /\ Len(inbox') <= MaxInbox
    BY <1>0, <1>12 DEF Feed!Unsubscribe
  <2> QED BY <1>2, <1>12, <2>1 DEF Feed!TypeOK, Feed!Unsubscribe
<1> QED BY <1>3, <1>4, <1>5, <1>6, <1>7, <1>8, <1>9, <1>10, <1>11, <1>12 DEF Feed!Next

LEMMA FeedStart ==
    ASSUME Feed!Init
    PROVE  Feed!TypeOK
<1>1. <<>> \in Seq(Feed!Message) /\ Len(<<>>) <= MaxInbox
  BY EventsAssumption
<1>2. inbox \in UNION {[1 .. n -> Feed!Message] : n \in 0 .. MaxInbox}
  BY <1>1, InboxFacts DEF Feed!Init, Inboxes
<1> QED BY <1>2 DEF Feed!Init, Feed!TypeOK

-----------------------------------------------------------------------------
(* Theorems *)

LEMMA PublishersStand ==
    ASSUME UNCHANGED PublisherVars
    PROVE  Pub!IInv <=> Pub!IInv'
<1> USE DEF PublisherVars
<1>1. Pub!TypeOK <=> Pub!TypeOK'
  BY DEF Pub!TypeOK
<1>2. Pub!MessagesWereSent <=> Pub!MessagesWereSent'
  BY DEF Pub!MessagesWereSent
<1>3. ASSUME NEW r \in Runs
      PROVE  /\ Pub!StatusFollows(r) <=> Pub!StatusFollows(r)'
             /\ Pub!ThreadOwnsItsNodes(r) <=> Pub!ThreadOwnsItsNodes(r)'
             /\ Pub!PollsAllNodes(r) <=> Pub!PollsAllNodes(r)'
             /\ Pub!PollsOwnNodes(r) <=> Pub!PollsOwnNodes(r)'
  <2>1. Pub!StatusFollows(r) <=> Pub!StatusFollows(r)'
    BY DEF Pub!StatusFollows, Pub!RequestsTakeTurns, Pub!SendFailed
  <2>2. Pub!ThreadOwnsItsNodes(r) <=> Pub!ThreadOwnsItsNodes(r)'
    BY DEF Pub!ThreadOwnsItsNodes, Pub!Running
  <2>3. Pub!PollsAllNodes(r) <=> Pub!PollsAllNodes(r)'
    BY DEF Pub!PollsAllNodes, Pub!Polling
  <2>4. Pub!PollsOwnNodes(r) <=> Pub!PollsOwnNodes(r)'
    BY DEF Pub!PollsOwnNodes, Pub!Running, Pub!Explained
  <2> QED BY <2>1, <2>2, <2>3, <2>4
<1>4. Pub!OverlapIsNoticed <=> Pub!OverlapIsNoticed'
  BY DEF Pub!OverlapIsNoticed, Pub!AtWork, Pub!Alive
<1>5. Pub!RegistryIsCurrent <=> Pub!RegistryIsCurrent'
  BY DEF Pub!RegistryIsCurrent, Pub!NodeIsCurrent, Pub!Gone, Pub!Polling, Pub!Running
<1>6. Pub!RegistriesAreTidy <=> Pub!RegistriesAreTidy'
  BY DEF Pub!RegistriesAreTidy
<1> QED BY <1>1, <1>2, <1>3, <1>4, <1>5, <1>6 DEF Pub!IInv

LEMMA Step ==
    ASSUME IInv, [Next]_vars
    PROVE  IInv'
<1>1. CASE PublishersNext
  <2>1. Pub!IInv'
    BY <1>1, PublishersStep DEF IInv, PublishersNext
  <2>2. Feed!TypeOK'
    BY <1>1 DEF IInv, PublishersNext, FeedVars, Feed!TypeOK
  <2> QED BY <2>1, <2>2 DEF IInv
<1>2. CASE FeedNext
  <2>1. Feed!TypeOK'
    BY <1>2, FeedStep DEF IInv, FeedNext
  <2> QED BY <1>2, <2>1, PublishersStand DEF IInv, FeedNext
<1>3. CASE UNCHANGED vars
  <2>1. Feed!TypeOK'
    BY <1>3 DEF IInv, vars, FeedVars, Feed!TypeOK
  <2> QED BY <1>3, <2>1, PublishersStand DEF IInv, vars
<1> QED BY <1>1, <1>2, <1>3 DEF Next

\* The inductive invariant of the publishers, with the types of the feed.
THEOREM Invariant == Spec => []IInv
<1>1. Init => IInv
  BY PublishersStart, FeedStart DEF Init, IInv
<1> QED BY <1>1, Step, PTL DEF Spec

\* Progress messages of a run name all its nodes, and other ids only of runs that were at
\* work beside it and of bars that a reset met open: nothing of the runs before it.
THEOREM MessagesNameOwnNodes == Spec => []OwnProgress
<1>1. IInv => OwnProgress
  BY MessagesNameTheirNodes DEF IInv
<1> QED BY <1>1, Invariant, PTL

\* While no run is at work the registries are empty but for the last counts of bars that
\* a reset met open, however the runs before ended and whatever ids they share.
THEOREM NothingRetained == Spec => []NothingIsRetained
<1>1. IInv => NothingIsRetained
  BY IdleRegistries DEF IInv
<1> QED BY <1>1, Invariant, PTL

\* A message is no older than its poll and true: no node counts less than its bar did when
\* the poll began, although the bar may leave the active registry in its middle, or more
\* than a bar with its id does.
THEOREM PollsAreCurrent == Spec => PollIsCurrent
<1>1. ASSUME IInv, [Next]_vars
      PROVE  [\A r \in Runs :
                 beside[r] = {} /\ launch[r].pc = "copied" /\ launch'[r].pc # "copied"
                 /\ Pub!Running(r) =>
                     \A n \in NodesOf[r] : IdOf[n] \notin stray =>
                         /\ launch[r].head[n] <= progress'[r][IdOf[n]]
                         /\ \E m \in NodesOf[r] :
                               /\ IdOf[m] = IdOf[n]
                               /\ progress'[r][IdOf[n]] <= bar[m].count]_(Pub!vars)
  <2>1. CASE PublishersNext
    BY <1>1, <2>1, MessagesAreCurrent DEF IInv, PublishersNext, SaysTrue
  <2>2. CASE UNCHANGED PublisherVars
    BY <2>2 DEF PublisherVars, Pub!vars, Pub!events, Pub!registry, Pub!history
  <2> QED BY <1>1, <2>1, <2>2 DEF Next, FeedNext, vars
<1> QED BY <1>1, Invariant, PTL DEF Spec, PollIsCurrent, Pub!PollIsCurrent

\* The API requests and the workers publish the statuses of a run in the order in which
\* the run has them, unless a request could not send what it announced.
THEOREM StatusesInOrder == Spec => EventsInOrder
<1>1. ASSUME IInv, [Next]_vars
      PROVE  [\A r \in Runs : Pub!Order[shown'[r]] < Pub!Order[shown[r]] =>
                 shown'[r] \in {"CREATED", "QUEUED"} /\ Pub!SendFailed(r)]_shown
  <2>1. CASE PublishersNext
    BY <1>1, <2>1, StatusesComeInOrder DEF IInv, PublishersNext, InOrder
  <2>2. CASE UNCHANGED PublisherVars
    BY <2>2 DEF PublisherVars
  <2> QED BY <1>1, <2>1, <2>2 DEF Next, FeedNext, vars
<1> QED BY <1>1, Invariant, PTL DEF Spec, EventsInOrder, Pub!EventsInOrder
=============================================================================
