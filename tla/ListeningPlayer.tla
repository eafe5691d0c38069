-------------------------- MODULE ListeningPlayer --------------------------
(***************************************************************************)
(* How the participant's page (player.js) keeps ratings: every edit goes   *)
(* to a draft in the browser's IndexedDB, saves are numbered requests that *)
(* are written there before they are sent and repeated unchanged until     *)
(* they are acknowledged, and a tab that finds the session changed by      *)
(* somebody else locks itself.  One session, opened in one or more tabs.   *)
(*                                                                         *)
(* The server is seen from the browser: a log of the checkpoints it        *)
(* published, one per revision, appended to by one conditional update      *)
(* (module ListeningStudy shows that its stages amount to that).  The      *)
(* network may lose a request or its answer, or deliver a request after    *)
(* the page gave it up.                                                    *)
(***************************************************************************)
EXTENDS Naturals, Sequences, FiniteSets

CONSTANTS Tabs,         \* browser tabs, each with an IndexedDB record of its own
          Items,        \* the rows to rate: one per trial and condition
          Scores,       \* the scores a participant gives
          NoRequest,    \* no pending request
          NoRecord,     \* no record, no reply, no poll
          MaxRequests,  \* bound on the requests drawn (fresh UUIDs in the code)
          MaxFaults,    \* bound on failed calls and failed writes
          MaxReloads    \* bound on pages reloaded or lost

ASSUME PlayerAssumption ==
    /\ NoRecord \notin Tabs
    /\ 0 \notin Scores
    /\ MaxRequests \in Nat /\ MaxFaults \in Nat /\ MaxReloads \in Nat

VARIABLES
    study,    \* server: collecting, closed, or the invitation revoked
    log,      \* server: the checkpoint of every revision, the last one is current
    ghosts,   \* requests the page gave up that may still reach the server
    page,     \* the state of player.js in each tab
    reply,    \* the answer on its way to the tab's waiting call
    poll,     \* the answer on its way to the tab's poll
    disk,     \* the IndexedDB record of each tab
    drawn,    \* number of request ids drawn
    made,     \* history: the last score given in each tab for each item, or 0
    mishaps,  \* history: what went wrong beyond lost calls and lost pages
    faults,
    reloads

server == <<study, log, ghosts>>
vars == <<server, page, reply, poll, disk, drawn, made, mishaps, faults, reloads>>

-----------------------------------------------------------------------------
(* Data *)

\* 0 is the score of a row that is not answered.
Rows == [Items -> Scores \cup {0}]
Blank == [i \in Items |-> 0]

\* "edits" is history: the rows edited since the acknowledged checkpoint.
Request == [id: 1 .. MaxRequests, expected: Nat, rows: Rows, complete: BOOLEAN,
            edits: SUBSET Items]
Published == [id: 0 .. MaxRequests, rows: Rows, complete: BOOLEAN,
              by: Tabs \cup {NoRecord}, edits: SUBSET Items]
Record == [revision: Nat, changes: SUBSET Items, rows: Rows,
           pending: Request \cup {NoRequest}]
Answer == [ok: BOOLEAN, revision: Nat, study: {"collecting", "closed", "revoked"}]

ASSUME NothingAssumption ==
    NoRequest \notin Request /\ NoRecord \notin Record \cup Answer

\* flush: which part of flush() waits for an acknowledgement.  boot: the one of
\* a recovered request.  old: of a pending request, new: of the one just made.
\* next: the old one was acknowledged.
Page == [pc: {"closed", "opening", "open"}, ready: BOOLEAN,
         locked: {"no", "refused", "changed", "draft", "closed"},
         base: Nat, collecting: BOOLEAN, done: BOOLEAN,
         rows: Rows, changes: SUBSET Items, pending: Request \cup {NoRequest},
         flush: {"none", "boot", "old", "next", "new"},
         call: BOOLEAN, complete: BOOLEAN, navigating: BOOLEAN]
ClosedPage == [pc |-> "closed", ready |-> FALSE, locked |-> "no", base |-> 0,
               collecting |-> TRUE, done |-> FALSE, rows |-> Blank, changes |-> {},
               pending |-> NoRequest, flush |-> "none", call |-> FALSE,
               complete |-> FALSE, navigating |-> FALSE]

TypeOK ==
    /\ study \in {"collecting", "closed", "revoked"}
    /\ log \in Seq(Published) /\ log # <<>>
    /\ ghosts \subseteq (Tabs \X Request)
    /\ page \in [Tabs -> Page]
    /\ reply \in [Tabs -> Answer \cup {NoRecord}]
    /\ poll \in [Tabs -> Answer \cup {NoRecord}]
    /\ disk \in [Tabs -> Record \cup {NoRecord}]
    /\ drawn \in 0 .. MaxRequests
    /\ made \in [Tabs -> Rows]
    /\ mishaps \subseteq {"overlap", "unwritten"}
    /\ faults \in 0 .. MaxFaults
    /\ reloads \in 0 .. MaxReloads

Init ==
    /\ study = "collecting"
    /\ log = <<[id |-> 0, rows |-> Blank, complete |-> FALSE, by |-> NoRecord,
                edits |-> {}]>>
    /\ ghosts = {}
    /\ page = [t \in Tabs |-> ClosedPage]
    /\ reply = [t \in Tabs |-> NoRecord]
    /\ poll = [t \in Tabs |-> NoRecord]
    /\ disk = [t \in Tabs |-> NoRecord]
    /\ drawn = 0
    /\ made = [t \in Tabs |-> Blank]
    /\ mishaps = {}
    /\ faults = 0
    /\ reloads = 0

Revision == Len(log) - 1
Newest == log[Len(log)]
At(revision) == log[revision + 1]

\* writable()
Writable(p) == p.locked = "no" /\ ~p.done /\ p.collecting

Fault == faults < MaxFaults /\ faults' = faults + 1

\* Definitions whose name starts with Wrong are plausible defects of the
\* definition that follows them.  No specification uses them: each is put in
\* the place of that definition to see that a property notices it.

-----------------------------------------------------------------------------
(* The server *)

\* _save: a request is a repetition of the one that made the head, or it is
\* published on the revision it expects.
WrongAccepts(q) == study = "collecting" /\ ~Newest.complete
Accepts(q) == study = "collecting" /\ ~Newest.complete /\ q.expected = Revision
Replays(q) == study # "revoked" /\ Newest.id = q.id

Publish(t, q) ==
    log' = Append(log, [id |-> q.id, rows |-> q.rows, complete |-> q.complete,
                        by |-> t, edits |-> q.edits])

AnswerTo(t, ok, revision) ==
    reply' = [reply EXCEPT ![t] = [ok |-> ok, revision |-> revision, study |-> study]]

\* The waiting call of a tab reaches the server.
Serve(t) ==
    LET q == page[t].pending
    IN /\ page[t].call /\ reply[t] = NoRecord
       /\ \/ Replays(q) /\ AnswerTo(t, TRUE, Revision) /\ UNCHANGED log
          \/ /\ ~Replays(q) /\ Accepts(q)
             /\ Publish(t, q) /\ AnswerTo(t, TRUE, Revision + 1)
          \/ /\ ~Replays(q) /\ ~Accepts(q)
             /\ AnswerTo(t, FALSE, Revision) /\ UNCHANGED log
       /\ UNCHANGED <<study, ghosts, page, poll, disk, drawn, made, mishaps, faults, reloads>>

\* The earlier attempt of the same request is published while this one is
\* between its check and its publication, which then fails.
ServeOverlapping(t) ==
    LET q == page[t].pending
    IN /\ page[t].call /\ reply[t] = NoRecord
       /\ <<t, q>> \in ghosts /\ Accepts(q)
       /\ Publish(t, q) /\ AnswerTo(t, FALSE, Revision)
       /\ ghosts' = ghosts \ {<<t, q>>}
       /\ mishaps' = mishaps \cup {"overlap"}
       /\ UNCHANGED <<study, page, poll, disk, drawn, made, faults, reloads>>

\* A request nobody waits for any more.
ServeGhost(t, q) ==
    /\ <<t, q>> \in ghosts
    /\ ghosts' = ghosts \ {<<t, q>>}
    /\ IF ~Replays(q) /\ Accepts(q) THEN Publish(t, q) ELSE UNCHANGED log
    /\ UNCHANGED <<study, page, reply, poll, disk, drawn, made, mishaps, faults, reloads>>

\* The researcher closes the study or revokes the invitation.
Seal(new) ==
    /\ study = "collecting"
    /\ study' = new
    /\ UNCHANGED <<log, ghosts, page, reply, poll, disk, drawn, made, mishaps, faults, reloads>>

-----------------------------------------------------------------------------
(* player.js *)

WrongRecordOf(p) == [revision |-> p.base, changes |-> p.changes,
                     rows |-> [i \in Items |-> IF i \in p.changes THEN p.rows[i] ELSE 0],
                     pending |-> IF p.call THEN p.pending ELSE NoRequest]

RecordOf(p) == [revision |-> p.base, changes |-> p.changes,
                rows |-> [i \in Items |-> IF i \in p.changes THEN p.rows[i] ELSE 0],
                pending |-> p.pending]

WrongRemember(t, p) ==
    /\ disk' = [disk EXCEPT ![t] = [RecordOf(p) EXCEPT !.pending = NoRequest]]
    /\ UNCHANGED <<mishaps, faults>>

\* remember(): the record is replaced; a failure is shown and ignored.
Remember(t, p) ==
    \/ disk' = [disk EXCEPT ![t] = RecordOf(p)] /\ UNCHANGED <<mishaps, faults>>
    \/ Fault /\ mishaps' = mishaps \cup {"unwritten"} /\ UNCHANGED disk

Set(t, p) == page' = [page EXCEPT ![t] = p]

\* The parent page fetches the checkpoint and hands it to the frame ...
OpenPage(t) ==
    /\ page[t].pc = "closed"
    /\ study = "collecting" /\ ~Newest.complete
    /\ Set(t, [ClosedPage EXCEPT !.pc = "opening", !.base = Revision, !.rows = Newest.rows])
    /\ UNCHANGED <<server, reply, poll, disk, drawn, made, mishaps, faults, reloads>>

WrongRecover(p, r) == [p EXCEPT !.pending = r.pending]

\* The draft on top of the checkpoint.
Recover(p, r) ==
    [p EXCEPT !.rows = [i \in Items |-> IF i \in r.changes THEN r.rows[i] ELSE @[i]],
              !.changes = r.changes, !.pending = r.pending]

\* ... boot() reads the tab's record: a draft of another revision without a
\* request is a conflict, otherwise the draft is restored and its request sent.
Boot(t) ==
    LET r == disk[t]
        opened == [page[t] EXCEPT !.pc = "open"]
    IN /\ page[t].pc = "opening"
       /\ Set(t, IF r = NoRecord THEN [opened EXCEPT !.ready = TRUE]
                 ELSE IF /\ r.revision # opened.base
                         /\ r.pending = NoRequest /\ r.changes # {}
                      THEN [opened EXCEPT !.locked = "draft"]
                 ELSE IF r.pending = NoRequest
                      THEN [Recover(opened, r) EXCEPT !.ready = TRUE]
                 ELSE [Recover(opened, r) EXCEPT !.flush = "boot", !.call = TRUE])
       /\ UNCHANGED <<server, reply, poll, disk, drawn, made, mishaps, faults, reloads>>

\* changed(): a score is given or confirmed.
Edit(t, i, score) ==
    LET p == [page[t] EXCEPT !.rows[i] = score, !.changes = @ \cup {i}]
    IN /\ page[t].ready /\ Writable(page[t]) /\ ~page[t].navigating
       /\ Set(t, p)
       /\ Remember(t, p)
       /\ made' = [made EXCEPT ![t][i] = score]
       /\ UNCHANGED <<server, reply, poll, drawn, reloads>>

Ended(p) == [p EXCEPT !.flush = "none", !.call = FALSE, !.complete = FALSE,
                      !.navigating = FALSE, !.ready = TRUE]

\* The part of flush() after a pending request: nothing to do, or a new request
\* that is remembered and sent.
MakeRequest(t, p) ==
    IF p.changes = {} /\ ~p.navigating
    THEN Set(t, Ended(p)) /\ UNCHANGED <<disk, drawn, mishaps, faults>>
    ELSE LET q == [id |-> drawn + 1, expected |-> p.base, rows |-> p.rows,
                   complete |-> p.complete, edits |-> p.changes]
             sending == [p EXCEPT !.pending = q, !.flush = "new", !.call = TRUE]
         IN /\ drawn < MaxRequests
            /\ drawn' = drawn + 1
            /\ Set(t, sending)
            /\ Remember(t, sending)

\* flush(), by the timer, the save and retry buttons or by navigate(): "next"
\* saves the page left, at the last one it submits the session.
Flush(t, navigating, complete) ==
    LET p == [page[t] EXCEPT !.navigating = navigating, !.complete = complete]
    IN /\ page[t].pc = "open" /\ page[t].flush = "none" /\ Writable(page[t])
       /\ page[t].ready \/ (page[t].pending # NoRequest /\ ~navigating)
       /\ complete => navigating /\ \A i \in Items : page[t].rows[i] # 0
       /\ IF p.pending = NoRequest
          THEN MakeRequest(t, p)
          ELSE /\ Set(t, [p EXCEPT !.flush = "old", !.call = TRUE])
               /\ UNCHANGED <<disk, drawn, mishaps, faults>>
       /\ UNCHANGED <<server, reply, poll, made, reloads>>

Continue(t) ==
    /\ page[t].flush = "next"
    /\ IF page[t].done
       THEN Set(t, Ended(page[t])) /\ UNCHANGED <<disk, drawn, mishaps, faults>>
       ELSE MakeRequest(t, page[t])
    /\ UNCHANGED <<server, reply, poll, made, reloads>>

WrongAcknowledged(p, revision) ==
    [p EXCEPT !.base = revision, !.done = At(revision).complete, !.changes = {},
              !.pending = NoRequest, !.call = FALSE]

\* applyAcknowledgement(): a change that equals the acknowledged row is saved,
\* the others survive, and every other row is the server's.
Acknowledged(p, revision) ==
    LET saved == At(revision).rows
        left == {i \in p.changes : p.rows[i] # saved[i]}
    IN [p EXCEPT !.base = revision, !.done = At(revision).complete,
                 !.changes = left,
                 !.rows = [i \in Items |-> IF i \in left THEN @[i] ELSE saved[i]],
                 !.pending = NoRequest, !.call = FALSE]

\* sendPending() resolves.
Acknowledge(t) ==
    LET acked == [Acknowledged(page[t], reply[t].revision)
                      EXCEPT !.collecting = reply[t].study = "collecting"]
        p == IF acked.flush = "old" THEN [acked EXCEPT !.flush = "next"] ELSE Ended(acked)
    IN /\ page[t].call /\ reply[t] # NoRecord /\ reply[t].ok
       /\ Set(t, p)
       /\ IF p.done
          THEN disk' = [disk EXCEPT ![t] = NoRecord] /\ UNCHANGED <<mishaps, faults>>
          ELSE Remember(t, p)
       /\ reply' = [reply EXCEPT ![t] = NoRecord]
       /\ UNCHANGED <<server, poll, drawn, made, reloads>>

GiveUp(p) == [p EXCEPT !.flush = "none", !.call = FALSE, !.complete = FALSE,
                       !.navigating = FALSE]

\* 403 or 409: the tab locks itself and keeps its draft.
Refused(t) ==
    /\ page[t].call /\ reply[t] # NoRecord /\ ~reply[t].ok
    /\ Set(t, [GiveUp(page[t]) EXCEPT !.locked = "refused"])
    /\ reply' = [reply EXCEPT ![t] = NoRecord]
    /\ UNCHANGED <<server, poll, disk, drawn, made, mishaps, faults, reloads>>

\* What becomes of a waiting call the page no longer waits for.
Abandon(t) ==
    /\ IF page[t].call /\ reply[t] = NoRecord
       THEN ghosts' \in {ghosts, ghosts \cup {<<t, page[t].pending>>}}
       ELSE UNCHANGED ghosts
    /\ reply' = [reply EXCEPT ![t] = NoRecord]

\* The call times out, the connection breaks or the server fails: the request
\* stays pending for the retry button.
CallFails(t) ==
    /\ page[t].call
    /\ Fault
    /\ Abandon(t)
    /\ Set(t, GiveUp(page[t]))
    /\ UNCHANGED <<study, log, poll, disk, drawn, made, mishaps, reloads>>

\* startPolling(): the session is read every few seconds ...
PollReads(t) ==
    /\ page[t].ready /\ poll[t] = NoRecord
    /\ poll' = [poll EXCEPT ![t] = [ok |-> ~Newest.complete, revision |-> Revision,
                                    study |-> study]]
    /\ UNCHANGED <<server, page, reply, disk, drawn, made, mishaps, faults, reloads>>

\* ... and the answer is looked at when it arrives.
PollArrives(t) ==
    LET p == page[t]
        seen == poll[t]
        sealed == seen.study # "collecting" \/ ~seen.ok
        moved == p.flush = "none" /\ p.pending = NoRequest /\ seen.revision # p.base
    IN /\ seen # NoRecord
       /\ Set(t, IF sealed THEN [p EXCEPT !.locked = "closed",
                                          !.collecting = seen.study = "collecting"]
                 ELSE IF moved THEN [p EXCEPT !.locked = "changed"]
                 ELSE p)
       /\ poll' = [poll EXCEPT ![t] = NoRecord]
       /\ UNCHANGED <<server, reply, disk, drawn, made, mishaps, faults, reloads>>

\* The tab is reloaded, closed or crashes; its record stays.
LosePage(t) ==
    /\ page[t].pc # "closed"
    /\ reloads < MaxReloads /\ reloads' = reloads + 1
    /\ Abandon(t)
    /\ Set(t, ClosedPage)
    /\ poll' = [poll EXCEPT ![t] = NoRecord]
    /\ UNCHANGED <<study, log, disk, drawn, made, mishaps, faults>>

\* The participant gives up the draft of a tab that found a conflict.
Discard(t) ==
    /\ page[t].locked \in {"refused", "changed", "draft"}
    /\ page[t].flush = "none"
    /\ Set(t, ClosedPage)
    /\ disk' = [disk EXCEPT ![t] = NoRecord]
    /\ poll' = [poll EXCEPT ![t] = NoRecord]
    /\ made' = [made EXCEPT ![t] = Blank]
    /\ UNCHANGED <<server, reply, drawn, mishaps, faults, reloads>>

-----------------------------------------------------------------------------

TabStep(t) ==
    \/ OpenPage(t) \/ Boot(t) \/ Continue(t) \/ Acknowledge(t) \/ Refused(t)
    \/ \E i \in Items, score \in Scores : Edit(t, i, score)
    \/ \E navigating, complete \in BOOLEAN : Flush(t, navigating, complete)
    \/ CallFails(t) \/ PollReads(t) \/ PollArrives(t) \/ LosePage(t) \/ Discard(t)

ServerStep ==
    \/ \E t \in Tabs : Serve(t) \/ ServeOverlapping(t)
    \/ \E g \in ghosts : ServeGhost(g[1], g[2])
    \/ Seal("closed") \/ Seal("revoked")

Next == ServerStep \/ \E t \in Tabs : TabStep(t)

Spec == Init /\ [][Next]_vars

-----------------------------------------------------------------------------
(* Properties *)

\* "Checkpoint saved" is true: a row the page does not count as changed is the
\* acknowledged one, also after edits made while a save was in flight.
UnchangedRowsAreSaved ==
    \A t \in Tabs : page[t].ready =>
        \A i \in Items \ page[t].changes : page[t].rows[i] = At(page[t].base).rows[i]

\* "Do not overwrite another tab's answers": what a published save changes are
\* rows edited in its own tab since the checkpoint that tab had last seen.
NoBlindOverwrite ==
    [][log' # log =>
          \A i \in Items : Newest'.rows[i] # Newest.rows[i] => i \in Newest'.edits]_vars

\* The last score given for a row is never dropped silently: until the session
\* is completed or the draft discarded, it was published, or it is in the open
\* page, or in the record the next page of this tab reads (when the browser
\* could write it).
EditsAreKept ==
    \A t \in Tabs, i \in Items : made[t][i] # 0 /\ ~Newest.complete =>
        \/ \E n \in 1 .. Len(log) : log[n].by = t /\ log[n].rows[i] = made[t][i]
        \/ i \in page[t].changes /\ page[t].rows[i] = made[t][i]
        \/ disk[t] # NoRecord /\ i \in disk[t].changes /\ disk[t].rows[i] = made[t][i]
        \/ "unwritten" \in mishaps

\* Lost acknowledgements and lost pages never lock a participant out of a
\* session that no other tab has saved: a request is repeated as it was and
\* recognised.
AloneIsNeverRefused ==
    study = "collecting" /\ mishaps = {} =>
        \A t \in Tabs : (\A n \in 1 .. Len(log) : log[n].by \in {t, NoRecord})
                        => page[t].locked \notin {"refused", "draft"}

\* "Another tab/device changed this session": the tab locks itself for that
\* reason only when the session is not at the revision the tab has.
LockTellsTheTruth ==
    \A t \in Tabs : page[t].locked = "changed" => page[t].base # Revision

\* "All responses have been saved. Thank you.": a tab that submitted the session
\* submitted the scores last given in it.
SubmissionIsComplete ==
    \A t \in Tabs : page[t].done /\ Newest.by = t =>
        \A i \in Items : made[t][i] # 0 => made[t][i] = Newest.rows[i]
-----------------------------------------------------------------------------
(* The inductive invariant, proved in ListeningPlayer_proofs *)

\* The requests of a tab: pending in its page or its record, or given up and
\* possibly on their way.
Known(t) ==
    ({page[t].pending} \cup {g[2] : g \in {h \in ghosts : h[1] = t}}
        \cup (IF disk[t] = NoRecord THEN {} ELSE {disk[t].pending})) \ {NoRequest}

\* What the parts of a page tell of each other.
InOrder(p) ==
    /\ p.pc = "closed" => p = ClosedPage
    /\ p.pc = "opening" => /\ p.changes = {} /\ p.pending = NoRequest
                           /\ p.flush = "none" /\ p.locked = "no" /\ ~p.done
    /\ p.ready \/ p.done \/ p.flush # "none" => p.pc = "open"
    /\ p.call => p.pending # NoRequest
    /\ p.call <=> p.flush \in {"boot", "old", "new"}
    /\ p.flush = "next" => p.pending = NoRequest
    /\ p.locked = "draft" => ~p.ready /\ p.flush = "none"
    /\ p.locked = "changed" => p.pending = NoRequest /\ p.flush = "none"
PagesAreInOrder ==
    \A t \in Tabs : /\ InOrder(page[t])
                    /\ poll[t] # NoRecord => page[t].ready
                    /\ reply[t] # NoRecord => page[t].call

\* What a page takes for saved is saved at its revision.
HasItsCheckpoint(p) ==
    p.pc # "closed" =>
        /\ p.base <= Revision
        /\ p.done => At(p.base).complete
        /\ \A i \in Items \ p.changes : p.rows[i] = At(p.base).rows[i]
PagesHaveTheirCheckpoints == \A t \in Tabs : HasItsCheckpoint(page[t])

\* An id belongs to one request of one tab, wherever it is found.
RequestsAreUnique ==
    /\ \A n \in 1 .. Len(log) : log[n].id <= drawn
    /\ \A t \in Tabs : \A q \in Known(t) :
          /\ q.id <= drawn
          /\ \A u \in Tabs : \A o \in Known(u) : o.id = q.id => u = t /\ o = q
          /\ \A n \in 1 .. Len(log) : log[n].id = q.id =>
                log[n].by = t /\ log[n].rows = q.rows /\ n = q.expected + 2

\* Beside the rows edited a request repeats the checkpoint it was made on.
RequestsAreHonest ==
    \A t \in Tabs : \A q \in Known(t) :
        /\ q.expected <= Revision
        /\ \A i \in Items \ q.edits : q.rows[i] = At(q.expected).rows[i]

\* Success is answered with the checkpoint that the request became.
AnswersAreOwn ==
    \A t \in Tabs : reply[t] # NoRecord =>
        /\ reply[t].revision <= Revision
        /\ reply[t].ok => At(reply[t].revision).id = page[t].pending.id

CompletionIsLast == \A n \in 1 .. Len(log) : log[n].complete => n = Len(log)

\* A score is published, or the record has it and so has the page that is going to
\* write the record again.
EditIsSafe(t, i) ==
    made[t][i] # 0 /\ ~Newest.complete /\ "unwritten" \notin mishaps =>
        \/ \E n \in 1 .. Len(log) : log[n].by = t /\ log[n].rows[i] = made[t][i]
        \/ /\ disk[t] # NoRecord /\ i \in disk[t].changes /\ disk[t].rows[i] = made[t][i]
           /\ page[t].pc = "open" /\ page[t].locked # "draft" =>
                 i \in page[t].changes /\ page[t].rows[i] = made[t][i]

EditsAreSafe == \A t \in Tabs, i \in Items : EditIsSafe(t, i)

\* What a tab that nobody disturbs has sent and not seen acknowledged.
Unacknowledged(t) ==
    IF page[t].pc = "open" THEN page[t].pending
    ELSE IF disk[t] = NoRecord THEN NoRequest ELSE disk[t].pending

\* Such a tab is at the revision of the server, or its one request is what made
\* that revision or is going to make the next one.
PageMatchesRecord(t) ==
    page[t].pc = "open" =>
        page[t].pending = IF disk[t] = NoRecord THEN NoRequest ELSE disk[t].pending
IdleInStep(t) ==
    /\ disk[t] # NoRecord => disk[t].revision = Revision
    /\ page[t].pc # "closed" => page[t].base = Revision
    /\ Newest.complete => disk[t] = NoRecord /\ (page[t].done \/ page[t].pc = "closed")
BusyInStep(q) == Newest.id = q.id \/ (q.expected = Revision /\ ~Newest.complete)
InStep(t) ==
    /\ page[t].locked \notin {"refused", "draft"}
    /\ PageMatchesRecord(t)
    /\ IF Unacknowledged(t) = NoRequest THEN IdleInStep(t) ELSE BusyInStep(Unacknowledged(t))
    /\ \A q \in Known(t) : <<t, q>> \in ghosts => q = Unacknowledged(t) \/ q.expected < Revision
    /\ reply[t] # NoRecord => reply[t].ok /\ reply[t].revision = Revision
Alone(t) == \A n \in 1 .. Len(log) : log[n].by \in {t, NoRecord}
AloneIsInStep ==
    study = "collecting" /\ mishaps = {} => \A t \in Tabs : Alone(t) => InStep(t)

IInv ==
    /\ TypeOK
    /\ PagesAreInOrder
    /\ PagesHaveTheirCheckpoints
    /\ RequestsAreUnique
    /\ RequestsAreHonest
    /\ AnswersAreOwn
    /\ CompletionIsLast
    /\ EditsAreSafe
    /\ AloneIsInStep
=============================================================================
