------------------------ MODULE ListeningPlayer_proofs ------------------------
(***************************************************************************)
(* No rating of a page is lost or overwritten silently, for any number of  *)
(* tabs, rows, scores, requests, faults and reloads.  IInv is inductive.   *)
(* The first part says what each step does to a page, its record and what  *)
(* is on its way, the second that each conjunct of IInv is kept.           *)
(***************************************************************************)
EXTENDS ListeningPlayer, Integers, SequenceTheorems, TLAPS

-----------------------------------------------------------------------------
(* Pages *)

\* p and q agree in what the invariants speak of, but for how the page waits.
SameWork(p, q) ==
    /\ p.pc = q.pc /\ p.locked = q.locked /\ p.base = q.base /\ p.done = q.done
    /\ p.rows = q.rows /\ p.changes = q.changes /\ p.pending = q.pending

\* A page has its fields.
LEMMA PageFields ==
    ASSUME NEW p \in Page
    PROVE  /\ p.pc \in {"closed", "opening", "open"} /\ p.base \in Nat
           /\ p.locked \in {"no", "refused", "changed", "draft", "closed"}
           /\ p.rows \in Rows /\ p.changes \subseteq Items
           /\ p.pending \in Request \cup {NoRequest}
           /\ p.flush \in {"none", "boot", "old", "next", "new"}
           /\ {p.ready, p.done, p.call, p.complete, p.collecting} \subseteq BOOLEAN
  BY DEF Page

LEMMA ClosedFields ==
    /\ ClosedPage \in Page
    /\ ClosedPage.pc = "closed" /\ ClosedPage.locked = "no" /\ ClosedPage.flush = "none"
    /\ ClosedPage.changes = {} /\ ClosedPage.pending = NoRequest
    /\ ~ClosedPage.ready /\ ~ClosedPage.done /\ ~ClosedPage.call
  BY DEF ClosedPage, Page, Rows, Blank

\* flush() ends, or gives up.
LEMMA EndedFields ==
    ASSUME NEW p \in Page
    PROVE  /\ Ended(p) \in Page /\ SameWork(Ended(p), p)
           /\ Ended(p).ready /\ Ended(p).flush = "none" /\ ~Ended(p).call
  BY ZenonT(60) DEF Ended, Page, SameWork

LEMMA GiveUpFields ==
    ASSUME NEW p \in Page
    PROVE  /\ GiveUp(p) \in Page /\ SameWork(GiveUp(p), p)
           /\ GiveUp(p).ready = p.ready /\ GiveUp(p).flush = "none" /\ ~GiveUp(p).call
  BY ZenonT(60) DEF GiveUp, Page, SameWork

\* The record has the changed rows and the pending request.
LEMMA RecordFields ==
    ASSUME NEW p \in Page
    PROVE  /\ RecordOf(p) \in Record /\ RecordOf(p) # NoRecord
           /\ RecordOf(p).revision = p.base /\ RecordOf(p).changes = p.changes
           /\ RecordOf(p).pending = p.pending
           /\ \A i \in p.changes : RecordOf(p).rows[i] = p.rows[i]
<1>1. RecordOf(p).rows \in Rows
  BY DEF RecordOf, Page, Rows
<1>2. RecordOf(p) \in Record
  BY <1>1 DEF RecordOf, Page, Record
<1> QED BY <1>2, NothingAssumption DEF RecordOf, Page

\* A draft on top of a checkpoint.
LEMMA RecoverFields ==
    ASSUME NEW p \in Page, NEW r \in Record
    PROVE  /\ Recover(p, r) \in Page
           /\ Recover(p, r).changes = r.changes /\ Recover(p, r).pending = r.pending
           /\ \A i \in r.changes : Recover(p, r).rows[i] = r.rows[i]
           /\ \A i \in Items \ r.changes : Recover(p, r).rows[i] = p.rows[i]
           /\ Recover(p, r).pc = p.pc /\ Recover(p, r).ready = p.ready
           /\ Recover(p, r).locked = p.locked
           /\ Recover(p, r).base = p.base /\ Recover(p, r).done = p.done
           /\ Recover(p, r).flush = p.flush /\ Recover(p, r).call = p.call
<1> DEFINE rows == [i \in Items |-> IF i \in r.changes THEN r.rows[i] ELSE p.rows[i]]
           m == [p EXCEPT !.rows = rows, !.changes = r.changes]
<1>1. rows \in Rows /\ r.changes \subseteq Items
  BY DEF Rows, Page, Record
<1>2. Recover(p, r) = [m EXCEPT !.pending = r.pending]
  BY DEF Recover, Page, Record
<1>3. /\ \A i \in r.changes : rows[i] = r.rows[i]
      /\ \A i \in Items \ r.changes : rows[i] = p.rows[i]
  BY <1>1
<1> HIDE DEF rows
<1>4. /\ m \in Page /\ m.rows = rows /\ m.changes = r.changes
      /\ m.pc = p.pc /\ m.ready = p.ready /\ m.locked = p.locked
      /\ m.base = p.base /\ m.done = p.done /\ m.flush = p.flush /\ m.call = p.call
  BY <1>1 DEF Page
<1> HIDE DEF m
<1>5. r.pending \in Request \cup {NoRequest}
  BY DEF Record
<1>6. PICK n : n = [m EXCEPT !.pending = r.pending]
  OBVIOUS
<1>7. /\ n \in Page /\ n.rows = m.rows /\ n.changes = m.changes /\ n.pending = r.pending
      /\ n.pc = m.pc /\ n.ready = m.ready /\ n.locked = m.locked
      /\ n.base = m.base /\ n.done = m.done /\ n.flush = m.flush /\ n.call = m.call
  BY <1>4, <1>5, <1>6 DEF Page
<1> QED BY <1>2, <1>3, <1>4, <1>6, <1>7

\* One page is set, the others stand.
Moved(t) ==
    /\ page' \in [Tabs -> Page]
    /\ \A u \in Tabs : u # t => page'[u] = page[u]

LEMMA SetMoves ==
    ASSUME TypeOK, NEW t \in Tabs, NEW p \in Page, Set(t, p)
    PROVE  Moved(t) /\ page'[t] = p
  BY DEF TypeOK, Set, Moved

\* The record is written with what the page p has, or that fails.
Written(t, p) ==
    /\ disk' \in [Tabs -> Record \cup {NoRecord}]
    /\ \A u \in Tabs : u # t => disk'[u] = disk[u]
    /\ faults' \in 0 .. MaxFaults
    /\ \/ /\ mishaps' = mishaps /\ disk'[t] # NoRecord /\ disk'[t].revision = p.base
          /\ disk'[t].changes = p.changes /\ disk'[t].pending = p.pending
          /\ \A i \in p.changes : disk'[t].rows[i] = p.rows[i]
       \/ mishaps' = mishaps \cup {"unwritten"} /\ disk' = disk

LEMMA FaultCounted ==
    ASSUME TypeOK, Fault
    PROVE  faults' \in 0 .. MaxFaults
  BY PlayerAssumption DEF TypeOK, Fault

LEMMA RememberWrites ==
    ASSUME TypeOK, NEW t \in Tabs, NEW p \in Page, Remember(t, p)
    PROVE  Written(t, p)
<1>1. CASE disk' = [disk EXCEPT ![t] = RecordOf(p)] /\ UNCHANGED <<mishaps, faults>>
  BY <1>1, RecordFields DEF TypeOK, Written
<1>2. CASE Fault /\ mishaps' = mishaps \cup {"unwritten"} /\ UNCHANGED disk
  BY <1>2, FaultCounted DEF TypeOK, Written
<1> QED BY <1>1, <1>2 DEF Remember

-----------------------------------------------------------------------------
(* What each step of a tab does *)

\* Everything but the page of one tab stands.
OnlyPage(t) ==
    /\ Moved(t)
    /\ UNCHANGED <<server, reply, disk, drawn, made, mishaps, faults>>

LEMMA OpenPageEffect ==
    ASSUME TypeOK, NEW t \in Tabs, OpenPage(t)
    PROVE  /\ OnlyPage(t) /\ UNCHANGED <<poll, reloads>>
           /\ study = "collecting" /\ ~Newest.complete /\ page[t].pc = "closed"
           /\ page'[t].pc = "opening" /\ page'[t].base = Revision
           /\ page'[t].rows = Newest.rows /\ page'[t].changes = {}
           /\ page'[t].locked = "no" /\ page'[t].pending = NoRequest
           /\ page'[t].flush = "none"
           /\ ~page'[t].ready /\ ~page'[t].done /\ ~page'[t].call
<1> DEFINE s == [ClosedPage EXCEPT !.pc = "opening", !.base = Revision]
           p == [s EXCEPT !.rows = Newest.rows]
<1>1. Revision \in Nat /\ Newest.rows \in Rows
  <2>1. Len(log) \in Nat \ {0}
    BY DEF TypeOK
  <2>2. Newest \in Published
    BY <2>1 DEF TypeOK, Newest
  <2> QED BY <2>1, <2>2 DEF Revision, Published
<1>2. /\ s \in Page /\ s.pc = "opening" /\ s.base = Revision /\ s.changes = {}
      /\ s.locked = "no" /\ s.pending = NoRequest /\ s.flush = "none"
      /\ ~s.ready /\ ~s.done /\ ~s.call
  BY <1>1, ClosedFields DEF Page
<1>3. Set(t, p)
  BY DEF OpenPage
<1> HIDE DEF s
<1>4. /\ p \in Page /\ p.pc = "opening" /\ p.base = Revision /\ p.changes = {}
      /\ p.rows = Newest.rows
      /\ p.locked = "no" /\ p.pending = NoRequest /\ p.flush = "none"
      /\ ~p.ready /\ ~p.done /\ ~p.call
  BY <1>1, <1>2 DEF Page
<1> HIDE DEF p
<1> QED BY <1>3, <1>4, SetMoves DEF OpenPage, OnlyPage

\* A page finds no record, a draft of another revision, a draft of this one, or a
\* request that is pending.
LEMMA BootEffect ==
    ASSUME TypeOK, NEW t \in Tabs, InOrder(page[t]), Boot(t)
    PROVE  /\ OnlyPage(t) /\ UNCHANGED <<poll, reloads>> /\ page[t].pc = "opening"
           /\ page'[t].pc = "open" /\ page'[t].base = page[t].base /\ ~page'[t].done
           /\ \/ /\ disk[t] = NoRecord /\ page'[t].ready /\ page'[t].locked = "no"
                 /\ page'[t].rows = page[t].rows /\ page'[t].changes = {}
                 /\ page'[t].pending = NoRequest
                 /\ page'[t].flush = "none" /\ ~page'[t].call
              \/ /\ disk[t] # NoRecord /\ disk[t].pending = NoRequest
                 /\ disk[t].revision # page[t].base
                 /\ page'[t].locked = "draft" /\ ~page'[t].ready
                 /\ page'[t].rows = page[t].rows /\ page'[t].changes = {}
                 /\ page'[t].pending = NoRequest
                 /\ page'[t].flush = "none" /\ ~page'[t].call
              \/ /\ disk[t] # NoRecord /\ page'[t].locked = "no"
                 /\ page'[t].changes = disk[t].changes
                 /\ page'[t].pending = disk[t].pending
                 /\ \A i \in disk[t].changes : page'[t].rows[i] = disk[t].rows[i]
                 /\ \A i \in Items \ disk[t].changes : page'[t].rows[i] = page[t].rows[i]
                 /\ IF disk[t].pending = NoRequest
                    THEN page'[t].ready /\ page'[t].flush = "none" /\ ~page'[t].call
                    ELSE ~page'[t].ready /\ page'[t].flush = "boot" /\ page'[t].call
<1> DEFINE o == [page[t] EXCEPT !.pc = "open"]
<1>1. page[t] \in Page /\ page[t].pc = "opening" /\ disk[t] \in Record \cup {NoRecord}
      /\ UNCHANGED <<server, reply, disk, drawn, made, mishaps, faults, poll, reloads>>
  BY DEF Boot, TypeOK
<1>2. /\ page[t].changes = {} /\ page[t].pending = NoRequest /\ page[t].flush = "none"
      /\ page[t].locked = "no" /\ ~page[t].done /\ ~page[t].ready /\ ~page[t].call
  BY <1>1, PageFields DEF InOrder
<1>3. /\ o \in Page /\ o.pc = "open" /\ o.base = page[t].base /\ o.rows = page[t].rows
      /\ o.changes = {} /\ o.pending = NoRequest /\ o.flush = "none" /\ o.locked = "no"
      /\ ~o.done /\ ~o.ready /\ ~o.call
  BY <1>1, <1>2 DEF Page
<1>4. \/ disk[t] = NoRecord /\ Set(t, [o EXCEPT !.ready = TRUE])
      \/ /\ disk[t] # NoRecord /\ disk[t].revision # o.base /\ disk[t].pending = NoRequest
         /\ Set(t, [o EXCEPT !.locked = "draft"])
      \/ /\ disk[t] # NoRecord /\ disk[t].pending = NoRequest
         /\ Set(t, [Recover(o, disk[t]) EXCEPT !.ready = TRUE])
      \/ /\ disk[t] # NoRecord /\ disk[t].pending # NoRequest
         /\ Set(t, [Recover(o, disk[t]) EXCEPT !.flush = "boot", !.call = TRUE])
  BY ZenonT(30) DEF Boot
<1> HIDE DEF o
<1>5. CASE disk[t] = NoRecord /\ Set(t, [o EXCEPT !.ready = TRUE])
  <2>1. PICK p : p = [o EXCEPT !.ready = TRUE]
    OBVIOUS
  <2>2. /\ p \in Page /\ SameWork(p, o) /\ p.flush = o.flush /\ p.call = o.call /\ p.ready
    BY <1>3, <2>1 DEF Page, SameWork
  <2> QED BY <1>1, <1>3, <1>5, <2>1, <2>2, SetMoves DEF SameWork, OnlyPage
<1>6. CASE /\ disk[t] # NoRecord /\ disk[t].revision # o.base
           /\ disk[t].pending = NoRequest /\ Set(t, [o EXCEPT !.locked = "draft"])
  <2>1. PICK p : p = [o EXCEPT !.locked = "draft"]
    OBVIOUS
  <2>2. /\ p \in Page /\ p.pc = o.pc /\ p.base = o.base /\ p.done = o.done /\ p.rows = o.rows
        /\ p.changes = o.changes /\ p.pending = o.pending /\ p.flush = o.flush
        /\ p.call = o.call /\ p.ready = o.ready /\ p.locked = "draft"
    BY <1>3, <2>1 DEF Page
  <2> QED BY <1>1, <1>3, <1>6, <2>1, <2>2, SetMoves DEF OnlyPage
<1>7. ASSUME disk[t] # NoRecord
      PROVE  LET r == Recover(o, disk[t]) d == disk[t]
             IN /\ r \in Page /\ d \in Record /\ r.changes = d.changes /\ r.pending = d.pending
                /\ \A i \in d.changes : r.rows[i] = d.rows[i]
                /\ \A i \in Items \ d.changes : r.rows[i] = o.rows[i]
                /\ r.pc = o.pc /\ r.ready = o.ready /\ r.locked = o.locked
                /\ r.base = o.base /\ r.done = o.done
                /\ r.flush = o.flush /\ r.call = o.call
  BY <1>1, <1>3, <1>7, RecoverFields
<1>8. CASE /\ disk[t] # NoRecord /\ disk[t].pending = NoRequest
           /\ Set(t, [Recover(o, disk[t]) EXCEPT !.ready = TRUE])
  <2>1. PICK r \in Page : r = Recover(o, disk[t])
    BY <1>7, <1>8
  <2>2. PICK p : p = [r EXCEPT !.ready = TRUE]
    OBVIOUS
  <2>3. /\ p \in Page /\ SameWork(p, r) /\ p.flush = r.flush /\ p.call = r.call /\ p.ready
    BY <2>2 DEF Page, SameWork
  <2>4. Moved(t) /\ page'[t] = p
    BY <1>8, <2>1, <2>2, <2>3, SetMoves
  <2> QED BY <1>1, <1>3, <1>7, <1>8, <2>1, <2>3, <2>4 DEF SameWork, OnlyPage
<1>9. CASE /\ disk[t] # NoRecord /\ disk[t].pending # NoRequest
           /\ Set(t, [Recover(o, disk[t]) EXCEPT !.flush = "boot", !.call = TRUE])
  <2>1. PICK r \in Page : r = Recover(o, disk[t])
    BY <1>7, <1>9
  <2>2. PICK p : p = [r EXCEPT !.flush = "boot", !.call = TRUE]
    OBVIOUS
  <2>3. /\ p \in Page /\ SameWork(p, r) /\ p.ready = r.ready /\ p.call /\ p.flush = "boot"
    BY <2>2 DEF Page, SameWork
  <2>4. Moved(t) /\ page'[t] = p
    BY <1>9, <2>1, <2>2, <2>3, SetMoves
  <2> QED BY <1>1, <1>3, <1>7, <1>9, <2>1, <2>3, <2>4 DEF SameWork, OnlyPage
<1> QED BY <1>4, <1>5, <1>6, <1>8, <1>9

LEMMA EditEffect ==
    ASSUME TypeOK, NEW t \in Tabs, NEW i \in Items, NEW score \in Scores, Edit(t, i, score)
    PROVE  /\ Moved(t) /\ Written(t, page'[t])
           /\ UNCHANGED <<server, reply, poll, drawn, reloads>>
           /\ page[t].ready /\ Writable(page[t])
           /\ page'[t].pc = page[t].pc /\ page'[t].ready /\ page'[t].locked = page[t].locked
           /\ page'[t].base = page[t].base /\ page'[t].done = page[t].done
           /\ page'[t].pending = page[t].pending
           /\ page'[t].flush = page[t].flush /\ page'[t].call = page[t].call
           /\ page'[t].changes = page[t].changes \cup {i} /\ page'[t].rows[i] = score
           /\ \A j \in Items : j # i => page'[t].rows[j] = page[t].rows[j]
           /\ made' \in [Tabs -> Rows] /\ made'[t][i] = score
           /\ \A u \in Tabs, j \in Items : u # t \/ j # i => made'[u][j] = made[u][j]
<1>1. PICK old \in Page : old = page[t]
  BY DEF TypeOK
<1>2. PICK rows \in Rows : rows = [old.rows EXCEPT ![i] = score]
  BY <1>1, PageFields DEF Rows
<1>3. /\ rows[i] = score
      /\ \A j \in Items : j # i => rows[j] = old.rows[j]
  BY <1>2, PageFields DEF Rows
<1>4. PICK p : p = [old EXCEPT !.rows = rows, !.changes = old.changes \cup {i}]
  OBVIOUS
<1>5. /\ p \in Page /\ p.rows = rows /\ p.changes = old.changes \cup {i}
      /\ p.pc = old.pc /\ p.ready = old.ready /\ p.locked = old.locked
      /\ p.base = old.base /\ p.done = old.done /\ p.pending = old.pending
      /\ p.flush = old.flush /\ p.call = old.call
  BY <1>4 DEF Page
<1>6. p = [page[t] EXCEPT !.rows[i] = score, !.changes = @ \cup {i}]
  BY <1>1, <1>2, <1>4 DEF Page
<1>7. /\ Set(t, p) /\ Remember(t, p) /\ page[t].ready /\ Writable(page[t])
      /\ made' = [made EXCEPT ![t][i] = score]
      /\ UNCHANGED <<server, reply, poll, drawn, reloads>>
  BY <1>6 DEF Edit
<1>8. Moved(t) /\ page'[t] = p /\ Written(t, p)
  BY <1>5, <1>7, SetMoves, RememberWrites
<1>9. /\ made' \in [Tabs -> Rows] /\ made'[t][i] = score
      /\ \A u \in Tabs, j \in Items : u # t \/ j # i => made'[u][j] = made[u][j]
  <2>1. made \in [Tabs -> Rows]
    BY DEF TypeOK
  <2>2. PICK mine \in Rows : mine = [made[t] EXCEPT ![i] = score]
    BY <2>1 DEF Rows
  <2>3. made' = [made EXCEPT ![t] = mine]
    BY <1>7, <2>2
  <2>4. mine[i] = score /\ \A j \in Items : j # i => mine[j] = made[t][j]
    BY <2>1, <2>2 DEF Rows
  <2> QED BY <2>1, <2>3, <2>4
<1> QED BY <1>1, <1>3, <1>5, <1>7, <1>8, <1>9

\* There is nothing to send.
Idles(t) ==
    /\ Moved(t) /\ SameWork(page'[t], page[t])
    /\ page'[t].ready /\ page'[t].flush = "none" /\ ~page'[t].call
    /\ UNCHANGED <<disk, drawn, mishaps, faults>>

\* A new request is remembered and sent.
Sends(t) ==
    /\ Moved(t) /\ Written(t, page'[t])
    /\ page'[t].pc = page[t].pc /\ page'[t].ready = page[t].ready
    /\ page'[t].locked = page[t].locked /\ page'[t].base = page[t].base
    /\ page'[t].done = page[t].done /\ page'[t].rows = page[t].rows
    /\ page'[t].changes = page[t].changes
    /\ page'[t].flush = "new" /\ page'[t].call
    /\ page'[t].pending \in Request /\ page'[t].pending.id = drawn + 1
    /\ page'[t].pending.expected = page[t].base /\ page'[t].pending.rows = page[t].rows
    /\ page'[t].pending.edits = page[t].changes
    /\ drawn' = drawn + 1 /\ drawn < MaxRequests

LEMMA MakeRequestEffect ==
    ASSUME TypeOK, NEW t \in Tabs, NEW p \in Page, SameWork(p, page[t]),
           p.ready = page[t].ready, MakeRequest(t, p)
    PROVE  Idles(t) \/ Sends(t)
<1>1. CASE p.changes = {} /\ ~p.navigating
  <2>1. Set(t, Ended(p)) /\ UNCHANGED <<disk, drawn, mishaps, faults>>
    BY <1>1 DEF MakeRequest
  <2>2. Moved(t) /\ page'[t] = Ended(p)
    BY <2>1, EndedFields, SetMoves
  <2> QED BY <2>1, <2>2, EndedFields DEF Idles, SameWork
<1>2. CASE ~(p.changes = {} /\ ~p.navigating)
  <2>1. PICK q : q = [id |-> drawn + 1, expected |-> p.base, rows |-> p.rows,
                      complete |-> p.complete, edits |-> p.changes]
    OBVIOUS
  <2>2. PICK s : s = [p EXCEPT !.pending = q, !.flush = "new", !.call = TRUE]
    OBVIOUS
  <2>3. /\ drawn < MaxRequests /\ drawn' = drawn + 1
        /\ Set(t, s) /\ Remember(t, s)
    BY <1>2, <2>1, <2>2 DEF MakeRequest
  <2>4. /\ q \in Request /\ q.id = drawn + 1 /\ q.expected = p.base /\ q.rows = p.rows
        /\ q.edits = p.changes
    <3>1. drawn + 1 \in 1 .. MaxRequests
      BY <2>3, PlayerAssumption DEF TypeOK
    <3> QED BY <2>1, <3>1, PageFields DEF Request
  <2>5. /\ s \in Page /\ s.pending = q /\ s.flush = "new" /\ s.call
        /\ s.pc = p.pc /\ s.ready = p.ready /\ s.locked = p.locked /\ s.base = p.base
        /\ s.done = p.done /\ s.rows = p.rows /\ s.changes = p.changes
    <3>1. PICK m : m = [p EXCEPT !.pending = q, !.flush = "new"]
      OBVIOUS
    <3>2. /\ m \in Page /\ m.pending = q /\ m.flush = "new"
          /\ m.pc = p.pc /\ m.ready = p.ready /\ m.locked = p.locked /\ m.base = p.base
          /\ m.done = p.done /\ m.rows = p.rows /\ m.changes = p.changes
      BY <2>4, <3>1 DEF Page
    <3>3. s = [m EXCEPT !.call = TRUE]
      BY <2>2, <3>1
    <3> QED BY <3>2, <3>3, ZenonT(30) DEF Page
  <2>6. Moved(t) /\ page'[t] = s /\ Written(t, s)
    BY <2>3, <2>5, SetMoves, RememberWrites
  <2>7. Sends(t)
    BY <2>3, <2>4, <2>5, <2>6 DEF Sends, SameWork
  <2> QED BY <2>7
<1> QED BY <1>1, <1>2

LEMMA FlushEffect ==
    ASSUME TypeOK, NEW t \in Tabs, NEW navigating \in BOOLEAN, NEW complete \in BOOLEAN,
           Flush(t, navigating, complete)
    PROVE  /\ UNCHANGED <<server, reply, poll, made, reloads>>
           /\ page[t].pc = "open" /\ page[t].flush = "none" /\ Writable(page[t])
           /\ \/ page[t].pending = NoRequest /\ page[t].ready /\ (Idles(t) \/ Sends(t))
              \/ /\ page[t].pending # NoRequest /\ OnlyPage(t)
                 /\ SameWork(page'[t], page[t]) /\ page'[t].ready = page[t].ready
                 /\ page'[t].flush = "old" /\ page'[t].call
<1>1. PICK old \in Page : old = page[t]
  BY DEF TypeOK
<1>2. PICK p : p = [old EXCEPT !.navigating = navigating, !.complete = complete]
  OBVIOUS
<1>3. p \in Page /\ SameWork(p, old) /\ p.ready = old.ready
  BY <1>2 DEF Page, SameWork
<1>4. /\ UNCHANGED <<server, reply, poll, made, reloads>>
      /\ old.pc = "open" /\ old.flush = "none" /\ Writable(old)
      /\ old.ready \/ old.pending # NoRequest
      /\ IF p.pending = NoRequest
         THEN MakeRequest(t, p)
         ELSE /\ Set(t, [p EXCEPT !.flush = "old", !.call = TRUE])
              /\ UNCHANGED <<disk, drawn, mishaps, faults>>
  BY <1>1, <1>2 DEF Flush
<1>5. CASE p.pending = NoRequest
  BY <1>1, <1>3, <1>4, <1>5, MakeRequestEffect DEF SameWork
<1>6. CASE p.pending # NoRequest
  <2>1. PICK s : s = [p EXCEPT !.flush = "old", !.call = TRUE]
    OBVIOUS
  <2>2. s \in Page /\ SameWork(s, p) /\ s.ready = p.ready /\ s.flush = "old" /\ s.call
    BY <1>3, <2>1 DEF Page, SameWork
  <2>3. Moved(t) /\ page'[t] = s
    BY <1>4, <1>6, <2>1, <2>2, SetMoves
  <2> QED BY <1>1, <1>3, <1>4, <1>6, <2>2, <2>3 DEF SameWork, OnlyPage
<1> QED BY <1>5, <1>6

LEMMA ContinueEffect ==
    ASSUME TypeOK, NEW t \in Tabs, Continue(t)
    PROVE  /\ UNCHANGED <<server, reply, poll, made, reloads>> /\ page[t].flush = "next"
           /\ Idles(t) \/ (~page[t].done /\ Sends(t))
<1>1. page[t] \in Page /\ SameWork(page[t], page[t])
  BY DEF TypeOK, SameWork
<1>2. CASE page[t].done
  <2>1. Set(t, Ended(page[t])) /\ UNCHANGED <<disk, drawn, mishaps, faults>>
    BY <1>2 DEF Continue
  <2>2. Moved(t) /\ page'[t] = Ended(page[t])
    BY <1>1, <2>1, EndedFields, SetMoves
  <2> QED BY <1>1, <2>1, <2>2, EndedFields DEF Idles, Continue
<1>3. CASE ~page[t].done
  BY <1>1, <1>3, MakeRequestEffect DEF Continue
<1> QED BY <1>2, <1>3

\* The page is told that its request became the checkpoint at its revision.
LEMMA AcknowledgeEffect ==
    ASSUME TypeOK, NEW t \in Tabs, reply[t] # NoRecord => reply[t].revision <= Revision,
           Acknowledge(t)
    PROVE  /\ Moved(t) /\ UNCHANGED <<server, poll, drawn, made, reloads>>
           /\ page[t].call /\ reply[t] # NoRecord /\ reply[t].ok
           /\ reply[t].revision \in 0 .. Revision
           /\ page'[t].pc = page[t].pc /\ page'[t].locked = page[t].locked
           /\ page'[t].base = reply[t].revision
           /\ page'[t].done = At(reply[t].revision).complete
           /\ page'[t].changes =
                 {i \in page[t].changes : page[t].rows[i] # At(reply[t].revision).rows[i]}
           /\ \A i \in page'[t].changes : page'[t].rows[i] = page[t].rows[i]
           /\ \A i \in Items \ page'[t].changes :
                 page'[t].rows[i] = At(reply[t].revision).rows[i]
           /\ page'[t].pending = NoRequest /\ ~page'[t].call
           /\ IF page[t].flush = "old"
              THEN page'[t].flush = "next" /\ page'[t].ready = page[t].ready
              ELSE page'[t].flush = "none" /\ page'[t].ready
           /\ IF page'[t].done
              THEN disk' = [disk EXCEPT ![t] = NoRecord] /\ UNCHANGED <<mishaps, faults>>
              ELSE Written(t, page'[t])
           /\ reply' = [reply EXCEPT ![t] = NoRecord]
<1>1. PICK old \in Page : old = page[t]
  BY DEF TypeOK
<1>2. reply[t] # NoRecord /\ reply[t].ok /\ old.call
  BY <1>1 DEF Acknowledge
<1>3. PICK k \in 0 .. Revision : k = reply[t].revision
  <2>1. reply[t] \in Answer
    BY <1>2 DEF TypeOK
  <2>2. Revision \in Nat
    BY DEF Revision, TypeOK
  <2> QED BY <1>2, <2>1, <2>2 DEF Answer
<1>4. PICK entry \in Published : entry = At(k)
  <2>1. k + 1 \in 1 .. Len(log)
    BY DEF Revision, TypeOK
  <2> QED BY <2>1 DEF At, TypeOK
<1>5. entry.rows \in Rows /\ entry.complete \in BOOLEAN
  BY DEF Published
<1>6. PICK left \in SUBSET Items : left = {i \in old.changes : old.rows[i] # entry.rows[i]}
  BY PageFields
<1>7. PICK rows \in Rows : rows = [i \in Items |-> IF i \in left THEN old.rows[i] ELSE entry.rows[i]]
  BY <1>5, PageFields DEF Rows
<1>8. /\ \A i \in left : rows[i] = old.rows[i]
      /\ \A i \in Items \ left : rows[i] = entry.rows[i]
  BY <1>7
<1>9. PICK a : a = Acknowledged(old, k)
  OBVIOUS
<1>10. a = [old EXCEPT !.base = k, !.done = entry.complete, !.changes = left,
                       !.rows = rows, !.pending = NoRequest, !.call = FALSE]
  BY <1>4, <1>6, <1>7, <1>9 DEF Acknowledged, Page
<1>11. /\ a \in Page /\ a.base = k /\ a.done = entry.complete /\ a.changes = left
       /\ a.rows = rows /\ a.pending = NoRequest /\ ~a.call
       /\ a.pc = old.pc /\ a.locked = old.locked /\ a.flush = old.flush
       /\ a.ready = old.ready
  <2>1. PICK m : m = [old EXCEPT !.base = k, !.done = entry.complete, !.changes = left]
    OBVIOUS
  <2>2. k \in Nat
    BY DEF Revision, TypeOK
  <2>3. /\ m \in Page /\ m.base = k /\ m.done = entry.complete /\ m.changes = left
        /\ m.pc = old.pc /\ m.locked = old.locked /\ m.flush = old.flush
        /\ m.ready = old.ready /\ m.rows = old.rows
    BY <1>5, <2>1, <2>2, ZenonT(30) DEF Page
  <2>4. a = [m EXCEPT !.rows = rows, !.pending = NoRequest, !.call = FALSE]
    BY <1>10, <2>1
  <2> QED BY <2>3, <2>4, ZenonT(30) DEF Page
<1>12. PICK c : c = [a EXCEPT !.collecting = reply[t].study = "collecting"]
  OBVIOUS
<1>13. c \in Page /\ SameWork(c, a) /\ c.ready = a.ready /\ c.call = a.call /\ c.flush = a.flush
  BY <1>11, <1>12 DEF Page, SameWork
<1>14. PICK p : p = IF c.flush = "old" THEN [c EXCEPT !.flush = "next"] ELSE Ended(c)
  OBVIOUS
<1>15. /\ p \in Page /\ SameWork(p, c) /\ ~p.call
       /\ IF old.flush = "old" THEN p.flush = "next" /\ p.ready = old.ready
                               ELSE p.flush = "none" /\ p.ready
  <2>1. CASE c.flush = "old"
    BY <1>11, <1>13, <1>14, <2>1 DEF Page, SameWork
  <2>2. CASE c.flush # "old"
    BY <1>11, <1>13, <1>14, <2>2, EndedFields
  <2> QED BY <2>1, <2>2
<1>16. /\ Set(t, p) /\ reply' = [reply EXCEPT ![t] = NoRecord]
       /\ UNCHANGED <<server, poll, drawn, made, reloads>>
       /\ IF p.done
          THEN disk' = [disk EXCEPT ![t] = NoRecord] /\ UNCHANGED <<mishaps, faults>>
          ELSE Remember(t, p)
  BY <1>1, <1>3, <1>9, <1>12, <1>14 DEF Acknowledge
<1>17. Moved(t) /\ page'[t] = p
  BY <1>15, <1>16, SetMoves
<1>18. /\ p.pc = old.pc /\ p.locked = old.locked /\ p.base = k /\ p.done = entry.complete
       /\ p.changes = left /\ p.rows = rows /\ p.pending = NoRequest
  BY <1>11, <1>13, <1>15 DEF SameWork
<1>19. IF p.done
       THEN disk' = [disk EXCEPT ![t] = NoRecord] /\ UNCHANGED <<mishaps, faults>>
       ELSE Written(t, p)
  BY <1>15, <1>16, RememberWrites
<1> QED BY <1>1, <1>2, <1>3, <1>4, <1>6, <1>8, <1>15, <1>16, <1>17, <1>18, <1>19

LEMMA RefusedEffect ==
    ASSUME TypeOK, NEW t \in Tabs, Refused(t)
    PROVE  /\ Moved(t) /\ UNCHANGED <<server, poll, disk, drawn, made, mishaps, faults, reloads>>
           /\ page[t].call /\ reply[t] # NoRecord /\ ~reply[t].ok
           /\ page'[t].pc = page[t].pc /\ page'[t].base = page[t].base
           /\ page'[t].done = page[t].done /\ page'[t].rows = page[t].rows
           /\ page'[t].changes = page[t].changes /\ page'[t].pending = page[t].pending
           /\ page'[t].ready = page[t].ready /\ page'[t].locked = "refused"
           /\ page'[t].flush = "none" /\ ~page'[t].call
           /\ reply' = [reply EXCEPT ![t] = NoRecord]
<1>1. PICK g \in Page : g = GiveUp(page[t])
  BY GiveUpFields DEF TypeOK
<1>2. PICK p : p = [g EXCEPT !.locked = "refused"]
  OBVIOUS
<1>3. /\ p \in Page /\ p.pc = g.pc /\ p.base = g.base /\ p.done = g.done /\ p.rows = g.rows
      /\ p.changes = g.changes /\ p.pending = g.pending /\ p.flush = g.flush
      /\ p.call = g.call /\ p.ready = g.ready /\ p.locked = "refused"
  BY <1>2 DEF Page
<1>4. Moved(t) /\ page'[t] = p
  BY <1>1, <1>2, <1>3, SetMoves DEF Refused
<1>5. page[t] \in Page
  BY DEF TypeOK
<1> QED BY <1>1, <1>3, <1>4, <1>5, GiveUpFields DEF SameWork, Refused

\* A call that a page gives up may still arrive.
Abandoned(t) ==
    /\ ghosts \subseteq ghosts' /\ ghosts' \subseteq Tabs \X Request
    /\ \A g \in ghosts' : g \in ghosts \/ (g = <<t, page[t].pending>> /\ page[t].call)
    /\ reply' = [reply EXCEPT ![t] = NoRecord]

LEMMA AbandonEffect ==
    ASSUME TypeOK, NEW t \in Tabs, InOrder(page[t]), Abandon(t)
    PROVE  Abandoned(t)
<1>1. page[t].call => page[t].pending \in Request
  BY DEF InOrder, TypeOK, Page
<1> QED BY <1>1 DEF Abandon, Abandoned, TypeOK

LEMMA CallFailsEffect ==
    ASSUME TypeOK, NEW t \in Tabs, InOrder(page[t]), CallFails(t)
    PROVE  /\ Moved(t) /\ UNCHANGED <<study, log, poll, disk, drawn, made, mishaps, reloads>>
           /\ faults' \in 0 .. MaxFaults /\ Abandoned(t) /\ page[t].call
           /\ SameWork(page'[t], page[t]) /\ page'[t].ready = page[t].ready
           /\ page'[t].flush = "none" /\ ~page'[t].call
<1>1. page[t] \in Page
  BY DEF TypeOK
<1>2. Moved(t) /\ page'[t] = GiveUp(page[t])
  BY <1>1, GiveUpFields, SetMoves DEF CallFails
<1> QED BY <1>1, <1>2, GiveUpFields, AbandonEffect, FaultCounted DEF CallFails

LEMMA PollReadsEffect ==
    ASSUME TypeOK, NEW t \in Tabs, PollReads(t)
    PROVE  /\ UNCHANGED <<server, page, reply, disk, drawn, made, mishaps, faults, reloads>>
           /\ poll' \in [Tabs -> Answer \cup {NoRecord}] /\ page[t].ready
           /\ \A u \in Tabs : u # t => poll'[u] = poll[u]
<1>1. Newest \in Published /\ Revision \in Nat
  BY DEF Newest, Revision, TypeOK
<1>2. [ok |-> ~Newest.complete, revision |-> Revision, study |-> study] \in Answer
  BY <1>1 DEF Answer, TypeOK
<1> QED BY <1>2 DEF PollReads, TypeOK

LEMMA PollArrivesEffect ==
    ASSUME TypeOK, NEW t \in Tabs, PollArrives(t)
    PROVE  /\ OnlyPage(t) /\ UNCHANGED reloads /\ poll[t] # NoRecord
           /\ poll' = [poll EXCEPT ![t] = NoRecord]
           /\ page'[t].pc = page[t].pc /\ page'[t].base = page[t].base
           /\ page'[t].done = page[t].done /\ page'[t].rows = page[t].rows
           /\ page'[t].changes = page[t].changes /\ page'[t].pending = page[t].pending
           /\ page'[t].ready = page[t].ready
           /\ page'[t].flush = page[t].flush /\ page'[t].call = page[t].call
           /\ \/ page'[t].locked = page[t].locked \/ page'[t].locked = "closed"
              \/ /\ page'[t].locked = "changed"
                 /\ page[t].flush = "none" /\ page[t].pending = NoRequest
<1>1. PICK old \in Page : old = page[t]
  BY DEF TypeOK
<1>2. PICK c \in BOOLEAN : c = (poll[t].study = "collecting")
  OBVIOUS
<1>3. /\ poll[t] # NoRecord /\ poll' = [poll EXCEPT ![t] = NoRecord]
      /\ UNCHANGED <<server, reply, disk, drawn, made, mishaps, faults, reloads>>
      /\ \/ Set(t, [old EXCEPT !.locked = "closed", !.collecting = c])
         \/ /\ old.flush = "none" /\ old.pending = NoRequest
            /\ Set(t, [old EXCEPT !.locked = "changed"])
         \/ Set(t, old)
  BY <1>1, <1>2 DEF PollArrives
<1>4. CASE Set(t, [old EXCEPT !.locked = "closed", !.collecting = c])
  <2>1. PICK p : p = [old EXCEPT !.locked = "closed", !.collecting = c]
    OBVIOUS
  <2>2. /\ p \in Page /\ p.pc = old.pc /\ p.base = old.base /\ p.done = old.done
        /\ p.rows = old.rows /\ p.changes = old.changes /\ p.pending = old.pending
        /\ p.flush = old.flush /\ p.call = old.call /\ p.ready = old.ready
        /\ p.locked = "closed"
    BY <2>1 DEF Page
  <2> QED BY <1>1, <1>3, <1>4, <2>1, <2>2, SetMoves DEF OnlyPage
<1>5. CASE /\ old.flush = "none" /\ old.pending = NoRequest
           /\ Set(t, [old EXCEPT !.locked = "changed"])
  <2>1. PICK p : p = [old EXCEPT !.locked = "changed"]
    OBVIOUS
  <2>2. /\ p \in Page /\ p.pc = old.pc /\ p.base = old.base /\ p.done = old.done
        /\ p.rows = old.rows /\ p.changes = old.changes /\ p.pending = old.pending
        /\ p.flush = old.flush /\ p.call = old.call /\ p.ready = old.ready
        /\ p.locked = "changed"
    BY <2>1 DEF Page
  <2> QED BY <1>1, <1>3, <1>5, <2>1, <2>2, SetMoves DEF OnlyPage
<1>6. CASE Set(t, old)
  BY <1>1, <1>3, <1>6, SetMoves DEF OnlyPage
<1> QED BY <1>3, <1>4, <1>5, <1>6

LEMMA LosePageEffect ==
    ASSUME TypeOK, NEW t \in Tabs, InOrder(page[t]), LosePage(t)
    PROVE  /\ Moved(t) /\ UNCHANGED <<study, log, disk, drawn, made, mishaps, faults>>
           /\ reloads' \in 0 .. MaxReloads /\ Abandoned(t)
           /\ page'[t] = ClosedPage /\ poll' = [poll EXCEPT ![t] = NoRecord]
<1>1. reloads' \in 0 .. MaxReloads
  BY PlayerAssumption DEF LosePage, TypeOK
<1> QED BY <1>1, ClosedFields, SetMoves, AbandonEffect DEF LosePage

LEMMA DiscardEffect ==
    ASSUME TypeOK, NEW t \in Tabs, Discard(t)
    PROVE  /\ Moved(t) /\ UNCHANGED <<server, reply, drawn, mishaps, faults, reloads>>
           /\ page'[t] = ClosedPage /\ poll' = [poll EXCEPT ![t] = NoRecord]
           /\ disk' = [disk EXCEPT ![t] = NoRecord]
           /\ made' = [made EXCEPT ![t] = Blank]
           /\ page[t].locked \in {"refused", "changed", "draft"} /\ page[t].flush = "none"
  BY ClosedFields, SetMoves DEF Discard

-----------------------------------------------------------------------------
(* What the server does *)

LEMMA LogFacts ==
    ASSUME TypeOK
    PROVE  /\ Len(log) \in Nat \ {0} /\ Revision \in Nat /\ Len(log) = Revision + 1
           /\ Newest \in Published /\ Newest = At(Revision)
           /\ \A n \in 1 .. Len(log) : log[n] \in Published
           /\ \A k \in 0 .. Revision : At(k) = log[k + 1] /\ k + 1 \in 1 .. Len(log)
  BY DEF TypeOK, Revision, Newest, At

\* A request becomes the newest checkpoint, the others stay.
LEMMA PublishFacts ==
    ASSUME TypeOK, NEW t \in Tabs, NEW q \in Request, Publish(t, q)
    PROVE  /\ log' \in Seq(Published) /\ log' # <<>> /\ Len(log') = Len(log) + 1
           /\ Revision' = Revision + 1
           /\ \A n \in 1 .. Len(log) : log'[n] = log[n]
           /\ \A k \in 0 .. Revision : At(k)' = At(k)
           /\ Newest' = log'[Len(log) + 1]
           /\ Newest'.id = q.id /\ Newest'.rows = q.rows /\ Newest'.complete = q.complete
           /\ Newest'.by = t /\ Newest'.edits = q.edits
<1>1. PICK e : e = [id |-> q.id, rows |-> q.rows, complete |-> q.complete, by |-> t,
                    edits |-> q.edits]
  OBVIOUS
<1>2. e \in Published
  BY <1>1, PlayerAssumption DEF Published, Request
<1>3. log' = Append(log, e) /\ log \in Seq(Published) /\ Len(log) \in Nat
  BY <1>1 DEF Publish, TypeOK
<1>4. /\ log' \in Seq(Published) /\ Len(log') = Len(log) + 1
      /\ \A n \in 1 .. Len(log) : log'[n] = log[n]
      /\ log'[Len(log) + 1] = e
  BY <1>2, <1>3
<1>5. Newest' = e /\ Revision' = Revision + 1 /\ log' # <<>>
  BY <1>3, <1>4, LogFacts DEF Newest, Revision
<1>6. \A k \in 0 .. Revision : At(k)' = At(k)
  BY <1>4, LogFacts DEF At
<1> QED BY <1>1, <1>4, <1>5, <1>6

\* A tab is answered.
Answered(t, ok, revision) ==
    /\ reply' \in [Tabs -> Answer \cup {NoRecord}]
    /\ reply'[t] # NoRecord /\ reply'[t].ok = ok /\ reply'[t].revision = revision
    /\ \A u \in Tabs : u # t => reply'[u] = reply[u]

LEMMA AnswerToAnswers ==
    ASSUME TypeOK, NEW t \in Tabs, NEW ok \in BOOLEAN, NEW k \in Nat, AnswerTo(t, ok, k)
    PROVE  Answered(t, ok, k)
<1>1. PICK a : a = [ok |-> ok, revision |-> k, study |-> study]
  OBVIOUS
<1>2. a \in Answer /\ a.ok = ok /\ a.revision = k /\ a # NoRecord
  <2>1. a \in Answer
    BY <1>1 DEF Answer, TypeOK
  <2> QED BY <1>1, <2>1, NothingAssumption
<1>3. reply' = [reply EXCEPT ![t] = a]
  BY <1>1 DEF AnswerTo
<1> QED BY <1>2, <1>3 DEF Answered, TypeOK

\* The tabs stand while the server works.
TabsStand == UNCHANGED <<page, poll, disk, drawn, made, faults, reloads>>

LEMMA ServeEffect ==
    ASSUME TypeOK, NEW t \in Tabs, InOrder(page[t]), Serve(t)
    PROVE  /\ TabsStand /\ UNCHANGED <<study, ghosts, mishaps>>
           /\ page[t].call /\ reply[t] = NoRecord /\ page[t].pending \in Request
           /\ \/ /\ Newest.id = page[t].pending.id /\ log' = log
                 /\ Answered(t, TRUE, Revision)
              \/ /\ Accepts(page[t].pending) /\ Publish(t, page[t].pending)
                 /\ Answered(t, TRUE, Revision + 1)
              \/ /\ ~Replays(page[t].pending) /\ ~Accepts(page[t].pending) /\ log' = log
                 /\ Answered(t, FALSE, Revision)
<1>1. page[t].call /\ reply[t] = NoRecord /\ page[t].pending \in Request
  BY DEF Serve, InOrder, TypeOK, Page
<1>2. TabsStand /\ UNCHANGED <<study, ghosts, mishaps>>
  BY DEF Serve, TabsStand
<1>3. Revision \in Nat /\ Revision + 1 \in Nat
  BY LogFacts
<1> QED BY <1>1, <1>2, <1>3, AnswerToAnswers DEF Serve, Replays

LEMMA ServeOverlappingEffect ==
    ASSUME TypeOK, NEW t \in Tabs, ServeOverlapping(t)
    PROVE  /\ TabsStand /\ study' = study /\ ghosts' \subseteq ghosts
           /\ mishaps' = mishaps \cup {"overlap"}
           /\ page[t].call /\ reply[t] = NoRecord /\ page[t].pending \in Request
           /\ Accepts(page[t].pending) /\ Publish(t, page[t].pending)
           /\ Answered(t, FALSE, Revision)
<1>1. page[t].pending \in Request
  BY DEF ServeOverlapping, TypeOK
<1>2. AnswerTo(t, FALSE, Revision)
  BY DEF ServeOverlapping
<1>3. Answered(t, FALSE, Revision)
  BY <1>2, LogFacts, AnswerToAnswers
<1> QED BY <1>1, <1>3 DEF ServeOverlapping, TabsStand

LEMMA ServeGhostEffect ==
    ASSUME TypeOK, NEW g \in ghosts, ServeGhost(g[1], g[2])
    PROVE  \E t \in Tabs, q \in Request :
              /\ <<t, q>> \in ghosts /\ TabsStand /\ UNCHANGED <<study, reply, mishaps>>
              /\ ghosts' \subseteq ghosts
              /\ log' = log \/ (~Replays(q) /\ Accepts(q) /\ Publish(t, q))
<1>1. PICK t \in Tabs, q \in Request : g = <<t, q>>
  BY DEF TypeOK
<1>2. ServeGhost(t, q)
  BY <1>1
<1> QED BY <1>2 DEF ServeGhost, TabsStand

-----------------------------------------------------------------------------
(* Types *)

LEMMA TabTypes ==
    ASSUME TypeOK, PagesAreInOrder, AnswersAreOwn, NEW t \in Tabs, TabStep(t)
    PROVE  TypeOK'
<1>0. /\ InOrder(page[t])
      /\ reply[t] # NoRecord => reply[t].revision <= Revision
  BY DEF PagesAreInOrder, AnswersAreOwn
<1>w. ASSUME NEW p, Written(t, p)
      PROVE  /\ disk' \in [Tabs -> Record \cup {NoRecord}] /\ faults' \in 0 .. MaxFaults
             /\ mishaps' \subseteq {"overlap", "unwritten"}
  BY <1>w DEF Written, TypeOK
<1>s. ASSUME Sends(t)
      PROVE  /\ page' \in [Tabs -> Page] /\ drawn' \in 0 .. MaxRequests
             /\ disk' \in [Tabs -> Record \cup {NoRecord}] /\ faults' \in 0 .. MaxFaults
             /\ mishaps' \subseteq {"overlap", "unwritten"}
  BY <1>s, <1>w, PlayerAssumption DEF Sends, Moved, TypeOK
<1>a. ASSUME Abandoned(t)
      PROVE  /\ ghosts' \subseteq Tabs \X Request
             /\ reply' \in [Tabs -> Answer \cup {NoRecord}]
  BY <1>a DEF Abandoned, TypeOK
<1>1. CASE OpenPage(t) \/ Boot(t)
  <2>1. OnlyPage(t) /\ UNCHANGED <<poll, reloads>>
    BY <1>0, <1>1, OpenPageEffect, BootEffect
  <2> QED BY <2>1 DEF OnlyPage, Moved, TypeOK, server
<1>3. ASSUME NEW i \in Items, NEW score \in Scores, Edit(t, i, score)
      PROVE  TypeOK'
  <2>1. /\ Moved(t) /\ Written(t, page'[t]) /\ made' \in [Tabs -> Rows]
        /\ UNCHANGED <<server, reply, poll, drawn, reloads>>
    BY <1>3, EditEffect
  <2> QED BY <1>w, <2>1 DEF Moved, TypeOK, server
<1>4. ASSUME NEW navigating \in BOOLEAN, NEW complete \in BOOLEAN,
             Flush(t, navigating, complete)
      PROVE  TypeOK'
  <2>1. /\ UNCHANGED <<server, reply, poll, made, reloads>>
        /\ Idles(t) \/ Sends(t) \/ OnlyPage(t)
    BY <1>4, FlushEffect
  <2> QED BY <1>s, <2>1 DEF Idles, OnlyPage, Moved, TypeOK, server
<1>5. CASE Continue(t)
  <2>1. UNCHANGED <<server, reply, poll, made, reloads>> /\ (Idles(t) \/ Sends(t))
    BY <1>5, ContinueEffect
  <2> QED BY <1>s, <2>1 DEF Idles, Moved, TypeOK, server
<1>6. CASE Acknowledge(t)
  <2>1. /\ Moved(t) /\ UNCHANGED <<server, poll, drawn, made, reloads>>
        /\ reply' = [reply EXCEPT ![t] = NoRecord]
        /\ \/ disk' = [disk EXCEPT ![t] = NoRecord] /\ UNCHANGED <<mishaps, faults>>
           \/ Written(t, page'[t])
    BY <1>0, <1>6, AcknowledgeEffect
  <2>2. reply' \in [Tabs -> Answer \cup {NoRecord}]
    BY <2>1 DEF TypeOK
  <2>3. /\ disk' \in [Tabs -> Record \cup {NoRecord}] /\ faults' \in 0 .. MaxFaults
        /\ mishaps' \subseteq {"overlap", "unwritten"}
    BY <1>w, <2>1 DEF TypeOK
  <2> QED BY <2>1, <2>2, <2>3 DEF Moved, TypeOK, server
<1>7. CASE Refused(t)
  <2>1. /\ Moved(t) /\ UNCHANGED <<server, poll, disk, drawn, made, mishaps, faults, reloads>>
        /\ reply' = [reply EXCEPT ![t] = NoRecord]
    BY <1>7, RefusedEffect
  <2> QED BY <2>1 DEF Moved, TypeOK, server
<1>8. CASE CallFails(t)
  BY <1>0, <1>8, <1>a, CallFailsEffect DEF Moved, TypeOK
<1>9. CASE PollReads(t)
  BY <1>9, PollReadsEffect DEF TypeOK, server
<1>10. CASE PollArrives(t)
  <2>1. OnlyPage(t) /\ UNCHANGED reloads /\ poll' = [poll EXCEPT ![t] = NoRecord]
    BY <1>10, PollArrivesEffect
  <2> QED BY <2>1 DEF OnlyPage, Moved, TypeOK, server
<1>11. CASE LosePage(t)
  BY <1>0, <1>11, <1>a, LosePageEffect DEF Moved, TypeOK
<1>12. CASE Discard(t)
  <2>1. Blank \in Rows
    BY DEF Blank, Rows
  <2>2. /\ Moved(t) /\ UNCHANGED <<server, reply, drawn, mishaps, faults, reloads>>
        /\ poll' = [poll EXCEPT ![t] = NoRecord]
        /\ disk' = [disk EXCEPT ![t] = NoRecord] /\ made' = [made EXCEPT ![t] = Blank]
    BY <1>12, DiscardEffect
  <2> QED BY <2>1, <2>2 DEF Moved, TypeOK, server
<1> QED BY <1>1, <1>3, <1>4, <1>5, <1>6, <1>7, <1>8, <1>9, <1>10, <1>11, <1>12
        DEF TabStep

LEMMA ServerTypes ==
    ASSUME TypeOK, PagesAreInOrder, ServerStep
    PROVE  TypeOK'
<1>1. ASSUME NEW t \in Tabs, Serve(t)
      PROVE  TypeOK'
  <2>1. InOrder(page[t])
    BY DEF PagesAreInOrder
  <2>2. log' \in Seq(Published) /\ log' # <<>>
    BY <1>1, <2>1, ServeEffect, PublishFacts DEF TypeOK
  <2>3. /\ TabsStand /\ UNCHANGED <<study, ghosts, mishaps>>
        /\ reply' \in [Tabs -> Answer \cup {NoRecord}]
    BY <1>1, <2>1, ServeEffect DEF Answered
  <2> QED BY <2>2, <2>3 DEF TabsStand, TypeOK
<1>2. ASSUME NEW t \in Tabs, ServeOverlapping(t)
      PROVE  TypeOK'
  <2>1. log' \in Seq(Published) /\ log' # <<>>
    BY <1>2, ServeOverlappingEffect, PublishFacts
  <2>2. /\ TabsStand /\ study' = study /\ ghosts' \subseteq ghosts
        /\ mishaps' = mishaps \cup {"overlap"}
        /\ reply' \in [Tabs -> Answer \cup {NoRecord}]
    BY <1>2, ServeOverlappingEffect DEF Answered
  <2> QED BY <2>1, <2>2 DEF TabsStand, TypeOK
<1>3. ASSUME NEW g \in ghosts, ServeGhost(g[1], g[2])
      PROVE  TypeOK'
  <2>1. PICK t \in Tabs, q \in Request :
              /\ <<t, q>> \in ghosts /\ TabsStand /\ UNCHANGED <<study, reply, mishaps>>
              /\ ghosts' \subseteq ghosts
              /\ log' = log \/ (~Replays(q) /\ Accepts(q) /\ Publish(t, q))
    BY <1>3, ServeGhostEffect
  <2>2. log' \in Seq(Published) /\ log' # <<>>
    BY <2>1, PublishFacts DEF TypeOK
  <2> QED BY <2>1, <2>2 DEF TabsStand, TypeOK
<1>4. CASE Seal("closed") \/ Seal("revoked")
  BY <1>4 DEF Seal, TypeOK
<1> QED BY <1>1, <1>2, <1>3, <1>4 DEF ServerStep

LEMMA TypesKept ==
    ASSUME TypeOK, PagesAreInOrder, AnswersAreOwn, Next
    PROVE  TypeOK'
  BY TabTypes, ServerTypes DEF Next

-----------------------------------------------------------------------------
(* Requests *)

\* Where a request of a tab is found.
Has(t, q) ==
    /\ q # NoRequest
    /\ \/ q = page[t].pending
       \/ <<t, q>> \in ghosts
       \/ disk[t] # NoRecord /\ q = disk[t].pending

LEMMA KnownIs ==
    ASSUME TypeOK, NEW t \in Tabs
    PROVE  \A q : q \in Known(t) <=> q \in Request /\ Has(t, q)
<1>1. \A q : q \in {g[2] : g \in {h \in ghosts : h[1] = t}} <=> <<t, q>> \in ghosts
  BY DEF TypeOK
<1>2. /\ page[t].pending \in Request \cup {NoRequest}
      /\ disk[t] # NoRecord => disk[t].pending \in Request \cup {NoRequest}
      /\ \A q : <<t, q>> \in ghosts => q \in Request
  BY DEF TypeOK, Page, Record
<1> QED BY <1>1, <1>2, NothingAssumption DEF Known, Has

LEMMA KnownNext ==
    ASSUME TypeOK', NEW t \in Tabs
    PROVE  \A q : q \in Known(t)' <=> q \in Request /\ Has(t, q)'
<1>1. \A q : q \in {g[2] : g \in {h \in ghosts' : h[1] = t}} <=> <<t, q>> \in ghosts'
  BY DEF TypeOK
<1>2. /\ page'[t].pending \in Request \cup {NoRequest}
      /\ disk'[t] # NoRecord => disk'[t].pending \in Request \cup {NoRequest}
      /\ \A q : <<t, q>> \in ghosts' => q \in Request
  BY DEF TypeOK, Page, Record
<1> QED BY <1>1, <1>2, NothingAssumption DEF Known, Has

\* No request is new.
NothingNew == drawn' = drawn /\ \A u \in Tabs : Known(u)' \subseteq Known(u)

\* A request of a tab is published on the revision it expects, or the log stands.
PublishesItsOwn == \E u \in Tabs : \E q \in Known(u) : Accepts(q) /\ Publish(u, q)

LEMMA ServerPublishes ==
    ASSUME TypeOK, PagesAreInOrder, ServerStep
    PROVE  /\ TabsStand /\ ghosts' \subseteq ghosts /\ NothingNew
           /\ log' = log \/ PublishesItsOwn
<1>0. TypeOK'
  BY ServerTypes
<1>1. /\ TabsStand /\ ghosts' \subseteq ghosts
      /\ log' = log \/ PublishesItsOwn
  <2>1. ASSUME NEW t \in Tabs, Serve(t)
        PROVE  /\ TabsStand /\ ghosts' \subseteq ghosts
               /\ log' = log \/ PublishesItsOwn
    <3>1. InOrder(page[t])
      BY DEF PagesAreInOrder
    <3>2. PICK q \in Request : q = page[t].pending
      BY <2>1, <3>1, ServeEffect
    <3>3. q \in Known(t)
      BY <3>2, KnownIs, NothingAssumption DEF Has
    <3> QED BY <2>1, <3>1, <3>2, <3>3, ServeEffect DEF PublishesItsOwn
  <2>2. ASSUME NEW t \in Tabs, ServeOverlapping(t)
        PROVE  /\ TabsStand /\ ghosts' \subseteq ghosts
               /\ log' = log \/ PublishesItsOwn
    <3>1. PICK q \in Request : q = page[t].pending
      BY <2>2, ServeOverlappingEffect
    <3>2. q \in Known(t)
      BY <3>1, KnownIs, NothingAssumption DEF Has
    <3> QED BY <2>2, <3>1, <3>2, ServeOverlappingEffect DEF PublishesItsOwn
  <2>3. ASSUME NEW g \in ghosts, ServeGhost(g[1], g[2])
        PROVE  /\ TabsStand /\ ghosts' \subseteq ghosts
               /\ log' = log \/ PublishesItsOwn
    <3>1. PICK t \in Tabs, q \in Request :
                /\ <<t, q>> \in ghosts /\ TabsStand
                /\ ghosts' \subseteq ghosts
                /\ log' = log \/ (Accepts(q) /\ Publish(t, q))
      BY <2>3, ServeGhostEffect
    <3>2. q \in Known(t)
      BY <3>1, KnownIs, NothingAssumption DEF Has
    <3> QED BY <3>1, <3>2 DEF PublishesItsOwn
  <2>4. CASE Seal("closed") \/ Seal("revoked")
    BY <2>4 DEF Seal, TabsStand
  <2> QED BY <2>1, <2>2, <2>3, <2>4 DEF ServerStep
<1>2. \A u \in Tabs : \A q : Has(u, q)' => Has(u, q)
  BY <1>1 DEF Has, TabsStand
<1> QED BY <1>0, <1>1, <1>2, KnownIs, KnownNext DEF NothingNew, TabsStand

\* What a tab does not tell the server it does not change there.
LEMMA TabRequests ==
    ASSUME TypeOK, PagesAreInOrder, AnswersAreOwn, NEW t \in Tabs, TabStep(t)
    PROVE  /\ UNCHANGED <<study, log>>
           /\ \/ NothingNew
              \/ /\ Sends(t) /\ UNCHANGED <<ghosts, reply, poll, made>>
                 /\ page[t].pc = "open" /\ page[t].pending = NoRequest /\ ~page[t].done
                 /\ page[t].locked # "draft"
                 /\ \A u \in Tabs : \A q \in Known(u)' :
                       q \in Known(u) \/ (u = t /\ q = page'[t].pending)
<1> DEFINE Nothing == \A u \in Tabs : \A q : q \in Request /\ Has(u, q)' => Has(u, q)
           News == /\ Sends(t) /\ UNCHANGED <<ghosts, reply, poll, made>>
                   /\ page[t].pc = "open" /\ page[t].pending = NoRequest /\ ~page[t].done
                   /\ page[t].locked # "draft"
<1>0. /\ InOrder(page[t])
      /\ reply[t] # NoRecord => reply[t].revision <= Revision
  BY DEF PagesAreInOrder, AnswersAreOwn
<1>1. TypeOK'
  BY TabTypes
<1>w. ASSUME NEW p, Moved(t), Written(t, p), p = page'[t], page'[t].pending = page[t].pending
                                                     \/ page'[t].pending = NoRequest,
             UNCHANGED ghosts
      PROVE  Nothing
  BY <1>w DEF Written, Moved, Has
<1>n. ASSUME Nothing, drawn' = drawn, UNCHANGED <<study, log>>
      PROVE  /\ UNCHANGED <<study, log>>
             /\ NothingNew
  BY <1>n, <1>1, KnownIs, KnownNext DEF NothingNew
<1>2. CASE OpenPage(t)
  <2>1. OnlyPage(t) /\ page'[t].pending = NoRequest
    BY <1>2, OpenPageEffect
  <2>2. Nothing /\ drawn' = drawn /\ UNCHANGED <<study, log>>
    BY <2>1 DEF OnlyPage, Moved, server, Has
  <2> QED BY <1>n, <2>2
<1>3. CASE Boot(t)
  <2>1. /\ OnlyPage(t)
        /\ page'[t].pending = NoRequest \/ (disk[t] # NoRecord /\ page'[t].pending = disk[t].pending)
    BY <1>0, <1>3, BootEffect
  <2>2. Nothing /\ drawn' = drawn /\ UNCHANGED <<study, log>>
    BY <2>1 DEF OnlyPage, Moved, server, Has
  <2> QED BY <1>n, <2>2
<1>s. ASSUME News, UNCHANGED <<study, log>>
      PROVE  /\ UNCHANGED <<study, log>> /\ News
             /\ \A u \in Tabs : \A q \in Known(u)' :
                   q \in Known(u) \/ (u = t /\ q = page'[t].pending)
  <2>1. ASSUME NEW u \in Tabs, NEW q \in Request, Has(u, q)', ~(u = t /\ q = page'[t].pending)
        PROVE  Has(u, q)
    BY <1>s, <2>1 DEF Sends, Moved, Written, Has
  <2> QED BY <1>s, <1>1, <2>1, KnownIs, KnownNext
<1>4. ASSUME NEW i \in Items, NEW score \in Scores, Edit(t, i, score)
      PROVE  UNCHANGED <<study, log>> /\ NothingNew
  <2>1. /\ Moved(t) /\ Written(t, page'[t]) /\ page'[t].pending = page[t].pending
        /\ UNCHANGED <<server, drawn>>
    BY <1>4, EditEffect
  <2> QED BY <1>w, <1>n, <2>1 DEF server
<1>5. ASSUME NEW navigating \in BOOLEAN, NEW complete \in BOOLEAN,
             Flush(t, navigating, complete)
      PROVE  UNCHANGED <<study, log>> /\ (NothingNew \/ News)
  <2>1. /\ UNCHANGED <<server, reply, poll, made>>
        /\ page[t].pc = "open" /\ page[t].flush = "none" /\ Writable(page[t])
        /\ \/ Idles(t)
           \/ Sends(t) /\ page[t].pending = NoRequest
           \/ OnlyPage(t) /\ SameWork(page'[t], page[t])
    BY <1>5, FlushEffect
  <2>2. ~page[t].done /\ page[t].locked # "draft"
    BY <2>1 DEF Writable
  <2>3. CASE Idles(t) \/ (OnlyPage(t) /\ SameWork(page'[t], page[t]))
    <3>1. Nothing /\ drawn' = drawn /\ UNCHANGED <<study, log>>
      BY <2>1, <2>3 DEF Idles, OnlyPage, Moved, SameWork, Has, server
    <3> QED BY <1>n, <3>1
  <2>4. CASE Sends(t) /\ page[t].pending = NoRequest
    BY <2>1, <2>2, <2>4 DEF server
  <2> QED BY <2>1, <2>3, <2>4
<1>6. ASSUME Continue(t)
      PROVE  UNCHANGED <<study, log>> /\ (NothingNew \/ News)
  <2>1. /\ UNCHANGED <<server, reply, poll, made>> /\ page[t].flush = "next"
        /\ Idles(t) \/ (~page[t].done /\ Sends(t))
    BY <1>6, ContinueEffect
  <2>2. page[t].pc = "open" /\ page[t].pending = NoRequest /\ page[t].locked # "draft"
    BY <1>0, <2>1 DEF InOrder
  <2>3. CASE Idles(t)
    <3>1. Nothing /\ drawn' = drawn /\ UNCHANGED <<study, log>>
      BY <2>1, <2>3 DEF Idles, Moved, SameWork, Has, server
    <3> QED BY <1>n, <3>1
  <2>4. CASE ~page[t].done /\ Sends(t)
    BY <2>1, <2>2, <2>4 DEF server
  <2> QED BY <2>1, <2>3, <2>4
<1>7. CASE Acknowledge(t)
  <2>1. /\ Moved(t) /\ UNCHANGED <<server, drawn>> /\ page'[t].pending = NoRequest
        /\ \/ disk' = [disk EXCEPT ![t] = NoRecord]
           \/ Written(t, page'[t])
    BY <1>0, <1>7, AcknowledgeEffect
  <2>2. CASE disk' = [disk EXCEPT ![t] = NoRecord]
    <3>1. Nothing
      BY <2>1, <2>2 DEF Moved, Has, server, TypeOK
    <3> QED BY <1>n, <2>1, <3>1 DEF server
  <2>3. CASE Written(t, page'[t])
    BY <1>w, <1>n, <2>1, <2>3 DEF server
  <2> QED BY <2>1, <2>2, <2>3
<1>8. CASE Refused(t)
  <2>1. Nothing /\ drawn' = drawn /\ UNCHANGED <<study, log>>
    BY <1>8, RefusedEffect DEF Moved, Has, server
  <2> QED BY <1>n, <2>1
<1>9. CASE CallFails(t)
  <2>1. /\ Moved(t) /\ UNCHANGED <<study, log, disk, drawn>> /\ Abandoned(t)
        /\ page'[t].pending = page[t].pending
    BY <1>0, <1>9, CallFailsEffect DEF SameWork
  <2>2. Nothing
    BY <2>1 DEF Abandoned, Moved, Has
  <2> QED BY <1>n, <2>1, <2>2
<1>10. CASE PollReads(t)
  <2>1. Nothing /\ drawn' = drawn /\ UNCHANGED <<study, log>>
    BY <1>10, PollReadsEffect DEF Has, server
  <2> QED BY <1>n, <2>1
<1>11. CASE PollArrives(t)
  <2>1. Nothing /\ drawn' = drawn /\ UNCHANGED <<study, log>>
    BY <1>11, PollArrivesEffect DEF OnlyPage, Moved, Has, server
  <2> QED BY <1>n, <2>1
<1>12. CASE LosePage(t)
  <2>1. /\ Moved(t) /\ UNCHANGED <<study, log, disk, drawn>> /\ Abandoned(t)
        /\ page'[t].pending = NoRequest
    BY <1>0, <1>12, LosePageEffect, ClosedFields
  <2>2. Nothing
    BY <2>1 DEF Abandoned, Moved, Has
  <2> QED BY <1>n, <2>1, <2>2
<1>13. CASE Discard(t)
  <2>1. /\ Moved(t) /\ UNCHANGED <<server, drawn>> /\ page'[t].pending = NoRequest
        /\ disk' = [disk EXCEPT ![t] = NoRecord]
    BY <1>13, DiscardEffect, ClosedFields
  <2>2. Nothing
    BY <2>1 DEF Moved, Has, server, TypeOK
  <2> QED BY <1>n, <2>1, <2>2 DEF server
<1>14. UNCHANGED <<study, log>> /\ (NothingNew \/ News)
  <2>1. CASE OpenPage(t) \/ Boot(t) \/ Acknowledge(t) \/ Refused(t)
    BY <2>1, <1>2, <1>3, <1>7, <1>8
  <2>2. CASE CallFails(t) \/ PollReads(t) \/ PollArrives(t) \/ LosePage(t) \/ Discard(t)
    BY <2>2, <1>9, <1>10, <1>11, <1>12, <1>13
  <2> QED BY <2>1, <2>2, <1>4, <1>5, <1>6 DEF TabStep
<1> QED BY <1>14, <1>s

-----------------------------------------------------------------------------
(* Checkpoints *)

\* Checkpoints are appended, by whoever asks for it.
LEMMA LogGrows ==
    ASSUME TypeOK, log' = log \/ PublishesItsOwn
    PROVE  /\ Revision \in Nat /\ Revision' \in Nat /\ Revision <= Revision'
           /\ \A k \in 0 .. Revision : At(k)' = At(k)
           /\ \A n \in 1 .. Len(log) : n \in 1 .. Len(log') /\ log'[n] = log[n]
<1>1. CASE log' = log
  BY <1>1, LogFacts DEF At, Revision
<1>2. CASE PublishesItsOwn
  <2>1. PICK u \in Tabs, q \in Request : Publish(u, q)
    BY <1>2, KnownIs DEF PublishesItsOwn
  <2> QED BY <2>1, LogFacts, PublishFacts
<1> QED BY <1>1, <1>2

LEMMA NextPublishes ==
    ASSUME TypeOK, PagesAreInOrder, AnswersAreOwn, Next
    PROVE  log' = log \/ PublishesItsOwn
  BY ServerPublishes, TabRequests DEF Next

LEMMA CheckpointsKept ==
    ASSUME TypeOK, PagesAreInOrder, AnswersAreOwn, PagesHaveTheirCheckpoints, Next
    PROVE  PagesHaveTheirCheckpoints'
<1>1. /\ Revision \in Nat /\ Revision' \in Nat /\ Revision <= Revision'
      /\ \A k \in 0 .. Revision : At(k)' = At(k)
  BY NextPublishes, LogGrows
<1>2. ASSUME NEW t \in Tabs, page'[t] = page[t]
      PROVE  HasItsCheckpoint(page[t])'
  <2>1. PICK k \in Nat : k = page[t].base
    BY PageFields DEF TypeOK
  <2>2. page[t].pc # "closed" => k \in 0 .. Revision
    BY <1>1, <2>1 DEF PagesHaveTheirCheckpoints, HasItsCheckpoint
  <2>3. page[t].pc # "closed" => At(k)' = At(k) /\ k <= Revision'
    BY <1>1, <2>2
  <2> QED BY <1>2, <2>1, <2>3 DEF PagesHaveTheirCheckpoints, HasItsCheckpoint, At
<1>3. CASE ServerStep
  BY <1>2, <1>3, ServerPublishes DEF TabsStand, PagesHaveTheirCheckpoints
<1>4. ASSUME NEW t \in Tabs, TabStep(t)
      PROVE  HasItsCheckpoint(page[t])' /\ \A u \in Tabs : u # t => page'[u] = page[u]
  <2>0. /\ InOrder(page[t]) /\ HasItsCheckpoint(page[t])
        /\ reply[t] # NoRecord => reply[t].revision <= Revision
        /\ page[t] \in Page /\ log' = log
    <3>1. log' = log
      BY <1>4, TabRequests
    <3> QED BY <3>1 DEF PagesAreInOrder, PagesHaveTheirCheckpoints, AnswersAreOwn, TypeOK
  <2>n. \A k \in Nat : At(k)' = At(k) /\ Revision' = Revision
    BY <2>0 DEF At, Revision
  <2>a. ASSUME Moved(t), NEW k \in Nat, k <= Revision, page'[t].base = k,
               page'[t].done => At(k).complete,
               \A i \in Items \ page'[t].changes : page'[t].rows[i] = At(k).rows[i]
        PROVE  HasItsCheckpoint(page[t])' /\ \A u \in Tabs : u # t => page'[u] = page[u]
    BY <2>a, <2>0 DEF HasItsCheckpoint, Moved, At, Revision
  <2>b. ASSUME Moved(t), page[t].pc # "closed", page'[t].base = page[t].base,
               page'[t].done = page[t].done,
               page[t].changes \subseteq page'[t].changes,
               \A i \in Items \ page'[t].changes : page'[t].rows[i] = page[t].rows[i]
        PROVE  HasItsCheckpoint(page[t])' /\ \A u \in Tabs : u # t => page'[u] = page[u]
    <3>1. PICK k \in Nat : k = page[t].base
      BY <2>0, PageFields
    <3>2. /\ k <= Revision
          /\ page[t].done => At(k).complete
          /\ \A i \in Items \ page[t].changes : page[t].rows[i] = At(k).rows[i]
      BY <2>0, <2>b, <3>1 DEF HasItsCheckpoint
    <3>3. \A i \in Items \ page'[t].changes : page'[t].rows[i] = At(k).rows[i]
      BY <2>b, <3>2
    <3> QED BY <2>a, <2>b, <3>1, <3>2, <3>3
  <2>c. ASSUME Moved(t), page'[t].pc = "closed"
        PROVE  HasItsCheckpoint(page[t])' /\ \A u \in Tabs : u # t => page'[u] = page[u]
    BY <2>c DEF HasItsCheckpoint, Moved
  <2>1. CASE OpenPage(t)
    <3>1. /\ Moved(t) /\ page'[t].base = Revision /\ ~page'[t].done
          /\ page'[t].rows = Newest.rows
      BY <2>1, OpenPageEffect DEF OnlyPage
    <3> QED BY <2>a, <3>1, <1>1, LogFacts
  <2>2. CASE Boot(t)
    <3>1. /\ Moved(t) /\ page[t].pc = "opening" /\ page[t].changes = {}
          /\ page'[t].base = page[t].base /\ ~page'[t].done /\ ~page[t].done
          /\ \A i \in Items \ page'[t].changes : page'[t].rows[i] = page[t].rows[i]
      BY <2>0, <2>2, BootEffect DEF OnlyPage, InOrder
    <3>2. PICK k \in Nat : k = page[t].base
      BY <2>0, PageFields
    <3>3. k <= Revision /\ \A i \in Items : page[t].rows[i] = At(k).rows[i]
      BY <2>0, <3>1, <3>2 DEF HasItsCheckpoint
    <3> QED BY <2>a, <3>1, <3>2, <3>3
  <2>3. ASSUME NEW i \in Items, NEW score \in Scores, Edit(t, i, score)
        PROVE  HasItsCheckpoint(page[t])' /\ \A u \in Tabs : u # t => page'[u] = page[u]
    <3>1. page[t].pc # "closed"
      BY <2>0, <2>3, EditEffect DEF InOrder
    <3> QED BY <2>b, <2>3, <3>1, EditEffect
  <2>d. ASSUME Moved(t), SameWork(page'[t], page[t]), page[t].pc # "closed"
        PROVE  HasItsCheckpoint(page[t])' /\ \A u \in Tabs : u # t => page'[u] = page[u]
    BY <2>b, <2>d DEF SameWork
  <2>4. ASSUME NEW navigating \in BOOLEAN, NEW complete \in BOOLEAN,
               Flush(t, navigating, complete)
        PROVE  HasItsCheckpoint(page[t])' /\ \A u \in Tabs : u # t => page'[u] = page[u]
    <3>1. page[t].pc = "open" /\ (Idles(t) \/ Sends(t) \/ (OnlyPage(t) /\ SameWork(page'[t], page[t])))
      BY <2>4, FlushEffect
    <3> QED BY <2>b, <2>d, <3>1 DEF Idles, Sends, OnlyPage
  <2>5. CASE Continue(t)
    <3>1. page[t].pc = "open" /\ (Idles(t) \/ Sends(t))
      BY <2>0, <2>5, ContinueEffect DEF InOrder
    <3> QED BY <2>b, <2>d, <3>1 DEF Idles, Sends
  <2>6. CASE Acknowledge(t)
    <3>1. PICK k \in 0 .. Revision : k = reply[t].revision
      BY <2>0, <2>6, AcknowledgeEffect
    <3>2. /\ Moved(t) /\ page'[t].base = k /\ page'[t].done = At(k).complete
          /\ \A i \in Items \ page'[t].changes : page'[t].rows[i] = At(k).rows[i]
      BY <2>0, <2>6, <3>1, AcknowledgeEffect
    <3> QED BY <1>1, <2>a, <3>1, <3>2
  <2>7. CASE Refused(t)
    <3>1. page[t].pc # "closed"
      BY <2>0, <2>7, RefusedEffect, ClosedFields DEF InOrder
    <3> QED BY <2>b, <2>7, <3>1, RefusedEffect
  <2>8. CASE CallFails(t)
    <3>1. page[t].pc # "closed"
      BY <2>0, <2>8, CallFailsEffect, ClosedFields DEF InOrder
    <3> QED BY <2>0, <2>d, <2>8, <3>1, CallFailsEffect
  <2>9. CASE PollReads(t)
    <3>1. UNCHANGED <<page, log>>
      BY <2>9, PollReadsEffect DEF server
    <3> QED BY <2>0, <3>1 DEF HasItsCheckpoint, At, Revision
  <2>10. CASE PollArrives(t)
    <3>1. /\ Moved(t) /\ page'[t].base = page[t].base /\ page'[t].done = page[t].done
          /\ page'[t].changes = page[t].changes /\ page'[t].rows = page[t].rows
          /\ poll[t] # NoRecord
      BY <2>10, PollArrivesEffect DEF OnlyPage
    <3>2. page[t].pc # "closed"
      BY <2>0, <3>1 DEF PagesAreInOrder, InOrder
    <3> QED BY <2>b, <3>1, <3>2
  <2>11. CASE LosePage(t) \/ Discard(t)
    BY <2>0, <2>11, <2>c, LosePageEffect, DiscardEffect, ClosedFields
  <2> QED BY <1>4, <2>1, <2>2, <2>3, <2>4, <2>5, <2>6, <2>7, <2>8, <2>9, <2>10, <2>11 DEF TabStep
<1>5. CASE \E t \in Tabs : TabStep(t)
  BY <1>2, <1>4, <1>5 DEF PagesHaveTheirCheckpoints
<1> QED BY <1>3, <1>5 DEF Next

-----------------------------------------------------------------------------
(* Requests and what became of them *)

LEMMA UniqueKept ==
    ASSUME TypeOK, PagesAreInOrder, AnswersAreOwn, RequestsAreUnique, Next
    PROVE  RequestsAreUnique'
<1> DEFINE Single(u, q) ==
       \A v \in Tabs : \A o \in Known(v) : o.id = q.id => v = u /\ o = q
<1>0. /\ drawn \in Nat /\ Len(log) \in Nat \ {0}
      /\ \A n \in 1 .. Len(log) : log[n] \in Published /\ log[n].id \in Nat
      /\ \A u \in Tabs : \A q \in Known(u) : q \in Request /\ q.id \in Nat /\ q.expected \in Nat
  BY KnownIs, LogFacts, PlayerAssumption DEF TypeOK, Published, Request
<1>1. CASE log' = log /\ NothingNew
  BY <1>1 DEF RequestsAreUnique, NothingNew
<1>2. CASE PublishesItsOwn /\ NothingNew
  <2>1. PICK u \in Tabs, q \in Request : q \in Known(u) /\ Accepts(q) /\ Publish(u, q)
    BY <1>0, <1>2 DEF PublishesItsOwn
  <2>2. /\ Len(log') = Len(log) + 1 /\ \A n \in 1 .. Len(log) : log'[n] = log[n]
        /\ log'[Len(log) + 1].id = q.id /\ log'[Len(log) + 1].by = u
        /\ log'[Len(log) + 1].rows = q.rows
    BY <1>0, <2>1, PublishFacts
  <2>3. Len(log) + 1 = q.expected + 2
    BY <1>0, <2>1, LogFacts DEF Accepts
  <2>4. drawn' = drawn /\ \A v \in Tabs : Known(v)' \subseteq Known(v)
    BY <1>2 DEF NothingNew
  <2>5. \A n \in 1 .. Len(log') : log'[n].id <= drawn'
    BY <1>0, <2>1, <2>2, <2>4 DEF RequestsAreUnique
  <2>6. ASSUME NEW v \in Tabs, NEW r \in Known(v)', NEW n \in 1 .. Len(log'),
               log'[n].id = r.id
        PROVE  log'[n].by = v /\ log'[n].rows = r.rows /\ n = r.expected + 2
    <3>1. r \in Known(v)
      BY <2>4
    <3>2. CASE n \in 1 .. Len(log)
      BY <2>2, <2>6, <3>1, <3>2 DEF RequestsAreUnique
    <3>3. CASE n = Len(log) + 1
      <4>1. r.id = q.id
        BY <2>2, <2>6, <3>3
      <4>2. v = u /\ r = q
        BY <2>1, <3>1, <4>1 DEF RequestsAreUnique
      <4> QED BY <2>2, <2>3, <3>3, <4>2
    <3> QED BY <1>0, <2>2, <3>2, <3>3
  <2> QED BY <2>4, <2>5, <2>6 DEF RequestsAreUnique
<1>3. ASSUME NEW t \in Tabs, log' = log, Sends(t),
             \A u \in Tabs : \A q \in Known(u)' :
                q \in Known(u) \/ (u = t /\ q = page'[t].pending)
      PROVE  RequestsAreUnique'
  <2>1. PICK new \in Request : /\ new = page'[t].pending /\ new.id = drawn + 1
                               /\ drawn' = drawn + 1
    BY <1>3 DEF Sends
  <2>2. \A u \in Tabs : \A q \in Known(u) : q.id # new.id /\ q.id <= drawn'
    BY <1>0, <2>1 DEF RequestsAreUnique
  <2>3. \A n \in 1 .. Len(log) : log[n].id # new.id /\ log[n].id <= drawn'
    BY <1>0, <2>1 DEF RequestsAreUnique
  <2>4. ASSUME NEW u \in Tabs, NEW q \in Known(u)'
        PROVE  /\ q.id <= drawn'
               /\ \A v \in Tabs : \A o \in Known(v)' : o.id = q.id => v = u /\ o = q
               /\ \A n \in 1 .. Len(log) : log[n].id = q.id =>
                     log[n].by = u /\ log[n].rows = q.rows /\ n = q.expected + 2
    <3>1. CASE q \in Known(u)
      <4>1. \A v \in Tabs : \A o \in Known(v)' : o.id = q.id => o \in Known(v)
        BY <1>3, <2>1, <2>2, <3>1
      <4> QED BY <2>2, <3>1, <4>1 DEF RequestsAreUnique
    <3>2. CASE u = t /\ q = new
      <4>1. \A v \in Tabs : \A o \in Known(v)' : o.id = q.id => v = t /\ o = new
        BY <1>3, <2>1, <2>2, <3>2
      <4>2. q.id <= drawn'
        BY <1>0, <2>1, <3>2
      <4> QED BY <2>3, <3>2, <4>1, <4>2
    <3> QED BY <1>3, <2>1, <3>1, <3>2
  <2> QED BY <1>3, <2>3, <2>4 DEF RequestsAreUnique
<1> QED BY <1>1, <1>2, <1>3, ServerPublishes, TabRequests DEF Next

LEMMA HonestKept ==
    ASSUME TypeOK, PagesAreInOrder, AnswersAreOwn, PagesHaveTheirCheckpoints,
           RequestsAreHonest, Next
    PROVE  RequestsAreHonest'
<1>0. /\ Revision \in Nat /\ Revision' \in Nat /\ Revision <= Revision'
      /\ \A k \in 0 .. Revision : At(k)' = At(k)
  BY NextPublishes, LogGrows
<1>1. ASSUME NEW u \in Tabs, NEW q \in Known(u)
      PROVE  /\ q.expected <= Revision'
             /\ \A i \in Items \ q.edits : q.rows[i] = At(q.expected)'.rows[i]
  <2>1. q.expected \in Nat
    BY KnownIs DEF Request
  <2>2. /\ q.expected <= Revision
        /\ \A i \in Items \ q.edits : q.rows[i] = At(q.expected).rows[i]
    BY DEF RequestsAreHonest
  <2> QED BY <1>0, <2>1, <2>2
<1>2. CASE NothingNew
  BY <1>1, <1>2 DEF RequestsAreHonest, NothingNew, At
<1>3. ASSUME NEW t \in Tabs, log' = log, Sends(t), page[t].pc = "open",
             \A u \in Tabs : \A q \in Known(u)' :
                q \in Known(u) \/ (u = t /\ q = page'[t].pending)
      PROVE  RequestsAreHonest'
  <2>1. PICK new \in Request : /\ new = page'[t].pending /\ new.expected = page[t].base
                               /\ new.rows = page[t].rows /\ new.edits = page[t].changes
    BY <1>3 DEF Sends
  <2>2. new.expected \in Nat
    BY DEF Request
  <2>3. /\ new.expected <= Revision
        /\ \A i \in Items \ new.edits : new.rows[i] = At(new.expected).rows[i]
    BY <1>3, <2>1 DEF PagesHaveTheirCheckpoints, HasItsCheckpoint
  <2>4. /\ new.expected <= Revision'
        /\ \A i \in Items \ new.edits : new.rows[i] = At(new.expected)'.rows[i]
    BY <1>0, <2>2, <2>3
  <2> QED BY <1>1, <1>3, <2>1, <2>4 DEF RequestsAreHonest, At
<1> QED BY <1>2, <1>3, ServerPublishes, TabRequests DEF Next

LEMMA CompletionKept ==
    ASSUME TypeOK, PagesAreInOrder, AnswersAreOwn, CompletionIsLast, Next
    PROVE  CompletionIsLast'
<1>1. CASE log' = log
  BY <1>1 DEF CompletionIsLast
<1>2. CASE PublishesItsOwn
  <2>1. PICK u \in Tabs, q \in Request : Accepts(q) /\ Publish(u, q)
    BY <1>2, KnownIs DEF PublishesItsOwn
  <2>2. \A n \in 1 .. Len(log) : ~log[n].complete
    BY <2>1 DEF CompletionIsLast, Accepts, Newest
  <2>3. Len(log') = Len(log) + 1 /\ \A n \in 1 .. Len(log) : log'[n] = log[n]
    BY <2>1, PublishFacts
  <2> QED BY <2>2, <2>3, LogFacts DEF CompletionIsLast
<1> QED BY <1>1, <1>2, NextPublishes

\* The history is added to, so what the tabs are told stays true.
LEMMA AnswersKept ==
    ASSUME TypeOK, PagesAreInOrder, AnswersAreOwn, Next
    PROVE  AnswersAreOwn'
<1> DEFINE Own(t) == reply[t] # NoRecord =>
                        /\ reply[t].revision <= Revision
                        /\ reply[t].ok => At(reply[t].revision).id = page[t].pending.id
<1>0. /\ Revision \in Nat /\ Revision' \in Nat /\ Revision <= Revision'
      /\ \A k \in 0 .. Revision : At(k)' = At(k)
  BY NextPublishes, LogGrows
<1>1. ASSUME NEW t \in Tabs, reply'[t] = reply[t],
             reply[t] # NoRecord => page'[t].pending = page[t].pending
      PROVE  Own(t)'
  <2>1. CASE reply[t] = NoRecord
    BY <1>1, <2>1
  <2>2. CASE reply[t] # NoRecord
    <3>1. PICK k \in Nat : k = reply[t].revision
      BY <2>2 DEF TypeOK, Answer
    <3>2. k \in 0 .. Revision /\ (reply[t].ok => At(k).id = page[t].pending.id)
      BY <1>0, <2>2, <3>1 DEF AnswersAreOwn
    <3>3. k <= Revision' /\ At(k)' = At(k)
      BY <1>0, <3>2
    <3> QED BY <1>1, <2>2, <3>1, <3>2, <3>3 DEF At
  <2> QED BY <2>1, <2>2
<1>2. CASE ServerStep
  <2>1. ASSUME NEW t \in Tabs, page' = page, NEW ok \in BOOLEAN, NEW k \in Nat,
               Answered(t, ok, k), k <= Revision',
               ok => At(k)'.id = page[t].pending.id
        PROVE  AnswersAreOwn'
    <3>1. Own(t)'
      BY <2>1 DEF Answered, At
    <3>2. \A u \in Tabs : u # t => Own(u)'
      BY <1>1, <2>1 DEF Answered
    <3> QED BY <3>1, <3>2 DEF AnswersAreOwn
  <2>2. ASSUME NEW t \in Tabs, Serve(t)
        PROVE  AnswersAreOwn'
    <3>0. InOrder(page[t])
      BY DEF PagesAreInOrder
    <3>k. PICK k \in Nat : k = Revision
      BY <1>0
    <3>1. page' = page
      BY <2>2, <3>0, ServeEffect DEF TabsStand
    <3>2. CASE Newest.id = page[t].pending.id /\ log' = log /\ Answered(t, TRUE, Revision)
      <4>1. At(k)' = Newest /\ k <= Revision'
        BY <1>0, <3>k, LogFacts
      <4> QED BY <2>1, <3>k, <3>1, <3>2, <4>1
    <3>3. CASE Publish(t, page[t].pending) /\ Answered(t, TRUE, Revision + 1)
      <4>1. PICK q \in Request : q = page[t].pending
        BY <2>2, <3>0, ServeEffect
      <4>2. Newest'.id = q.id /\ Revision' = Revision + 1 /\ Len(log') = Len(log) + 1
        BY <3>3, <4>1, PublishFacts
      <4>3. At(k + 1)' = Newest' /\ k + 1 <= Revision'
        BY <3>k, <4>2, LogFacts DEF At, Newest
      <4>4. PICK m \in Nat : m = k + 1
        OBVIOUS
      <4>5. Answered(t, TRUE, m) /\ m <= Revision'
        BY <3>k, <3>3, <4>3, <4>4
      <4>6. At(m)'.id = page[t].pending.id
        BY <4>1, <4>2, <4>3, <4>4
      <4> QED BY <2>1, <3>1, <4>5, <4>6
    <3>4. CASE log' = log /\ Answered(t, FALSE, Revision)
      BY <1>0, <2>1, <3>1, <3>4
    <3> QED BY <2>2, <3>0, <3>2, <3>3, <3>4, ServeEffect
  <2>3. ASSUME NEW t \in Tabs, ServeOverlapping(t)
        PROVE  AnswersAreOwn'
    <3>1. page' = page /\ Answered(t, FALSE, Revision)
      BY <2>3, ServeOverlappingEffect DEF TabsStand
    <3> QED BY <1>0, <2>1, <3>1
  <2>4. CASE UNCHANGED <<page, reply>>
    BY <1>1, <2>4 DEF AnswersAreOwn
  <2>5. ASSUME NEW g \in ghosts, ServeGhost(g[1], g[2])
        PROVE  UNCHANGED <<page, reply>>
    BY <2>5, ServeGhostEffect DEF TabsStand
  <2>6. ASSUME Seal("closed") \/ Seal("revoked")
        PROVE  UNCHANGED <<page, reply>>
    BY <2>6 DEF Seal
  <2> QED BY <1>2, <2>2, <2>3, <2>4, <2>5, <2>6 DEF ServerStep
<1>3. ASSUME NEW t \in Tabs, TabStep(t)
      PROVE  AnswersAreOwn'
  <2>0. /\ InOrder(page[t])
        /\ reply[t] # NoRecord => page[t].call
        /\ reply[t] # NoRecord => reply[t].revision <= Revision
    BY DEF PagesAreInOrder, AnswersAreOwn
  <2>a. ASSUME Moved(t), reply' = [reply EXCEPT ![t] = NoRecord]
        PROVE  AnswersAreOwn'
    <3>1. reply'[t] = NoRecord /\ \A u \in Tabs : u # t => reply'[u] = reply[u]
      BY <2>a DEF TypeOK
    <3>2. \A u \in Tabs : u # t => Own(u)'
      BY <1>1, <2>a, <3>1 DEF Moved
    <3> QED BY <3>1, <3>2 DEF AnswersAreOwn
  <2>b. ASSUME Moved(t), reply' = reply,
               reply[t] = NoRecord \/ page'[t].pending = page[t].pending
        PROVE  AnswersAreOwn'
    <3>1. \A u \in Tabs : Own(u)'
      BY <1>1, <2>b DEF Moved
    <3> QED BY <3>1 DEF AnswersAreOwn
  <2>1. CASE OpenPage(t)
    <3>1. reply[t] = NoRecord
      BY <2>0, <2>1, OpenPageEffect, ClosedFields DEF InOrder
    <3> QED BY <2>b, <2>1, <3>1, OpenPageEffect DEF OnlyPage
  <2>2. CASE Boot(t)
    <3>1. reply[t] = NoRecord
      BY <2>0, <2>2, BootEffect DEF InOrder
    <3>2. Moved(t) /\ reply' = reply
      BY <2>0, <2>2, BootEffect DEF OnlyPage
    <3> QED BY <2>b, <3>1, <3>2
  <2>3. ASSUME NEW i \in Items, NEW score \in Scores, Edit(t, i, score)
        PROVE  AnswersAreOwn'
    BY <2>b, <2>3, EditEffect
  <2>4. ASSUME NEW navigating \in BOOLEAN, NEW complete \in BOOLEAN,
               Flush(t, navigating, complete)
        PROVE  AnswersAreOwn'
    <3>1. /\ reply' = reply /\ page[t].flush = "none"
          /\ Idles(t) \/ Sends(t) \/ OnlyPage(t)
      BY <2>4, FlushEffect
    <3>2. reply[t] = NoRecord /\ Moved(t)
      BY <2>0, <3>1 DEF InOrder, Idles, Sends, OnlyPage
    <3> QED BY <2>b, <3>1, <3>2
  <2>5. CASE Continue(t)
    <3>1. reply' = reply /\ page[t].flush = "next" /\ (Idles(t) \/ Sends(t))
      BY <2>5, ContinueEffect
    <3>2. reply[t] = NoRecord /\ Moved(t)
      BY <2>0, <3>1 DEF InOrder, Idles, Sends
    <3> QED BY <2>b, <3>1, <3>2
  <2>6. CASE Acknowledge(t)
    <3>1. Moved(t) /\ reply' = [reply EXCEPT ![t] = NoRecord]
      BY <2>0, <2>6, AcknowledgeEffect
    <3> QED BY <2>a, <3>1
  <2>7. CASE Refused(t)
    BY <2>a, <2>7, RefusedEffect
  <2>8. CASE CallFails(t) \/ LosePage(t)
    <3>1. Moved(t) /\ Abandoned(t)
      BY <2>0, <2>8, CallFailsEffect, LosePageEffect
    <3> QED BY <2>a, <3>1 DEF Abandoned
  <2>9. CASE PollReads(t)
    <3>1. UNCHANGED <<page, reply>>
      BY <2>9, PollReadsEffect
    <3> QED BY <1>1, <3>1 DEF AnswersAreOwn
  <2>10. CASE PollArrives(t)
    BY <2>b, <2>10, PollArrivesEffect DEF OnlyPage
  <2>11. CASE Discard(t)
    <3>1. reply[t] = NoRecord
      BY <2>0, <2>11, DiscardEffect DEF InOrder
    <3> QED BY <2>b, <2>11, <3>1, DiscardEffect
  <2> QED BY <1>3, <2>1, <2>2, <2>3, <2>4, <2>5, <2>6, <2>7, <2>8, <2>9, <2>10, <2>11 DEF TabStep
<1> QED BY <1>2, <1>3 DEF Next

-----------------------------------------------------------------------------
(* The parts of a page *)

LEMMA ClosedInOrder == InOrder(ClosedPage)
  BY ClosedFields DEF InOrder

LEMMA OrderKeptByTabs ==
    ASSUME TypeOK, PagesAreInOrder, AnswersAreOwn, NEW t \in Tabs, TabStep(t)
    PROVE  PagesAreInOrder'
<1>0. /\ page[t] \in Page /\ InOrder(page[t])
      /\ reply[t] # NoRecord => page[t].call
      /\ poll[t] # NoRecord => page[t].ready
      /\ reply[t] # NoRecord => reply[t].revision <= Revision
  BY DEF PagesAreInOrder, AnswersAreOwn, TypeOK
<1>1. \A u \in Tabs : /\ InOrder(page[u])
                      /\ poll[u] # NoRecord => page[u].ready
                      /\ reply[u] # NoRecord => page[u].call
  BY DEF PagesAreInOrder
<1>g. ASSUME Moved(t), InOrder(page'[t]),
             poll'[t] # NoRecord => page'[t].ready, reply'[t] # NoRecord => page'[t].call,
             \A u \in Tabs : u # t => poll'[u] = poll[u] /\ reply'[u] = reply[u]
      PROVE  PagesAreInOrder'
  BY <1>1, <1>g DEF PagesAreInOrder, Moved
<1>2. CASE OpenPage(t)
  <2>1. /\ Moved(t) /\ UNCHANGED <<poll, reply>> /\ page[t].pc = "closed"
        /\ page'[t].pc = "opening" /\ page'[t].changes = {} /\ page'[t].locked = "no"
        /\ page'[t].pending = NoRequest /\ page'[t].flush = "none"
        /\ ~page'[t].ready /\ ~page'[t].done /\ ~page'[t].call
    BY <1>2, OpenPageEffect DEF OnlyPage
  <2>2. poll[t] = NoRecord /\ reply[t] = NoRecord
    BY <1>0, <2>1, ClosedFields DEF InOrder
  <2>3. InOrder(page'[t])
    BY <2>1 DEF InOrder
  <2> QED BY <1>g, <2>1, <2>2, <2>3
<1>3. CASE Boot(t)
  <2>1. /\ Moved(t) /\ UNCHANGED <<poll, reply>> /\ page[t].pc = "opening"
        /\ page'[t].pc = "open"
        /\ \/ /\ page'[t].locked = "no" \/ (page'[t].locked = "draft" /\ ~page'[t].ready)
              /\ page'[t].flush = "none" /\ ~page'[t].call
           \/ /\ page'[t].locked = "no" /\ page'[t].pending # NoRequest
              /\ page'[t].flush = "boot" /\ page'[t].call
    BY <1>0, <1>3, BootEffect DEF OnlyPage
  <2>2. poll[t] = NoRecord /\ reply[t] = NoRecord
    BY <1>0, <2>1 DEF InOrder
  <2>3. InOrder(page'[t])
    BY <2>1 DEF InOrder
  <2> QED BY <1>g, <2>1, <2>2, <2>3
<1>4. ASSUME NEW i \in Items, NEW score \in Scores, Edit(t, i, score)
      PROVE  PagesAreInOrder'
  <2>1. /\ Moved(t) /\ UNCHANGED <<poll, reply>> /\ page[t].ready /\ page[t].locked = "no"
        /\ page'[t].pc = page[t].pc /\ page'[t].ready
        /\ page'[t].locked = page[t].locked /\ page'[t].done = page[t].done
        /\ page'[t].pending = page[t].pending
        /\ page'[t].flush = page[t].flush /\ page'[t].call = page[t].call
    BY <1>4, EditEffect DEF Writable
  <2>2. InOrder(page'[t])
    BY <1>0, <2>1 DEF InOrder
  <2> QED BY <1>0, <1>g, <2>1, <2>2
<1>i. ASSUME Idles(t), UNCHANGED <<reply, poll>>, page[t].pc = "open",
             page[t].locked # "draft", page[t].flush \in {"none", "next"}
      PROVE  PagesAreInOrder'
  <2>1. /\ Moved(t) /\ SameWork(page'[t], page[t])
        /\ page'[t].ready /\ page'[t].flush = "none" /\ ~page'[t].call
    BY <1>i DEF Idles
  <2>2. InOrder(page'[t]) /\ reply[t] = NoRecord
    BY <1>0, <1>i, <2>1 DEF InOrder, SameWork
  <2> QED BY <1>g, <1>i, <2>1, <2>2
<1>s. ASSUME Sends(t), UNCHANGED <<reply, poll>>, page[t].pc = "open",
             page[t].locked \notin {"draft", "changed"}, page[t].flush \in {"none", "next"}
      PROVE  PagesAreInOrder'
  <2>1. /\ Moved(t)
        /\ page'[t].pc = page[t].pc /\ page'[t].ready = page[t].ready
        /\ page'[t].locked = page[t].locked
        /\ page'[t].flush = "new" /\ page'[t].call /\ page'[t].pending \in Request
    BY <1>s DEF Sends
  <2>2. InOrder(page'[t])
    BY <1>s, <2>1, NothingAssumption DEF InOrder
  <2> QED BY <1>0, <1>g, <1>s, <2>1, <2>2
<1>5. ASSUME NEW navigating \in BOOLEAN, NEW complete \in BOOLEAN,
             Flush(t, navigating, complete)
      PROVE  PagesAreInOrder'
  <2>1. /\ UNCHANGED <<reply, poll>>
        /\ page[t].pc = "open" /\ page[t].flush = "none" /\ page[t].locked = "no"
        /\ \/ Idles(t) \/ Sends(t)
           \/ /\ page[t].pending # NoRequest /\ OnlyPage(t)
              /\ SameWork(page'[t], page[t]) /\ page'[t].ready = page[t].ready
              /\ page'[t].flush = "old" /\ page'[t].call
    BY <1>5, FlushEffect DEF Writable
  <2>2. CASE /\ page[t].pending # NoRequest /\ OnlyPage(t)
             /\ SameWork(page'[t], page[t]) /\ page'[t].ready = page[t].ready
             /\ page'[t].flush = "old" /\ page'[t].call
    <3>1. InOrder(page'[t]) /\ Moved(t)
      BY <2>1, <2>2 DEF InOrder, SameWork, OnlyPage
    <3> QED BY <1>0, <1>g, <2>1, <2>2, <3>1
  <2> QED BY <1>i, <1>s, <2>1, <2>2
<1>6. CASE Continue(t)
  <2>1. /\ UNCHANGED <<reply, poll>> /\ page[t].flush = "next"
        /\ Idles(t) \/ Sends(t)
    BY <1>6, ContinueEffect
  <2>2. page[t].pc = "open" /\ page[t].locked \notin {"draft", "changed"}
    BY <1>0, <2>1 DEF InOrder
  <2> QED BY <1>i, <1>s, <2>1, <2>2
<1>7. CASE Acknowledge(t)
  <2>1. /\ Moved(t) /\ UNCHANGED poll /\ page[t].call
        /\ page'[t].pc = page[t].pc /\ page'[t].locked = page[t].locked
        /\ page'[t].pending = NoRequest /\ ~page'[t].call
        /\ \/ page'[t].flush = "next" /\ page'[t].ready = page[t].ready
           \/ page'[t].flush = "none" /\ page'[t].ready
        /\ reply' = [reply EXCEPT ![t] = NoRecord]
    BY <1>0, <1>7, AcknowledgeEffect
  <2>2. page[t].pc = "open" /\ page[t].locked \notin {"draft", "changed"}
    BY <1>0, <2>1 DEF InOrder
  <2>3. InOrder(page'[t])
    BY <2>1, <2>2 DEF InOrder
  <2>4. reply'[t] = NoRecord /\ \A u \in Tabs : u # t => reply'[u] = reply[u]
    BY <2>1 DEF TypeOK
  <2>5. poll'[t] # NoRecord => page'[t].ready
    BY <1>0, <2>1
  <2> QED BY <1>g, <2>1, <2>3, <2>4, <2>5
<1>8. CASE Refused(t)
  <2>1. /\ Moved(t) /\ UNCHANGED poll /\ page[t].call
        /\ page'[t].pc = page[t].pc /\ page'[t].done = page[t].done
        /\ page'[t].pending = page[t].pending
        /\ page'[t].ready = page[t].ready /\ page'[t].locked = "refused"
        /\ page'[t].flush = "none" /\ ~page'[t].call
        /\ reply' = [reply EXCEPT ![t] = NoRecord]
    BY <1>8, RefusedEffect
  <2>2. page[t].pc = "open"
    BY <1>0, <2>1 DEF InOrder
  <2>3. InOrder(page'[t])
    BY <2>1, <2>2 DEF InOrder
  <2>4. reply'[t] = NoRecord /\ \A u \in Tabs : u # t => reply'[u] = reply[u]
    BY <2>1 DEF TypeOK
  <2> QED BY <1>0, <1>g, <2>1, <2>3, <2>4
<1>9. CASE CallFails(t)
  <2>1. /\ Moved(t) /\ UNCHANGED poll /\ Abandoned(t) /\ page[t].call
        /\ SameWork(page'[t], page[t]) /\ page'[t].ready = page[t].ready
        /\ page'[t].flush = "none" /\ ~page'[t].call
    BY <1>0, <1>9, CallFailsEffect
  <2>2. /\ page[t].pc = "open" /\ page[t].locked \notin {"draft", "changed"}
    BY <1>0, <2>1 DEF InOrder
  <2>3. InOrder(page'[t])
    BY <2>1, <2>2 DEF InOrder, SameWork
  <2>4. reply'[t] = NoRecord /\ \A u \in Tabs : u # t => reply'[u] = reply[u]
    BY <2>1 DEF TypeOK, Abandoned
  <2> QED BY <1>0, <1>g, <2>1, <2>3, <2>4
<1>10. CASE PollReads(t)
  <2>1. /\ UNCHANGED <<page, reply>> /\ page[t].ready
        /\ \A u \in Tabs : u # t => poll'[u] = poll[u]
    BY <1>10, PollReadsEffect
  <2> QED BY <1>1, <2>1 DEF PagesAreInOrder
<1>11. CASE PollArrives(t)
  <2>1. /\ Moved(t) /\ UNCHANGED reply /\ poll[t] # NoRecord
        /\ poll' = [poll EXCEPT ![t] = NoRecord]
        /\ page'[t].pc = page[t].pc /\ page'[t].done = page[t].done
        /\ page'[t].changes = page[t].changes /\ page'[t].pending = page[t].pending
        /\ page'[t].ready = page[t].ready
        /\ page'[t].flush = page[t].flush /\ page'[t].call = page[t].call
        /\ \/ page'[t].locked = page[t].locked \/ page'[t].locked = "closed"
           \/ /\ page'[t].locked = "changed"
              /\ page[t].flush = "none" /\ page[t].pending = NoRequest
    BY <1>11, PollArrivesEffect DEF OnlyPage
  <2>2. page[t].ready /\ page[t].pc = "open"
    BY <1>0, <2>1 DEF InOrder
  <2>3. InOrder(page'[t])
    BY <1>0, <2>1, <2>2 DEF InOrder
  <2>4. poll'[t] = NoRecord /\ \A u \in Tabs : u # t => poll'[u] = poll[u]
    BY <2>1 DEF TypeOK
  <2> QED BY <1>0, <1>g, <2>1, <2>3, <2>4
<1>12. CASE LosePage(t)
  <2>1. /\ Moved(t) /\ Abandoned(t) /\ page'[t] = ClosedPage
        /\ poll' = [poll EXCEPT ![t] = NoRecord]
    BY <1>0, <1>12, LosePageEffect
  <2>2. /\ poll'[t] = NoRecord /\ \A u \in Tabs : u # t => poll'[u] = poll[u]
        /\ reply'[t] = NoRecord /\ \A u \in Tabs : u # t => reply'[u] = reply[u]
    BY <2>1 DEF TypeOK, Abandoned
  <2> QED BY <1>g, <2>1, <2>2, ClosedInOrder
<1>13. CASE Discard(t)
  <2>1. /\ Moved(t) /\ UNCHANGED reply /\ page'[t] = ClosedPage
        /\ poll' = [poll EXCEPT ![t] = NoRecord] /\ page[t].flush = "none"
    BY <1>13, DiscardEffect
  <2>2. poll'[t] = NoRecord /\ \A u \in Tabs : u # t => poll'[u] = poll[u]
    BY <2>1 DEF TypeOK
  <2>3. reply'[t] = NoRecord
    BY <1>0, <2>1 DEF InOrder
  <2> QED BY <1>g, <2>1, <2>2, <2>3, ClosedInOrder
<1> QED BY <1>2, <1>3, <1>4, <1>5, <1>6, <1>7, <1>8, <1>9, <1>10, <1>11, <1>12, <1>13
        DEF TabStep

LEMMA OrderKept ==
    ASSUME TypeOK, PagesAreInOrder, AnswersAreOwn, Next
    PROVE  PagesAreInOrder'
<1>1. ASSUME NEW t \in Tabs, TabsStand, page[t].call,
             \A u \in Tabs : u # t => reply'[u] = reply[u]
      PROVE  PagesAreInOrder'
  BY <1>1 DEF PagesAreInOrder, TabsStand
<1>2. ASSUME NEW t \in Tabs, Serve(t)
      PROVE  PagesAreInOrder'
  <2>1. InOrder(page[t])
    BY DEF PagesAreInOrder
  <2> QED BY <1>1, <1>2, <2>1, ServeEffect DEF Answered
<1>3. ASSUME NEW t \in Tabs, ServeOverlapping(t)
      PROVE  PagesAreInOrder'
  BY <1>1, <1>3, ServeOverlappingEffect DEF Answered
<1>4. ASSUME NEW g \in ghosts, ServeGhost(g[1], g[2])
      PROVE  PagesAreInOrder'
  BY <1>4, ServeGhostEffect DEF PagesAreInOrder, TabsStand
<1>5. CASE Seal("closed") \/ Seal("revoked")
  BY <1>5 DEF Seal, PagesAreInOrder
<1> QED BY <1>2, <1>3, <1>4, <1>5, OrderKeptByTabs DEF Next, ServerStep

-----------------------------------------------------------------------------
(* Ratings *)

\* What went wrong is not forgotten.
LEMMA MishapsStay ==
    ASSUME TypeOK, PagesAreInOrder, AnswersAreOwn, Next
    PROVE  mishaps \subseteq mishaps'
<1>1. ASSUME NEW t \in Tabs, Serve(t) \/ ServeOverlapping(t)
      PROVE  mishaps \subseteq mishaps'
  BY <1>1 DEF Serve, ServeOverlapping
<1>2. ASSUME NEW g \in ghosts, ServeGhost(g[1], g[2])
      PROVE  mishaps \subseteq mishaps'
  BY <1>2 DEF ServeGhost
<1>3. CASE Seal("closed") \/ Seal("revoked")
  BY <1>3 DEF Seal
<1>4. ASSUME NEW t \in Tabs, NEW p, Written(t, p)
      PROVE  mishaps \subseteq mishaps'
  BY <1>4 DEF Written
<1>5. ASSUME NEW t \in Tabs, TabStep(t)
      PROVE  mishaps \subseteq mishaps'
  <2>0. /\ InOrder(page[t])
        /\ reply[t] # NoRecord => reply[t].revision <= Revision
    BY DEF PagesAreInOrder, AnswersAreOwn
  <2>1. CASE OpenPage(t) \/ Boot(t) \/ Refused(t) \/ CallFails(t) \/ PollReads(t)
             \/ PollArrives(t) \/ LosePage(t) \/ Discard(t)
    BY <2>1 DEF OpenPage, Boot, Refused, CallFails, PollReads, PollArrives, LosePage, Discard
  <2>2. ASSUME NEW i \in Items, NEW score \in Scores, Edit(t, i, score)
        PROVE  mishaps \subseteq mishaps'
    BY <1>4, <2>2, EditEffect
  <2>3. ASSUME NEW navigating \in BOOLEAN, NEW complete \in BOOLEAN,
               Flush(t, navigating, complete)
        PROVE  mishaps \subseteq mishaps'
    <3>1. Idles(t) \/ Sends(t) \/ OnlyPage(t)
      BY <2>3, FlushEffect
    <3> QED BY <1>4, <3>1 DEF Idles, Sends, OnlyPage
  <2>4. CASE Continue(t)
    <3>1. Idles(t) \/ Sends(t)
      BY <2>4, ContinueEffect
    <3> QED BY <1>4, <3>1 DEF Idles, Sends
  <2>5. CASE Acknowledge(t)
    <3>1. mishaps' = mishaps \/ Written(t, page'[t])
      BY <2>0, <2>5, AcknowledgeEffect
    <3> QED BY <1>4, <3>1
  <2> QED BY <1>5, <2>1, <2>2, <2>3, <2>4, <2>5 DEF TabStep
<1> QED BY <1>1, <1>2, <1>3, <1>5 DEF Next, ServerStep

\* The session is not reopened.
LEMMA CompletionStays ==
    ASSUME TypeOK, PagesAreInOrder, AnswersAreOwn, Next, Newest.complete
    PROVE  log' = log
<1>1. CASE PublishesItsOwn
  BY <1>1 DEF PublishesItsOwn, Accepts
<1> QED BY <1>1, NextPublishes

\* A step of a tab does not take a score out of its page and its record.
LEMMA EditsKeptByTabs ==
    ASSUME TypeOK, PagesAreInOrder, AnswersAreOwn, RequestsAreUnique, CompletionIsLast,
           EditsAreSafe, NEW t \in Tabs, TabStep(t), NEW i \in Items
    PROVE  EditIsSafe(t, i)'
<1> DEFINE IsPublished == \E n \in 1 .. Len(log) : log[n].by = t /\ log[n].rows[i] = made[t][i]
           IsRecorded == /\ disk[t] # NoRecord /\ i \in disk[t].changes
                         /\ disk[t].rows[i] = made[t][i]
           IsShown == i \in page[t].changes /\ page[t].rows[i] = made[t][i]
<1>0. /\ InOrder(page[t])
      /\ reply[t] # NoRecord => reply[t].revision <= Revision
      /\ log' = log /\ mishaps \subseteq mishaps'
  BY TabRequests, MishapsStay DEF PagesAreInOrder, AnswersAreOwn, Next
<1>1. made[t][i] # 0 /\ ~Newest.complete /\ "unwritten" \notin mishaps =>
         \/ IsPublished
         \/ IsRecorded /\ (page[t].pc = "open" /\ page[t].locked # "draft" => IsShown)
  BY DEF EditsAreSafe, EditIsSafe
<1>2. Newest' = Newest /\ (made' = made => IsPublished' = IsPublished)
  BY <1>0 DEF Newest
<1>r. ASSUME made' = made, disk' = disk,
             page'[t].pc = "open" /\ page'[t].locked # "draft" =>
                /\ page[t].pc = "open" /\ page[t].locked # "draft"
                /\ page'[t].rows = page[t].rows /\ page'[t].changes = page[t].changes
      PROVE  EditIsSafe(t, i)'
  BY <1>0, <1>1, <1>2, <1>r DEF EditIsSafe
<1>w. ASSUME made' = made, Written(t, page'[t]),
             page[t].pc = "open" /\ page[t].locked # "draft",
             page'[t].rows = page[t].rows /\ page'[t].changes = page[t].changes
      PROVE  EditIsSafe(t, i)'
  BY <1>0, <1>1, <1>2, <1>w DEF EditIsSafe, Written
<1>3. CASE OpenPage(t)
  <2>1. page'[t].pc = "opening" /\ made' = made /\ disk' = disk
    BY <1>3, OpenPageEffect DEF OnlyPage
  <2> QED BY <1>r, <2>1
<1>4. CASE Boot(t)
  <2>1. /\ made' = made /\ disk' = disk /\ page'[t].pc = "open"
        /\ \/ disk[t] = NoRecord
           \/ page'[t].locked = "draft"
           \/ /\ page'[t].changes = disk[t].changes
              /\ \A j \in disk[t].changes : page'[t].rows[j] = disk[t].rows[j]
    BY <1>0, <1>4, BootEffect DEF OnlyPage
  <2> QED BY <1>0, <1>1, <1>2, <2>1 DEF EditIsSafe
<1>5. ASSUME NEW j \in Items, NEW score \in Scores, Edit(t, j, score)
      PROVE  EditIsSafe(t, i)'
  <2>1. /\ Written(t, page'[t]) /\ page[t].ready /\ page[t].locked = "no"
        /\ page'[t].changes = page[t].changes \cup {j} /\ page'[t].rows[j] = score
        /\ \A k \in Items : k # j => page'[t].rows[k] = page[t].rows[k]
        /\ made'[t][j] = score
        /\ \A k \in Items : k # j => made'[t][k] = made[t][k]
    BY <1>5, EditEffect DEF Writable
  <2>2. page[t].pc = "open"
    BY <1>0, <2>1 DEF InOrder
  <2>3. CASE i = j
    BY <2>1, <2>3 DEF EditIsSafe, Written
  <2>4. CASE i # j
    <3>1. made'[t][i] = made[t][i] /\ page'[t].rows[i] = page[t].rows[i]
          /\ (i \in page'[t].changes <=> i \in page[t].changes)
      BY <2>1, <2>4
    <3>2. IsPublished' = IsPublished
      BY <1>0, <3>1
    <3> QED BY <1>0, <1>1, <1>2, <2>1, <2>2, <3>1, <3>2 DEF EditIsSafe, Written
  <2> QED BY <2>3, <2>4
<1>6. ASSUME NEW navigating \in BOOLEAN, NEW complete \in BOOLEAN,
             Flush(t, navigating, complete)
      PROVE  EditIsSafe(t, i)'
  <2>1. /\ made' = made /\ page[t].pc = "open" /\ page[t].locked = "no"
        /\ Idles(t) \/ Sends(t) \/ (OnlyPage(t) /\ SameWork(page'[t], page[t]))
    BY <1>6, FlushEffect DEF Writable
  <2> QED BY <1>r, <1>w, <2>1 DEF Idles, Sends, OnlyPage, SameWork
<1>7. CASE Continue(t)
  <2>1. made' = made /\ page[t].flush = "next" /\ (Idles(t) \/ Sends(t))
    BY <1>7, ContinueEffect
  <2>2. page[t].pc = "open" /\ page[t].locked # "draft"
    BY <1>0, <2>1 DEF InOrder
  <2> QED BY <1>r, <1>w, <2>1, <2>2 DEF Idles, Sends, SameWork
<1>8. CASE Acknowledge(t)
  <2>1. PICK k \in 0 .. Revision : k = reply[t].revision
    BY <1>0, <1>8, AcknowledgeEffect
  <2>2. /\ made' = made /\ page[t].call /\ reply[t] # NoRecord /\ reply[t].ok
        /\ page'[t].done = At(k).complete
        /\ page'[t].changes = {j \in page[t].changes : page[t].rows[j] # At(k).rows[j]}
        /\ \A j \in page'[t].changes : page'[t].rows[j] = page[t].rows[j]
        /\ ~page'[t].done => Written(t, page'[t])
    BY <1>0, <1>8, <2>1, AcknowledgeEffect
  <2>3. page[t].pc = "open" /\ page[t].locked # "draft" /\ page[t].pending # NoRequest
    BY <1>0, <2>2 DEF InOrder
  <2>4. PICK n \in 1 .. Len(log) : n = k + 1 /\ At(k) = log[n]
    BY <2>1, LogFacts
  <2>5. log[n].by = t
    <3>1. PICK q \in Request : q = page[t].pending
      BY <2>3 DEF TypeOK, Page
    <3>2. q \in Known(t)
      BY <3>1, KnownIs, NothingAssumption DEF Has
    <3>3. log[n].id = q.id
      BY <2>1, <2>2, <2>4, <3>1 DEF AnswersAreOwn
    <3> QED BY <3>2, <3>3 DEF RequestsAreUnique
  <2>6. CASE page'[t].done
    <3>1. Newest.complete
      BY <2>2, <2>4, <2>6 DEF CompletionIsLast, Newest
    <3> QED BY <1>2, <3>1 DEF EditIsSafe
  <2>7. CASE ~page'[t].done
    <3>1. IsShown /\ i \notin page'[t].changes => IsPublished
      BY <2>2, <2>4, <2>5
    <3>2. IsShown /\ i \in page'[t].changes => page'[t].rows[i] = made'[t][i]
      BY <2>2
    <3>3. Written(t, page'[t])
      BY <2>2, <2>7
    <3> QED BY <1>0, <1>1, <1>2, <2>2, <2>3, <3>1, <3>2, <3>3 DEF EditIsSafe, Written
  <2> QED BY <2>6, <2>7
<1>9. CASE Refused(t)
  <2>1. /\ made' = made /\ disk' = disk /\ page[t].call
        /\ page'[t].rows = page[t].rows /\ page'[t].changes = page[t].changes
    BY <1>9, RefusedEffect
  <2>2. page[t].pc = "open" /\ page[t].locked # "draft"
    BY <1>0, <2>1 DEF InOrder
  <2> QED BY <1>r, <2>1, <2>2
<1>10. CASE CallFails(t)
  <2>1. made' = made /\ disk' = disk /\ SameWork(page'[t], page[t])
    BY <1>0, <1>10, CallFailsEffect
  <2> QED BY <1>r, <2>1 DEF SameWork
<1>11. CASE PollReads(t)
  BY <1>r, <1>11, PollReadsEffect
<1>12. CASE PollArrives(t)
  <2>1. /\ made' = made /\ disk' = disk /\ poll[t] # NoRecord
        /\ page'[t].pc = page[t].pc
        /\ page'[t].rows = page[t].rows /\ page'[t].changes = page[t].changes
    BY <1>12, PollArrivesEffect DEF OnlyPage
  <2>2. page[t].locked # "draft"
    BY <1>0, <2>1 DEF PagesAreInOrder, InOrder
  <2> QED BY <1>r, <2>1, <2>2
<1>13. CASE LosePage(t)
  <2>1. made' = made /\ disk' = disk /\ page'[t].pc = "closed"
    BY <1>0, <1>13, LosePageEffect, ClosedFields
  <2> QED BY <1>r, <2>1
<1>14. CASE Discard(t)
  <2>1. made'[t][i] = 0
    BY <1>14, DiscardEffect DEF Blank, TypeOK
  <2> QED BY <2>1 DEF EditIsSafe
<1> QED BY <1>3, <1>4, <1>5, <1>6, <1>7, <1>8, <1>9, <1>10, <1>11, <1>12, <1>13, <1>14
        DEF TabStep

\* A step of a tab leaves what the other tabs have.
LEMMA OthersStand ==
    ASSUME TypeOK, PagesAreInOrder, AnswersAreOwn, NEW t \in Tabs, TabStep(t),
           NEW u \in Tabs, u # t
    PROVE  /\ page'[u] = page[u] /\ disk'[u] = disk[u] /\ made'[u] = made[u]
           /\ reply'[u] = reply[u]
           /\ \A q : <<u, q>> \in ghosts' => <<u, q>> \in ghosts
<1>0. /\ InOrder(page[t])
      /\ reply[t] # NoRecord => reply[t].revision <= Revision
  BY DEF PagesAreInOrder, AnswersAreOwn
<1> DEFINE Left == /\ page'[u] = page[u] /\ disk'[u] = disk[u] /\ made'[u] = made[u]
                   /\ reply'[u] = reply[u]
                   /\ \A q : <<u, q>> \in ghosts' => <<u, q>> \in ghosts
<1>1. CASE OpenPage(t) \/ Boot(t) \/ PollArrives(t)
  <2>1. OnlyPage(t)
    BY <1>0, <1>1, OpenPageEffect, BootEffect, PollArrivesEffect
  <2> QED BY <2>1 DEF OnlyPage, Moved, server
<1>2. ASSUME NEW i \in Items, NEW score \in Scores, Edit(t, i, score)
      PROVE  Left
  <2>1. /\ Moved(t) /\ Written(t, page'[t]) /\ UNCHANGED <<server, reply>>
        /\ made' \in [Tabs -> Rows]
        /\ \A j \in Items : made'[u][j] = made[u][j]
    BY <1>2, EditEffect
  <2>2. made'[u] = made[u]
    BY <2>1 DEF TypeOK, Rows
  <2> QED BY <2>1, <2>2 DEF Moved, Written, server
<1>3. ASSUME Idles(t) \/ Sends(t) \/ OnlyPage(t), UNCHANGED <<server, reply, made>>
      PROVE  Left
  BY <1>3 DEF Idles, Sends, OnlyPage, Moved, Written, server
<1>4. ASSUME NEW navigating \in BOOLEAN, NEW complete \in BOOLEAN,
             Flush(t, navigating, complete)
      PROVE  Left
  BY <1>3, <1>4, FlushEffect
<1>5. CASE Continue(t)
  BY <1>3, <1>5, ContinueEffect
<1>6. CASE Acknowledge(t)
  <2>1. /\ Moved(t) /\ UNCHANGED <<server, made>>
        /\ reply' = [reply EXCEPT ![t] = NoRecord]
        /\ disk' = [disk EXCEPT ![t] = NoRecord] \/ Written(t, page'[t])
    BY <1>0, <1>6, AcknowledgeEffect
  <2> QED BY <2>1 DEF Moved, Written, server, TypeOK
<1>7. CASE Refused(t)
  <2>1. /\ Moved(t) /\ UNCHANGED <<server, disk, made>>
        /\ reply' = [reply EXCEPT ![t] = NoRecord]
    BY <1>7, RefusedEffect DEF server
  <2> QED BY <2>1 DEF Moved, server, TypeOK
<1>8. CASE CallFails(t) \/ LosePage(t)
  <2>1. Moved(t) /\ UNCHANGED <<disk, made>> /\ Abandoned(t)
    BY <1>0, <1>8, CallFailsEffect, LosePageEffect
  <2> QED BY <2>1 DEF Moved, Abandoned, TypeOK
<1>9. CASE PollReads(t)
  BY <1>9, PollReadsEffect DEF server
<1>10. CASE Discard(t)
  <2>1. /\ Moved(t) /\ UNCHANGED <<server, reply>>
        /\ disk' = [disk EXCEPT ![t] = NoRecord] /\ made' = [made EXCEPT ![t] = Blank]
    BY <1>10, DiscardEffect
  <2> QED BY <2>1 DEF Moved, server, TypeOK
<1> QED BY <1>1, <1>2, <1>4, <1>5, <1>6, <1>7, <1>8, <1>9, <1>10 DEF TabStep

LEMMA EditsKept ==
    ASSUME TypeOK, PagesAreInOrder, AnswersAreOwn, RequestsAreUnique, CompletionIsLast,
           EditsAreSafe, Next
    PROVE  EditsAreSafe'
<1>0. /\ mishaps \subseteq mishaps'
      /\ \A n \in 1 .. Len(log) : n \in 1 .. Len(log') /\ log'[n] = log[n]
      /\ Newest.complete => Newest'.complete
  BY NextPublishes, LogGrows, MishapsStay, CompletionStays DEF Newest
<1>1. ASSUME NEW u \in Tabs, page'[u] = page[u], disk'[u] = disk[u], made'[u] = made[u],
             NEW i \in Items
      PROVE  EditIsSafe(u, i)'
  <2>1. EditIsSafe(u, i)
    BY DEF EditsAreSafe
  <2> QED BY <1>0, <1>1, <2>1 DEF EditIsSafe
<1>2. CASE ServerStep
  BY <1>1, <1>2, ServerPublishes DEF TabsStand, EditsAreSafe
<1>3. ASSUME NEW t \in Tabs, TabStep(t)
      PROVE  EditsAreSafe'
  BY <1>1, <1>3, EditsKeptByTabs, OthersStand DEF EditsAreSafe
<1> QED BY <1>2, <1>3 DEF Next

-----------------------------------------------------------------------------
(* A tab alone *)

\* A tab's requests that were given up are the one it still repeats or of the past.
Spent(t) == \A q \in Request :
                <<t, q>> \in ghosts => q = Unacknowledged(t) \/ q.expected < Revision

LEMMA InStepIs ==
    ASSUME TypeOK, NEW t \in Tabs
    PROVE  InStep(t) <=> /\ page[t].locked \notin {"refused", "draft"}
                         /\ PageMatchesRecord(t)
                         /\ IF Unacknowledged(t) = NoRequest
                            THEN IdleInStep(t) ELSE BusyInStep(Unacknowledged(t))
                         /\ Spent(t)
                         /\ reply[t] # NoRecord => reply[t].ok /\ reply[t].revision = Revision
<1>1. (\A q \in Known(t) : <<t, q>> \in ghosts => q = Unacknowledged(t) \/ q.expected < Revision)
         <=> Spent(t)
  BY KnownIs, NothingAssumption DEF Spent, Has
<1> QED BY <1>1 DEF InStep

LEMMA InStepNext ==
    ASSUME TypeOK', NEW t \in Tabs,
           page'[t].locked \notin {"refused", "draft"}, PageMatchesRecord(t)',
           IF Unacknowledged(t)' = NoRequest
           THEN IdleInStep(t)' ELSE BusyInStep(Unacknowledged(t))',
           Spent(t)',
           reply'[t] # NoRecord => reply'[t].ok /\ reply'[t].revision = Revision'
    PROVE  InStep(t)'
<1>1. \A q \in Known(t)' : <<t, q>> \in ghosts' =>
         q = Unacknowledged(t)' \/ q.expected < Revision'
  BY KnownNext DEF Spent
<1> QED BY <1>1 DEF InStep

\* Nothing that concerns the tab happens.
LEMMA InStepStands ==
    ASSUME TypeOK, TypeOK', NEW t \in Tabs, InStep(t), log' = log, page'[t] = page[t],
           disk'[t] = disk[t], reply'[t] = reply[t],
           \A q : <<t, q>> \in ghosts' => <<t, q>> \in ghosts
    PROVE  InStep(t)'
<1>1. Spent(t) /\ Spent(t)'
  BY InStepIs DEF Spent, Unacknowledged, Revision
<1> QED BY <1>1, InStepIs, InStepNext
        DEF PageMatchesRecord, Unacknowledged, IdleInStep, BusyInStep, Newest, Revision

\* Nobody is alone with somebody else's checkpoint.
LEMMA OthersPublish ==
    ASSUME TypeOK, NEW u \in Tabs, NEW t \in Tabs, NEW q \in Request, Publish(t, q), Alone(u)'
    PROVE  t = u
<1>1. Len(log') = Len(log) + 1 /\ log'[Len(log')].by = t
  BY PublishFacts DEF Newest
<1>2. Len(log') \in 1 .. Len(log')
  BY <1>1, LogFacts
<1> QED BY <1>1, <1>2, PlayerAssumption DEF Alone

\* A server that accepts requests does not refuse a tab that is alone.
LEMMA InStepByServer ==
    ASSUME TypeOK, PagesAreInOrder, AnswersAreOwn, ServerStep,
           study = "collecting", study' = "collecting", mishaps' = {},
           NEW u \in Tabs, InStep(u), Alone(u)'
    PROVE  InStep(u)'
<1>0. /\ TypeOK' /\ TabsStand /\ ghosts' \subseteq ghosts /\ InOrder(page[u])
      /\ Revision \in Nat
  BY ServerTypes, ServerPublishes, LogFacts DEF PagesAreInOrder
<1>1. /\ Unacknowledged(u)' = Unacknowledged(u)
      /\ PageMatchesRecord(u)' <=> PageMatchesRecord(u)
      /\ page'[u].locked \notin {"refused", "draft"} /\ PageMatchesRecord(u)
      /\ Spent(u)
      /\ IF Unacknowledged(u) = NoRequest
         THEN IdleInStep(u) ELSE BusyInStep(Unacknowledged(u))
      /\ reply[u] # NoRecord => reply[u].ok /\ reply[u].revision = Revision
  BY <1>0, InStepIs DEF TabsStand, Unacknowledged, PageMatchesRecord
<1>2. page[u].call => page[u].pc = "open" /\ Unacknowledged(u) = page[u].pending
  BY <1>0 DEF InOrder, Unacknowledged
<1>s. ASSUME log' = log, reply'[u] = reply[u]
      PROVE  InStep(u)'
  BY <1>0, <1>s, InStepStands DEF TabsStand
<1>a. ASSUME log' = log, Answered(u, TRUE, Revision)
      PROVE  InStep(u)'
  <2>1. /\ Revision' = Revision /\ Newest' = Newest
        /\ reply'[u].ok /\ reply'[u].revision = Revision'
    BY <1>a DEF Revision, Newest, Answered
  <2>2. Spent(u)' /\ (IdleInStep(u)' <=> IdleInStep(u))
    BY <1>0, <1>1, <2>1 DEF Spent, IdleInStep, TabsStand
  <2>3. \A q : BusyInStep(q)' <=> BusyInStep(q)
    BY <2>1 DEF BusyInStep
  <2>4. IF Unacknowledged(u)' = NoRequest
        THEN IdleInStep(u)' ELSE BusyInStep(Unacknowledged(u))'
    BY <1>1, <2>1, <2>2 DEF BusyInStep
  <2> QED BY <1>0, <1>1, <2>1, <2>2, <2>4, InStepNext
<1>p. ASSUME NEW q \in Request, q = Unacknowledged(u), Publish(u, q),
             reply'[u] # NoRecord => reply'[u].ok /\ reply'[u].revision = Revision'
      PROVE  InStep(u)'
  <2>1. Newest'.id = q.id /\ Revision' = Revision + 1
    BY <1>p, PublishFacts
  <2>2. Spent(u)'
    <3>1. \A r \in Request : <<u, r>> \in ghosts' => r = q \/ r.expected < Revision
      BY <1>0, <1>1, <1>p DEF Spent
    <3>2. \A r \in Request : r.expected \in Nat
      BY DEF Request
    <3> QED BY <1>0, <1>1, <1>p, <2>1, <3>1, <3>2 DEF Spent
  <2>3. Unacknowledged(u)' = q /\ q # NoRequest /\ BusyInStep(Unacknowledged(u))'
    BY <1>1, <1>p, <2>1, NothingAssumption DEF BusyInStep
  <2> QED BY <1>0, <1>1, <1>p, <2>2, <2>3, InStepNext
<1>3. ASSUME NEW t \in Tabs, Serve(t)
      PROVE  InStep(u)'
  <2>0. InOrder(page[t])
    BY DEF PagesAreInOrder
  <2>q. PICK q \in Request : q = page[t].pending
    BY <1>3, <2>0, ServeEffect
  <2>1. CASE Newest.id = q.id /\ log' = log /\ Answered(t, TRUE, Revision)
    BY <1>s, <1>a, <2>1 DEF Answered
  <2>2. CASE Publish(t, q) /\ Answered(t, TRUE, Revision + 1)
    <3>1. t = u
      BY <2>2, OthersPublish
    <3>2. q = Unacknowledged(u) /\ Revision' = Revision + 1
      BY <1>2, <1>3, <2>0, <2>q, <2>2, <3>1, ServeEffect, PublishFacts
    <3> QED BY <1>p, <2>2, <3>1, <3>2 DEF Answered
  <2>3. CASE ~Replays(q) /\ ~Accepts(q) /\ log' = log /\ Answered(t, FALSE, Revision)
    <3>1. CASE t = u
      <4>1. BusyInStep(q)
        BY <1>1, <1>2, <1>3, <2>0, <2>q, <3>1, ServeEffect, NothingAssumption
      <4> QED BY <2>3, <4>1 DEF BusyInStep, Replays, Accepts
    <3>2. CASE t # u
      BY <1>s, <2>3, <3>2 DEF Answered
    <3> QED BY <3>1, <3>2
  <2> QED BY <1>3, <2>0, <2>q, <2>1, <2>2, <2>3, ServeEffect
<1>4. ASSUME NEW t \in Tabs, ServeOverlapping(t)
      PROVE  FALSE
  BY <1>4, ServeOverlappingEffect
<1>5. ASSUME NEW g \in ghosts, ServeGhost(g[1], g[2])
      PROVE  InStep(u)'
  <2>1. PICK t \in Tabs, q \in Request :
              /\ <<t, q>> \in ghosts /\ reply' = reply
              /\ log' = log \/ (~Replays(q) /\ Accepts(q) /\ Publish(t, q))
    BY <1>5, ServeGhostEffect
  <2>2. CASE log' = log
    BY <1>s, <2>1, <2>2
  <2>3. CASE ~Replays(q) /\ Accepts(q) /\ Publish(t, q)
    <3>1. t = u
      BY <2>3, OthersPublish
    <3>2. q = Unacknowledged(u)
      BY <1>0, <1>1, <2>1, <2>3, <3>1 DEF Spent, Accepts
    <3>3. reply[u] = NoRecord
      <4>1. SUFFICES ASSUME reply[u] # NoRecord
                     PROVE  FALSE
        OBVIOUS
      <4>2. page[u].call /\ At(reply[u].revision).id = page[u].pending.id
        BY <1>1, <4>1 DEF PagesAreInOrder, AnswersAreOwn
      <4>3. Newest.id = q.id
        BY <1>1, <1>2, <3>2, <4>1, <4>2, LogFacts
      <4> QED BY <2>3, <4>3 DEF Replays
    <3> QED BY <1>p, <2>1, <2>3, <3>1, <3>2, <3>3
  <2> QED BY <2>1, <2>2, <2>3
<1>6. CASE Seal("closed") \/ Seal("revoked")
  BY <1>6 DEF Seal
<1> QED BY <1>3, <1>4, <1>5, <1>6 DEF ServerStep

\* Nor does such a tab fall out of step by what it does itself.
LEMMA InStepByTab ==
    ASSUME TypeOK, PagesAreInOrder, AnswersAreOwn, RequestsAreUnique, NEW t \in Tabs,
           TabStep(t), mishaps' = {}, InStep(t)
    PROVE  InStep(t)'
<1>0. /\ TypeOK' /\ InOrder(page[t]) /\ log' = log
      /\ reply[t] # NoRecord => page[t].call
      /\ reply[t] # NoRecord => reply[t].revision <= Revision
      /\ Revision \in Nat
  BY TabTypes, TabRequests, LogFacts DEF PagesAreInOrder, AnswersAreOwn
<1>1. /\ page[t].locked \notin {"refused", "draft"} /\ PageMatchesRecord(t) /\ Spent(t)
      /\ IF Unacknowledged(t) = NoRequest
         THEN IdleInStep(t) ELSE BusyInStep(Unacknowledged(t))
      /\ reply[t] # NoRecord => reply[t].ok /\ reply[t].revision = Revision
  BY InStepIs
<1>2. /\ Revision' = Revision /\ Newest' = Newest
      /\ \A q : BusyInStep(q)' <=> BusyInStep(q)
  BY <1>0 DEF Revision, Newest, BusyInStep
\* The tab has the same request outstanding.
<1>s. ASSUME Unacknowledged(t)' = Unacknowledged(t),
             page'[t].locked \notin {"refused", "draft"}, PageMatchesRecord(t)',
             Unacknowledged(t) = NoRequest => IdleInStep(t)',
             \A q : <<t, q>> \in ghosts' => <<t, q>> \in ghosts \/ q = Unacknowledged(t),
             reply'[t] \in {reply[t], NoRecord}
      PROVE  InStep(t)'
  <2>1. Spent(t)'
    BY <1>1, <1>2, <1>s DEF Spent
  <2>2. IF Unacknowledged(t)' = NoRequest
        THEN IdleInStep(t)' ELSE BusyInStep(Unacknowledged(t))'
    BY <1>1, <1>2, <1>s DEF BusyInStep
  <2> QED BY <1>0, <1>1, <1>2, <1>s, <2>1, <2>2, InStepNext
\* The page goes on as it was.
<1>w. ASSUME SameWork(page'[t], page[t]), disk' = disk,
             \A q : <<t, q>> \in ghosts' => <<t, q>> \in ghosts \/ q = Unacknowledged(t),
             reply'[t] \in {reply[t], NoRecord}
      PROVE  InStep(t)'
  <2>1. Unacknowledged(t)' = Unacknowledged(t) /\ PageMatchesRecord(t)'
    BY <1>1, <1>w DEF SameWork, Unacknowledged, PageMatchesRecord
  <2>2. IdleInStep(t) => IdleInStep(t)'
    BY <1>2, <1>w DEF SameWork, IdleInStep
  <2>3. Unacknowledged(t) = NoRequest => IdleInStep(t)'
    BY <1>1, <2>2
  <2>4. page'[t].locked \notin {"refused", "draft"}
    BY <1>1, <1>w DEF SameWork
  <2> QED BY <1>s, <1>w, <2>1, <2>3, <2>4
\* The page and the record have a new request.
<1>n. ASSUME Sends(t), UNCHANGED <<ghosts, reply>>, page[t].pc = "open",
             page[t].pending = NoRequest, ~page[t].done
      PROVE  InStep(t)'
  <2>1. PICK q \in Request : q = page'[t].pending /\ q.expected = page[t].base
    BY <1>n DEF Sends
  <2>2. disk'[t] # NoRecord /\ disk'[t].pending = q /\ page'[t].pc = "open"
    BY <1>n, <2>1 DEF Sends, Written
  <2>3. Unacknowledged(t) = NoRequest /\ IdleInStep(t)
    BY <1>1, <1>n DEF Unacknowledged
  <2>4. Unacknowledged(t)' = q /\ PageMatchesRecord(t)' /\ q # NoRequest
    BY <2>1, <2>2, NothingAssumption DEF Unacknowledged, PageMatchesRecord
  <2>5. BusyInStep(q)
    BY <1>n, <2>1, <2>3 DEF IdleInStep, BusyInStep
  <2>6. BusyInStep(Unacknowledged(t))'
    BY <1>2, <2>4, <2>5 DEF BusyInStep
  <2>7. Spent(t)'
    BY <1>1, <1>2, <1>n, <2>3, NothingAssumption DEF Spent
  <2>8. page'[t].locked = page[t].locked
    BY <1>n DEF Sends
  <2> QED BY <1>0, <1>1, <1>2, <1>n, <2>4, <2>6, <2>7, <2>8, InStepNext
<1>3. CASE OpenPage(t)
  <2>1. /\ ~Newest.complete /\ page[t].pc = "closed"
        /\ page'[t].pc = "opening" /\ page'[t].base = Revision /\ page'[t].locked = "no"
        /\ UNCHANGED <<server, reply, disk>>
    BY <1>3, OpenPageEffect DEF OnlyPage
  <2>2. Unacknowledged(t)' = Unacknowledged(t) /\ PageMatchesRecord(t)'
    BY <2>1 DEF Unacknowledged, PageMatchesRecord
  <2>3. Unacknowledged(t) = NoRequest => IdleInStep(t)'
    BY <1>1, <1>2, <2>1 DEF IdleInStep
  <2> QED BY <1>s, <2>1, <2>2, <2>3 DEF server
<1>4. CASE Boot(t)
  <2>1. /\ UNCHANGED <<server, reply, disk>> /\ page[t].pc = "opening"
        /\ page'[t].pc = "open" /\ page'[t].base = page[t].base
        /\ \/ /\ disk[t] = NoRecord /\ page'[t].locked = "no"
              /\ page'[t].pending = NoRequest
           \/ /\ disk[t] # NoRecord /\ disk[t].pending = NoRequest
              /\ disk[t].revision # page[t].base
           \/ /\ disk[t] # NoRecord /\ page'[t].locked = "no"
              /\ page'[t].pending = disk[t].pending
    BY <1>0, <1>4, BootEffect DEF OnlyPage
  <2>2. Unacknowledged(t) = NoRequest =>
           /\ IdleInStep(t) /\ ~Newest.complete
           /\ disk[t] # NoRecord => disk[t].revision = page[t].base
    BY <1>0, <1>1, <2>1 DEF IdleInStep, InOrder
  <2>3. /\ page'[t].locked = "no"
        /\ page'[t].pending = IF disk[t] = NoRecord THEN NoRequest ELSE disk[t].pending
    BY <2>1, <2>2 DEF Unacknowledged
  <2>4. Unacknowledged(t)' = Unacknowledged(t) /\ PageMatchesRecord(t)'
    BY <2>1, <2>3 DEF Unacknowledged, PageMatchesRecord
  <2>5. Unacknowledged(t) = NoRequest => IdleInStep(t)'
    BY <1>2, <2>1, <2>2 DEF IdleInStep
  <2> QED BY <1>s, <2>1, <2>3, <2>4, <2>5 DEF server
<1>5. ASSUME NEW i \in Items, NEW score \in Scores, Edit(t, i, score)
      PROVE  InStep(t)'
  <2>1. /\ Written(t, page'[t]) /\ UNCHANGED <<server, reply>>
        /\ page[t].ready /\ ~page[t].done
        /\ page'[t].pc = page[t].pc /\ page'[t].locked = page[t].locked
        /\ page'[t].base = page[t].base /\ page'[t].pending = page[t].pending
    BY <1>5, EditEffect DEF Writable
  <2>2. page[t].pc = "open"
    BY <1>0, <2>1 DEF InOrder
  <2>3. /\ disk'[t] # NoRecord /\ disk'[t].pending = page'[t].pending
        /\ disk'[t].revision = page'[t].base
    BY <2>1 DEF Written
  <2>4. Unacknowledged(t)' = Unacknowledged(t) /\ PageMatchesRecord(t)'
    BY <2>1, <2>2, <2>3 DEF Unacknowledged, PageMatchesRecord
  <2>5. Unacknowledged(t) = NoRequest => IdleInStep(t)'
    BY <1>1, <1>2, <2>1, <2>2, <2>3 DEF IdleInStep
  <2> QED BY <1>s, <1>1, <2>1, <2>4, <2>5 DEF server
<1>6. ASSUME NEW navigating \in BOOLEAN, NEW complete \in BOOLEAN,
             Flush(t, navigating, complete)
      PROVE  InStep(t)'
  <2>1. /\ UNCHANGED <<server, reply>> /\ page[t].pc = "open" /\ ~page[t].done
        /\ \/ Idles(t) \/ (OnlyPage(t) /\ SameWork(page'[t], page[t]))
           \/ page[t].pending = NoRequest /\ Sends(t)
    BY <1>6, FlushEffect DEF Writable
  <2>2. UNCHANGED <<ghosts, reply>>
    BY <2>1 DEF server
  <2>3. CASE Idles(t) \/ (OnlyPage(t) /\ SameWork(page'[t], page[t]))
    BY <1>w, <2>2, <2>3 DEF Idles, OnlyPage
  <2>4. CASE page[t].pending = NoRequest /\ Sends(t)
    BY <1>n, <2>1, <2>2, <2>4
  <2> QED BY <2>1, <2>3, <2>4
<1>7. CASE Continue(t)
  <2>1. /\ UNCHANGED <<server, reply>> /\ page[t].flush = "next"
        /\ Idles(t) \/ (~page[t].done /\ Sends(t))
    BY <1>7, ContinueEffect
  <2>2. UNCHANGED <<ghosts, reply>> /\ page[t].pc = "open" /\ page[t].pending = NoRequest
    BY <1>0, <2>1 DEF InOrder, server
  <2>3. CASE Idles(t)
    BY <1>w, <2>2, <2>3 DEF Idles
  <2>4. CASE ~page[t].done /\ Sends(t)
    BY <1>n, <2>2, <2>4
  <2> QED BY <2>1, <2>3, <2>4
<1>8. CASE Acknowledge(t)
  <2>1. PICK k \in 0 .. Revision : k = reply[t].revision
    BY <1>0, <1>8, AcknowledgeEffect
  <2>2. /\ UNCHANGED server /\ page[t].call /\ reply[t] # NoRecord /\ reply[t].ok
        /\ page'[t].pc = page[t].pc /\ page'[t].locked = page[t].locked
        /\ page'[t].base = k /\ page'[t].done = At(k).complete
        /\ page'[t].pending = NoRequest
        /\ IF page'[t].done THEN disk' = [disk EXCEPT ![t] = NoRecord]
                            ELSE Written(t, page'[t])
        /\ reply' = [reply EXCEPT ![t] = NoRecord]
    BY <1>0, <1>8, <2>1, AcknowledgeEffect
  <2>3. page[t].pc = "open" /\ page[t].pending # NoRequest /\ k = Revision /\ At(k) = Newest
    BY <1>0, <1>1, <2>1, <2>2, LogFacts DEF InOrder
  <2>4. PICK q \in Request : q = page[t].pending /\ q = Unacknowledged(t)
    BY <2>3 DEF TypeOK, Page, Unacknowledged
  <2>5. Newest.id = q.id
    BY <2>1, <2>2, <2>3, <2>4 DEF AnswersAreOwn
  <2>6. q.expected < Revision
    <3>1. q \in Known(t)
      BY <2>4, KnownIs, NothingAssumption DEF Has
    <3>2. Len(log) = q.expected + 2
      BY <2>5, <3>1, LogFacts DEF RequestsAreUnique, Newest
    <3>3. q.expected \in Nat
      BY DEF Request
    <3> QED BY <3>2, <3>3, LogFacts
  <2>7. /\ page'[t].pc = "open" /\ Unacknowledged(t)' = NoRequest
        /\ IF page'[t].done THEN disk'[t] = NoRecord
           ELSE disk'[t] # NoRecord /\ disk'[t].pending = NoRequest /\ disk'[t].revision = k
    BY <2>2, <2>3 DEF Unacknowledged, Written, TypeOK
  <2>8. PageMatchesRecord(t)' /\ IdleInStep(t)'
    BY <1>2, <2>2, <2>3, <2>7 DEF PageMatchesRecord, IdleInStep
  <2>9. Spent(t)'
    BY <1>1, <1>2, <2>2, <2>4, <2>6 DEF Spent, server
  <2>10. reply'[t] = NoRecord
    BY <2>2 DEF TypeOK
  <2> QED BY <1>0, <1>1, <2>2, <2>7, <2>8, <2>9, <2>10, InStepNext
<1>9. CASE Refused(t)
  BY <1>1, <1>9, RefusedEffect
<1>10. CASE CallFails(t)
  <2>1. /\ page[t].call /\ SameWork(page'[t], page[t]) /\ disk' = disk /\ Abandoned(t)
    BY <1>0, <1>10, CallFailsEffect
  <2>2. Unacknowledged(t) = page[t].pending
    BY <1>0, <2>1 DEF InOrder, Unacknowledged
  <2>3. reply'[t] = NoRecord
    BY <2>1 DEF Abandoned, TypeOK
  <2> QED BY <1>w, <2>1, <2>2, <2>3 DEF Abandoned
<1>11. CASE PollReads(t)
  BY <1>w, <1>11, PollReadsEffect DEF SameWork, server
<1>12. CASE PollArrives(t)
  <2>1. /\ UNCHANGED <<server, reply, disk>>
        /\ page'[t].pc = page[t].pc /\ page'[t].base = page[t].base
        /\ page'[t].done = page[t].done /\ page'[t].pending = page[t].pending
        /\ page'[t].locked \in {page[t].locked, "closed", "changed"}
    BY <1>12, PollArrivesEffect DEF OnlyPage
  <2>2. Unacknowledged(t)' = Unacknowledged(t) /\ PageMatchesRecord(t)'
    BY <1>1, <2>1 DEF Unacknowledged, PageMatchesRecord
  <2>3. Unacknowledged(t) = NoRequest => IdleInStep(t)'
    BY <1>1, <1>2, <2>1 DEF IdleInStep
  <2> QED BY <1>s, <1>1, <2>1, <2>2, <2>3 DEF server
<1>13. CASE LosePage(t)
  <2>1. page'[t].pc = "closed" /\ page'[t].locked = "no" /\ disk' = disk /\ Abandoned(t)
    BY <1>0, <1>13, LosePageEffect, ClosedFields
  <2>2. Unacknowledged(t)' = Unacknowledged(t) /\ PageMatchesRecord(t)'
    BY <1>1, <2>1 DEF Unacknowledged, PageMatchesRecord
  <2>3. Unacknowledged(t) = NoRequest => IdleInStep(t)'
    BY <1>1, <1>2, <2>1 DEF IdleInStep
  <2>4. page[t].call => Unacknowledged(t) = page[t].pending
    BY <1>0 DEF InOrder, Unacknowledged
  <2>5. reply'[t] = NoRecord
    BY <2>1 DEF Abandoned, TypeOK
  <2> QED BY <1>s, <2>1, <2>2, <2>3, <2>4, <2>5 DEF Abandoned
<1>14. CASE Discard(t)
  <2>1. /\ page[t].locked = "changed" /\ UNCHANGED <<server, reply>>
        /\ page'[t].pc = "closed" /\ page'[t].locked = "no" /\ disk'[t] = NoRecord
    BY <1>1, <1>14, DiscardEffect, ClosedFields DEF TypeOK
  <2>2. page[t].pc = "open" /\ page[t].pending = NoRequest
    BY <1>0, <2>1, ClosedFields DEF InOrder, TypeOK, Page
  <2>3. Unacknowledged(t) = NoRequest /\ Unacknowledged(t)' = NoRequest
    BY <2>1, <2>2 DEF Unacknowledged
  <2>4. PageMatchesRecord(t)' /\ IdleInStep(t)'
    BY <2>1 DEF PageMatchesRecord, IdleInStep
  <2> QED BY <1>s, <2>1, <2>3, <2>4 DEF server
<1> QED BY <1>3, <1>4, <1>5, <1>6, <1>7, <1>8, <1>9, <1>10, <1>11, <1>12, <1>13, <1>14
        DEF TabStep

LEMMA AloneKept ==
    ASSUME TypeOK, PagesAreInOrder, AnswersAreOwn, RequestsAreUnique, AloneIsInStep, Next
    PROVE  AloneIsInStep'
<1>1. /\ mishaps \subseteq mishaps'
      /\ \A n \in 1 .. Len(log) : n \in 1 .. Len(log') /\ log'[n] = log[n]
  BY NextPublishes, LogGrows, MishapsStay
<1>2. study' = "collecting" => study = "collecting"
  <2>1. ASSUME NEW t \in Tabs, Serve(t) \/ ServeOverlapping(t)
        PROVE  study' = study
    BY <2>1 DEF Serve, ServeOverlapping
  <2>2. ASSUME NEW g \in ghosts, ServeGhost(g[1], g[2])
        PROVE  study' = study
    BY <2>2 DEF ServeGhost
  <2>3. ASSUME Seal("closed") \/ Seal("revoked")
        PROVE  study = "collecting"
    BY <2>3 DEF Seal
  <2> QED BY <2>1, <2>2, <2>3, TabRequests DEF Next, ServerStep
<1>3. SUFFICES ASSUME study' = "collecting", mishaps' = {}, NEW u \in Tabs, Alone(u)'
               PROVE  InStep(u)'
  BY DEF AloneIsInStep
<1>4. study = "collecting" /\ InStep(u)
  BY <1>1, <1>2, <1>3 DEF AloneIsInStep, Alone
<1>5. CASE ServerStep
  BY <1>3, <1>4, <1>5, InStepByServer
<1>6. ASSUME NEW t \in Tabs, TabStep(t)
      PROVE  InStep(u)'
  <2>1. CASE t = u
    BY <1>3, <1>4, <1>6, <2>1, InStepByTab
  <2>2. CASE t # u
    BY <1>4, <1>6, <2>2, InStepStands, OthersStand, TabRequests, TabTypes
  <2> QED BY <2>1, <2>2
<1> QED BY <1>5, <1>6 DEF Next

-----------------------------------------------------------------------------
(* The invariant *)

LEMMA InvInit == Init => IInv
<1> SUFFICES ASSUME Init
             PROVE  IInv
  OBVIOUS
<1>1. /\ study = "collecting" /\ ghosts = {} /\ drawn = 0 /\ mishaps = {} /\ faults = 0
      /\ reloads = 0 /\ page = [t \in Tabs |-> ClosedPage]
      /\ reply = [t \in Tabs |-> NoRecord] /\ poll = [t \in Tabs |-> NoRecord]
      /\ disk = [t \in Tabs |-> NoRecord] /\ made = [t \in Tabs |-> Blank]
  BY DEF Init
<1>2. PICK e : e = [id |-> 0, rows |-> Blank, complete |-> FALSE, by |-> NoRecord, edits |-> {}]
  OBVIOUS
<1>3. e \in Published /\ e.id = 0 /\ e.complete = FALSE
  BY <1>2, PlayerAssumption DEF Published, Rows, Blank
<1>4. log = <<e>>
  BY <1>2 DEF Init
<1>5. log \in Seq(Published) /\ log # <<>> /\ Len(log) = 1 /\ log[1] = e
  BY <1>3, <1>4
<1>6. Blank \in Rows /\ \A t \in Tabs, i \in Items : made[t][i] = 0
  BY <1>1 DEF Blank, Rows
<1>7. TypeOK
  BY <1>1, <1>5, <1>6, ClosedFields, PlayerAssumption DEF TypeOK
<1>8. \A t \in Tabs : Known(t) = {}
  <2>1. \A t \in Tabs : \A q : ~(q \in Request /\ Has(t, q))
    BY <1>1, ClosedFields DEF Has
  <2> QED BY <1>7, <2>1, KnownIs
<1>9. PagesAreInOrder /\ PagesHaveTheirCheckpoints
  BY <1>1, ClosedInOrder, ClosedFields
  DEF PagesAreInOrder, PagesHaveTheirCheckpoints, HasItsCheckpoint
<1>10. RequestsAreUnique /\ RequestsAreHonest /\ AnswersAreOwn /\ CompletionIsLast
  BY <1>1, <1>3, <1>5, <1>8
  DEF RequestsAreUnique, RequestsAreHonest, AnswersAreOwn, CompletionIsLast
<1>11. EditsAreSafe
  BY <1>6 DEF EditsAreSafe, EditIsSafe
<1>12. AloneIsInStep
  BY <1>1, <1>3, <1>5, <1>8, ClosedFields
  DEF AloneIsInStep, InStep, PageMatchesRecord, Unacknowledged, IdleInStep, Newest
<1> QED BY <1>7, <1>9, <1>10, <1>11, <1>12 DEF IInv

LEMMA InvNext == IInv /\ [Next]_vars => IInv'
<1> SUFFICES ASSUME IInv, [Next]_vars
             PROVE  IInv'
  OBVIOUS
<1>1. CASE Next
  <2>1. /\ TypeOK /\ PagesAreInOrder /\ PagesHaveTheirCheckpoints /\ RequestsAreUnique
        /\ RequestsAreHonest /\ AnswersAreOwn /\ CompletionIsLast /\ EditsAreSafe
        /\ AloneIsInStep
    BY DEF IInv
  <2> QED BY <1>1, <2>1, TypesKept, OrderKept, CheckpointsKept, UniqueKept, HonestKept,
             AnswersKept, CompletionKept, EditsKept, AloneKept
          DEF IInv
<1>2. CASE UNCHANGED vars
  <2>1. UNCHANGED <<study, log, ghosts, page, reply, poll, disk, drawn, made, mishaps, faults,
                    reloads>>
    BY <1>2 DEF vars, server
  <2>2. TypeOK' /\ PagesAreInOrder' /\ PagesHaveTheirCheckpoints'
    BY <2>1 DEF IInv, TypeOK, PagesAreInOrder, PagesHaveTheirCheckpoints, HasItsCheckpoint,
                Revision, At
  <2>3. RequestsAreUnique' /\ RequestsAreHonest' /\ AnswersAreOwn' /\ CompletionIsLast'
    BY <2>1 DEF IInv, RequestsAreUnique, RequestsAreHonest, AnswersAreOwn, CompletionIsLast,
                Known, Revision, At
  <2>4. EditsAreSafe'
    BY <2>1 DEF IInv, EditsAreSafe, EditIsSafe, Newest
  <2>5. AloneIsInStep'
    BY <2>1 DEF IInv, AloneIsInStep, Alone, InStep, PageMatchesRecord, Unacknowledged,
                IdleInStep, BusyInStep, Known, Newest, Revision
  <2> QED BY <2>2, <2>3, <2>4, <2>5 DEF IInv
<1> QED BY <1>1, <1>2 DEF vars

\* IInv holds in every reachable state.
THEOREM Invariant == Spec => []IInv
<1>1. Init => IInv
  BY InvInit
<1>2. IInv /\ [Next]_vars => IInv'
  BY InvNext
<1> QED BY <1>1, <1>2, PTL DEF Spec

\* A row that the page does not count as changed is the acknowledged one.
THEOREM UnchangedRowsSaved == Spec => []UnchangedRowsAreSaved
<1>1. IInv => UnchangedRowsAreSaved
  BY DEF IInv, PagesAreInOrder, InOrder, PagesHaveTheirCheckpoints, HasItsCheckpoint,
         UnchangedRowsAreSaved
<1> QED BY <1>1, Invariant, PTL

\* A score is published, shown by the page that will send it, or in the record
\* that the next page of the tab reads.
THEOREM RatingsAreKept == Spec => []EditsAreKept
<1>1. IInv => EditsAreKept
  BY DEF IInv, EditsAreSafe, EditIsSafe, EditsAreKept
<1> QED BY <1>1, Invariant, PTL

\* Lost acknowledgements and lost pages do not lock out a tab that saves alone.
THEOREM AloneNeverRefused == Spec => []AloneIsNeverRefused
<1>1. IInv => AloneIsNeverRefused
  BY DEF IInv, AloneIsInStep, Alone, InStep, AloneIsNeverRefused
<1> QED BY <1>1, Invariant, PTL

\* A published save changes rows that its own tab edited since the checkpoint it
\* was made on, and no other.
THEOREM NothingOverwrittenBlindly == Spec => NoBlindOverwrite
<1>1. IInv /\ [Next]_vars =>
        [log' # log =>
            \A i \in Items : Newest'.rows[i] # Newest.rows[i] => i \in Newest'.edits]_vars
  <2> SUFFICES ASSUME IInv, Next, log' # log, NEW i \in Items,
                      Newest'.rows[i] # Newest.rows[i]
               PROVE  i \in Newest'.edits
    OBVIOUS
  <2>1. /\ TypeOK /\ PagesAreInOrder /\ AnswersAreOwn /\ RequestsAreHonest
    BY DEF IInv
  <2>2. PICK u \in Tabs, q \in Request : q \in Known(u) /\ Accepts(q) /\ Publish(u, q)
    BY <2>1, NextPublishes, KnownIs DEF PublishesItsOwn
  <2>3. Newest'.rows = q.rows /\ Newest'.edits = q.edits
    BY <2>1, <2>2, PublishFacts
  <2>4. \A j \in Items \ q.edits : q.rows[j] = Newest.rows[j]
    BY <2>1, <2>2, LogFacts DEF RequestsAreHonest, Accepts
  <2> QED BY <2>3, <2>4
<1> QED BY <1>1, Invariant, PTL DEF Spec, NoBlindOverwrite

===============================================================================
