------------------------------ MODULE Journal -------------------------------
(***************************************************************************)
(* The journal entries of one tenant and the tags they share.  A save is   *)
(* one transaction: it merges the entry's row, looks up the tags there     *)
(* are, inserts the missing ones one by one, in the order the request has  *)
(* them, and replaces the entry's links to tags.  What it wrote is seen by *)
(* others at its commit; until then another transaction that writes the    *)
(* same row, or inserts the same tag, waits.                               *)
(*                                                                         *)
(* An entry is read by constructing it, which a blank technology, video or *)
(* link makes fail; "blank" tells such a row from the others.              *)
(***************************************************************************)
EXTENDS Naturals, FiniteSets, SequencesExt

CONSTANTS
  Entry,       \* ids that can be drawn for entries
  Tag,         \* values of tags
  Request,     \* requests in progress at once
  MaxDay       \* days an entry can be about

ASSUME JournalAssumption ==
  /\ "none" \notin Entry \cup Tag
  /\ IsFiniteSet(Entry)
  /\ MaxDay \in Nat

VARIABLES
  entries,   \* journal_entries: the row of each id, or NoRow
  links,     \* journal_entry_tags: the tags of each entry
  tags,      \* tags of the tenant
  task       \* what each request is doing

journalVars == <<entries, links, tags, task>>

tables == <<entries, links, tags>>

None == "none"
Day == 1 .. MaxDay
Row == [day : Day, blank : BOOLEAN]
NoRow == [day |-> 0, blank |-> FALSE]

Work == [pc       : {"idle", "merge", "flush", "selectTags", "insertTag", "commit",
                     "delete"},
         new      : BOOLEAN,      \* whether the entry is being created
         entry    : Entry \cup {None},
         wanted   : SUBSET Tag,   \* the tags of the aggregate in memory
         found    : BOOLEAN,      \* whether merge found the row
         todo     : SUBSET Tag,   \* tags it has still to insert
         inserted : SUBSET Tag]   \* tags it inserted and did not commit

Idle == [pc |-> "idle", new |-> FALSE, entry |-> None, wanted |-> {},
         found |-> FALSE, todo |-> {}, inserted |-> {}]

JournalTypeOK ==
  /\ entries \in [Entry -> Row \cup {NoRow}]
  /\ links \in [Entry -> SUBSET Tag]
  /\ tags \subseteq Tag
  /\ task \in [Request -> Work]

JournalInit ==
  /\ entries = [e \in Entry |-> NoRow]
  /\ links = [e \in Entry |-> {}]
  /\ tags = {}
  /\ task = [r \in Request |-> Idle]

-----------------------------------------------------------------------------

Stored == {e \in Entry : entries[e] # NoRow}
Readable(row) == ~row.blank

Goto(r, pc) == task' = [task EXCEPT ![r].pc = pc]

\* The session is closed: without a commit, the transaction is rolled back.
Close(r) == task' = [task EXCEPT ![r] = Idle]

Wrote == {"selectTags", "insertTag", "commit"}

\* The transactions that wrote an entry's row, or inserted a tag, and go on.
WritersOf(e) == {r \in Request : task[r].pc \in Wrote /\ task[r].entry = e}
InsertersOf(v) == {r \in Request : v \in task[r].inserted}

\* A save that inserts a tag waits for another that inserted it.
WaitsFor(r, q) == task[r].todo \cap task[q].inserted # {}

Inserted(work, v) ==
  [work EXCEPT !.inserted = @ \cup {v}, !.todo = @ \ {v},
               !.pc = IF work.todo = {v} THEN "commit" ELSE "insertTag"]

-----------------------------------------------------------------------------
(* Operators below, each with a bug in it: they stand in for their         *)
(* originals when the properties are tested.                               *)

\* The session of a save that failed stays open.
InsertTag_Leaks(r) ==
  /\ task[r].pc = "insertTag"
  /\ \E v \in task[r].todo :
       /\ InsertersOf(v) = {}
       /\ v \notin tags
       /\ task' = [task EXCEPT ![r] = Inserted(@, v)]
  /\ UNCHANGED tables

\* Nobody waits for the commit of others.
InsertTag_NoWait(r) ==
  /\ task[r].pc = "insertTag"
  /\ \E v \in task[r].todo :
       IF v \notin tags THEN task' = [task EXCEPT ![r] = Inserted(@, v)] ELSE Close(r)
  /\ UNCHANGED tables

-----------------------------------------------------------------------------
(* POST /journals and PATCH /journals/{id}.                                *)

\* A new entry's id is nobody's.
Create(r, e, wanted) ==
  /\ task[r].pc = "idle"
  /\ e \notin Stored /\ \A q \in Request : task[q].entry # e
  /\ task' = [task EXCEPT ![r] = [@ EXCEPT !.pc = "merge", !.new = TRUE, !.entry = e,
                                          !.wanted = wanted]]
  /\ UNCHANGED tables

\* get_by_id constructs the entry, or raises.
Update(r, e, wanted) ==
  /\ task[r].pc = "idle"
  /\ e \in Stored /\ Readable(entries[e])
  /\ task' = [task EXCEPT ![r] = [@ EXCEPT !.pc = "merge", !.entry = e, !.wanted = wanted]]
  /\ UNCHANGED tables

\* merge looks for the row ...
Merge(r) ==
  /\ task[r].pc = "merge"
  /\ task' = [task EXCEPT ![r] = [@ EXCEPT !.pc = "flush", !.found = task[r].entry \in Stored]]
  /\ UNCHANGED tables

\* ... and is an UPDATE or an INSERT, which fails when the row went or came
\* in the meantime.
Flush(r) ==
  /\ task[r].pc = "flush"
  /\ WritersOf(task[r].entry) = {}
  /\ IF task[r].found <=> task[r].entry \in Stored THEN Goto(r, "selectTags") ELSE Close(r)
  /\ UNCHANGED tables

SelectTags(r) ==
  LET missing == task[r].wanted \ tags IN
  /\ task[r].pc = "selectTags"
  /\ task' = [task EXCEPT ![r] = [@ EXCEPT !.todo = missing,
                                          !.pc = IF missing = {} THEN "commit" ELSE "insertTag"]]
  /\ UNCHANGED tables

\* The unique index refuses a tag that another save committed since the lookup:
\* the whole save fails.
InsertTag(r) ==
  /\ task[r].pc = "insertTag"
  /\ \E v \in task[r].todo :
       /\ InsertersOf(v) = {}
       /\ IF v \notin tags THEN task' = [task EXCEPT ![r] = Inserted(@, v)] ELSE Close(r)
  /\ UNCHANGED tables

\* What the fields hold is chosen here, where they are seen first.  A new entry
\* passed its constructor; update sets any field and does not run it again.
Commit(r) ==
  /\ task[r].pc = "commit"
  /\ \E row \in Row :
       /\ task[r].new => Readable(row)
       /\ entries' = [entries EXCEPT ![task[r].entry] = row]
  /\ links' = [links EXCEPT ![task[r].entry] = task[r].wanted]
  /\ tags' = tags \cup task[r].inserted
  /\ Close(r)

\* Saves that insert tags in different orders can wait for each other:
\* PostgreSQL ends one of those that do.
Deadlock(r) ==
  /\ \E circle \in SUBSET Request :
       r \in circle /\ \A q \in circle : \E p \in circle : WaitsFor(q, p)
  /\ Close(r)
  /\ UNCHANGED tables

-----------------------------------------------------------------------------
(* DELETE /journals/{id}: the row is found, and not constructed.           *)

DeleteLoad(r, e) ==
  /\ task[r].pc = "idle"
  /\ e \in Stored
  /\ task' = [task EXCEPT ![r] = [@ EXCEPT !.pc = "delete", !.entry = e]]
  /\ UNCHANGED tables

\* Its links go with it; its tags stay.
Delete(r) ==
  /\ task[r].pc = "delete"
  /\ WritersOf(task[r].entry) = {}
  /\ entries' = [entries EXCEPT ![task[r].entry] = NoRow]
  /\ links' = [links EXCEPT ![task[r].entry] = {}]
  /\ Close(r)
  /\ UNCHANGED tags

\* A call fails, or the process ends: the transaction is rolled back.
Fail(r) ==
  /\ task[r].pc # "idle"
  /\ Close(r)
  /\ UNCHANGED tables

RequestStep(r) ==
  \/ Merge(r) \/ Flush(r) \/ SelectTags(r) \/ InsertTag(r) \/ Commit(r)
  \/ Delete(r) \/ Deadlock(r)

JournalNext ==
  \E r \in Request :
    \/ RequestStep(r) \/ Fail(r)
    \/ \E e \in Entry :
         \/ DeleteLoad(r, e)
         \/ \E wanted \in SUBSET Tag : Create(r, e, wanted) \/ Update(r, e, wanted)

JournalSpec == JournalInit /\ [][JournalNext]_journalVars

\* The server goes on with every request it took up, and PostgreSQL grants a
\* lock to those that wait for it in turn.
FairJournalSpec == JournalSpec /\ \A r \in Request : SF_journalVars(RequestStep(r))

-----------------------------------------------------------------------------
(* GET /journals.                                                          *)

\* The list of entries: until counts only where since is not given.
Matches(since, until, tag) ==
  {e \in Stored :
     /\ since # 0 => entries[e].day >= since
     /\ since = 0 /\ until # 0 => entries[e].day <= until
     /\ tag # None => tag \in links[e]}

\* ORDER BY entry_date DESC, which any of these orders satisfies ...
Orders(found) ==
  {s \in [1 .. Cardinality(found) -> found] :
     IsInjective(s) /\ \A i, k \in DOMAIN s : i < k => entries[s[i]].day >= entries[s[k]].day}

\* (A stand-in, too: pages that overlap by one.)
Offset_FromOne(page, size) == (page - 1) * size - (IF page > 1 THEN 1 ELSE 0)

\* ... and LIMIT with OFFSET, for pages counted from 1.
Offset(page, size) == (page - 1) * size

Page(order, page, size) ==
  SubSeq(order, Offset(page, size) + 1,
         IF Offset(page, size) + size < Len(order) THEN Offset(page, size) + size ELSE Len(order))

\* Each row of the page is constructed: one that cannot be makes list raise, and
\* nothing of its page is shown.
Raises(order, page, size) == \E e \in Range(Page(order, page, size)) : ~Readable(entries[e])
Shown(order, page, size) ==
  {e \in Range(Page(order, page, size)) : ~Raises(order, page, size)}

-----------------------------------------------------------------------------

InHand(work) ==
  /\ work.pc # "idle" <=> work.entry \in Entry
  /\ work.pc = "insertTag" <=> work.todo # {}
  /\ work.pc \notin {"insertTag", "commit"} => work.inserted = {}
  /\ work.pc \in {"insertTag", "commit"}
       => work.wanted \subseteq tags \cup work.inserted \cup work.todo

\* Saves that overlap never both hold a row or a tag, a tag that is being
\* inserted is nobody's yet, and every link is of an entry and to a tag that
\* are there.
JournalInv ==
  /\ JournalTypeOK
  /\ \A r \in Request : InHand(task[r])
  /\ \A e \in Entry : \A r, q \in WritersOf(e) : r = q
  /\ \A v \in Tag : \A r, q \in InsertersOf(v) : r = q
  /\ \A r \in Request : task[r].inserted \cap tags = {}
  /\ \A e \in Entry : links[e] \subseteq tags
  /\ \A e \in Entry \ Stored : links[e] = {}

\* The entries listed before all those of a day, and with them.
LaterThan(found, e) == {d \in found : entries[d].day > entries[e].day}
SinceDayOf(found, e) == {d \in found : entries[d].day >= entries[e].day}

\* Every request comes to an end, whatever other saves insert, delete or wait
\* for: no cycle of waiting is left and no transaction stays open.
RequestsEnd == \A r \in Request : task[r].pc # "idle" ~> task[r].pc = "idle"

\* An entry whose whole day fits between two borders of pages is on the page
\* between them and on no other, in whatever order each list returns the entries
\* of one day; that page is shown unless it has an unreadable row.
DaysKeepTheirPage ==
  LET found == Matches(0, 0, None) IN
  \A size, page \in 1 .. Cardinality(Entry), e \in found, o \in Orders(found) :
    /\ (page - 1) * size <= Cardinality(LaterThan(found, e))
    /\ Cardinality(SinceDayOf(found, e)) <= page * size
    => /\ e \in Shown(o, page, size) \/ Raises(o, page, size)
       /\ \A n \in 1 .. Cardinality(Entry) : n # page => e \notin Shown(o, n, size)

\* "tecnologia nao pode ser string vazia": what a save stored can be read.
StoredIsReadable == \A e \in Stored : Readable(entries[e])

\* The fake repository of the tests filters by both ends.
ListInWindow ==
  \A since, until \in Day : \A e \in Matches(since, until, None) :
    since <= entries[e].day /\ entries[e].day <= until

\* "{o.id for o in out}.isdisjoint({o.id for o in out2})", of two pages of
\* entries of one day.
PagesAreDisjoint ==
  \A o, p \in Orders(Matches(0, 0, None)) :
    Range(Page(o, 1, 1)) \cap Range(Page(p, 2, 1)) = {}

\* An entry that was deleted stays deleted.
DeletedStaysDeleted ==
  [][\A r \in Request : \A e \in Entry \ Stored :
       entries'[e] # NoRow /\ task[r].entry = e /\ task[r].pc = "commit"
         => task[r].new]_journalVars

=============================================================================
