--------------------------- MODULE JournalProofs ----------------------------
(***************************************************************************)
(* The journal's transactions, proved for every number of requests,        *)
(* entries, tags and days.                                                 *)
(***************************************************************************)
EXTENDS Journal, FiniteSetTheorems, SequenceTheorems, TLAPS

\* Nothing is stored and nobody is at work.
LEMMA InitJournal == JournalInit => JournalInv
  BY JournalAssumption
  DEF JournalInit, JournalInv, JournalTypeOK, Work, Idle, InHand, WritersOf, InsertersOf,
      Stored, Wrote, None

\* A request that goes on with work w, of which it knows enough, and that
\* changes no table, keeps the invariant if it takes no row or tag that
\* another transaction holds.
LEMMA Going ==
  ASSUME JournalInv, NEW r \in Request, NEW w \in Work, InHand(w),
         task' = [task EXCEPT ![r] = w], UNCHANGED tables,
         w.pc \in Wrote => \/ task[r].pc \in Wrote /\ task[r].entry = w.entry
                           \/ WritersOf(w.entry) = {},
         w.inserted \cap tags = {},
         \A v \in w.inserted : v \in task[r].inserted \/ InsertersOf(v) = {}
  PROVE  JournalInv'
<1>1. UNCHANGED <<entries, links, tags>>
  BY DEF tables
<1>2. /\ task' \in [Request -> Work]
      /\ \A q \in Request : task'[q] = IF q = r THEN w ELSE task[q]
  BY DEF JournalInv, JournalTypeOK
<1>3. \A q \in Request : InHand(task[q])'
  BY <1>1, <1>2 DEF JournalInv, InHand
<1>4. \A e \in Entry : \A p, q \in WritersOf(e)' : p = q
  <2>1. \A e \in Entry : WritersOf(e)' \subseteq WritersOf(e) \cup {r}
    BY <1>2 DEF WritersOf
  <2>2. \A e \in Entry : r \in WritersOf(e)' => WritersOf(e) \subseteq {r}
    BY <1>2 DEF WritersOf, JournalInv
  <2>3. QED
    BY <2>1, <2>2 DEF JournalInv
<1>5. \A v \in Tag : \A p, q \in InsertersOf(v)' : p = q
  <2>1. \A v \in Tag : InsertersOf(v)' \subseteq InsertersOf(v) \cup {r}
    BY <1>2 DEF InsertersOf
  <2>2. \A v \in Tag : r \in InsertersOf(v)' => InsertersOf(v) \subseteq {r}
    BY <1>2 DEF InsertersOf, JournalInv
  <2>3. QED
    BY <2>1, <2>2 DEF JournalInv
<1>6. \A q \in Request : task'[q].inserted \cap tags' = {}
  BY <1>1, <1>2 DEF JournalInv
<1>7. QED
  BY <1>1, <1>2, <1>3, <1>4, <1>5, <1>6 DEF JournalInv, JournalTypeOK, Stored

\* A request that ends without changing a table does.
LEMMA Ending ==
  ASSUME JournalInv, NEW r \in Request, Close(r), UNCHANGED tables
  PROVE  JournalInv'
<1>1. Idle \in Work /\ InHand(Idle) /\ Idle.pc \notin Wrote /\ Idle.inserted = {}
  BY JournalAssumption DEF Idle, Work, InHand, Wrote, None
<1>2. QED
  BY <1>1, Going DEF Close

\* The steps of a save, of a deletion and of a failure.
LEMMA StepJournal == JournalInv /\ JournalNext => JournalInv'
<1> SUFFICES ASSUME JournalInv, NEW r \in Request,
                    \/ RequestStep(r) \/ Fail(r)
                    \/ \E e \in Entry :
                         \/ DeleteLoad(r, e)
                         \/ \E wanted \in SUBSET Tag : Create(r, e, wanted) \/ Update(r, e, wanted)
             PROVE  JournalInv'
  BY DEF JournalNext
<1>1. task[r] \in Work /\ InHand(task[r]) /\ task \in [Request -> Work]
  BY DEF JournalInv, JournalTypeOK
<1>2. ASSUME Merge(r) PROVE JournalInv'
  <2>1. PICK found \in BOOLEAN :
          /\ task' = [task EXCEPT ![r] = [task[r] EXCEPT !.pc = "flush", !.found = found]]
          /\ UNCHANGED tables
    <3>1. (task[r].entry \in Stored) \in BOOLEAN
      OBVIOUS
    <3>2. QED
      BY <1>2, <3>1, Zenon DEF Merge
  <2> DEFINE w == [task[r] EXCEPT !.pc = "flush", !.found = found]
  <2>2. w \in Work /\ InHand(w) /\ w.pc \notin Wrote /\ w.inserted = {}
    BY <1>1, <1>2 DEF Merge, Work, InHand, Wrote
  <2>3. QED
    BY <2>1, <2>2, Going
<1>3. ASSUME Flush(r) PROVE JournalInv'
  <2> DEFINE w == [task[r] EXCEPT !.pc = "selectTags"]
  <2>1. CASE task' = [task EXCEPT ![r] = w]
    <3>1. w \in Work /\ InHand(w) /\ w.entry = task[r].entry /\ w.inserted = {}
      BY <1>1, <1>3 DEF Flush, Work, InHand
    <3>2. QED
      BY <1>3, <2>1, <3>1, Going DEF Flush
  <2>2. CASE Close(r)
    BY <1>3, <2>2, Ending DEF Flush
  <2>3. QED
    BY <1>1, <1>3, <2>1, <2>2 DEF Flush, Goto
<1>4. ASSUME SelectTags(r) PROVE JournalInv'
  <2> DEFINE missing == task[r].wanted \ tags
             w == [task[r] EXCEPT !.todo = missing,
                                  !.pc = IF missing = {} THEN "commit" ELSE "insertTag"]
  <2>1. task' = [task EXCEPT ![r] = w] /\ UNCHANGED tables
    BY <1>4 DEF SelectTags
  <2>2. w \in Work /\ InHand(w) /\ w.entry = task[r].entry /\ w.inserted = {}
    BY <1>1, <1>4 DEF SelectTags, Work, InHand
  <2>3. task[r].pc \in Wrote
    BY <1>4 DEF SelectTags, Wrote
  <2>4. QED
    BY <2>1, <2>2, <2>3, Going
<1>5. ASSUME InsertTag(r) PROVE JournalInv'
  <2>1. PICK v \in task[r].todo :
          /\ InsertersOf(v) = {}
          /\ IF v \notin tags THEN task' = [task EXCEPT ![r] = Inserted(task[r], v)]
                              ELSE Close(r)
    BY <1>1, <1>5 DEF InsertTag
  <2>2. CASE v \notin tags
    <3> DEFINE w == Inserted(task[r], v)
    <3>1. /\ w \in Work /\ w.entry = task[r].entry
          /\ w.inserted = task[r].inserted \cup {v}
      BY <1>1, <1>5 DEF Inserted, Work
    <3>2. InHand(w)
      <4>1. w.todo = task[r].todo \ {v} /\ w.wanted = task[r].wanted
        BY <1>1 DEF Inserted, Work
      <4>2. w.pc = IF task[r].todo = {v} THEN "commit" ELSE "insertTag"
        BY <1>1 DEF Inserted, Work
      <4>3. (w.pc = "insertTag" <=> w.todo # {}) /\ w.pc \in {"insertTag", "commit"}
        BY <2>1, <4>1, <4>2
      <4>4. task[r].pc = "insertTag"
        BY <1>5 DEF InsertTag
      <4>5. w.entry \in Entry
        BY <1>1, <3>1, <4>4 DEF InHand
      <4>6. w.wanted \subseteq tags \cup w.inserted \cup w.todo
        BY <1>1, <3>1, <4>1, <4>4 DEF InHand
      <4>7. QED
        BY <4>3, <4>5, <4>6 DEF InHand
    <3>3. task[r].pc \in Wrote
      BY <1>5 DEF InsertTag, Wrote
    <3>4. task[r].inserted \cap tags = {}
      BY DEF JournalInv
    <3>5. QED
      BY <1>5, <2>1, <2>2, <3>1, <3>2, <3>3, <3>4, Going DEF InsertTag
  <2>3. CASE v \in tags
    BY <1>5, <2>1, <2>3, Ending DEF InsertTag
  <2>4. QED
    BY <2>2, <2>3
<1>6. ASSUME Commit(r) PROVE JournalInv'
  <2> DEFINE e == task[r].entry
  <2>1. e \in Entry /\ task[r].todo = {} /\ r \in WritersOf(e)
        /\ task[r].wanted \subseteq tags \cup task[r].inserted
        /\ task[r].wanted \subseteq Tag /\ task[r].inserted \subseteq Tag
    BY <1>1, <1>6 DEF Commit, InHand, Work, WritersOf, Wrote
  <2>2. PICK row \in Row : entries' = [entries EXCEPT ![e] = row]
    BY <1>6 DEF Commit
  <2>3. /\ task' \in [Request -> Work]
        /\ \A q \in Request : task'[q] = IF q = r THEN Idle ELSE task[q]
    BY <1>1, <1>6, JournalAssumption DEF Commit, Close, Idle, Work, None
  <2>4. JournalTypeOK'
    BY <1>6, <2>1, <2>2, <2>3 DEF Commit, JournalInv, JournalTypeOK
  <2>5. tags' = tags \cup task[r].inserted /\ links' = [links EXCEPT ![e] = task[r].wanted]
    BY <1>6 DEF Commit
  <2>6. \A q \in Request : InHand(task[q])'
    <3>1. InHand(Idle)'
      BY JournalAssumption DEF Idle, InHand, None
    <3>2. \A q \in Request \ {r} : InHand(task[q])'
      BY <2>3, <2>5 DEF JournalInv, InHand
    <3>3. QED
      BY <2>3, <3>1, <3>2 DEF InHand
  <2>7. \A f \in Entry : WritersOf(f)' \subseteq WritersOf(f)
    BY <2>3 DEF WritersOf, Idle, Wrote
  <2>8. \A v \in Tag : InsertersOf(v)' \subseteq InsertersOf(v)
    BY <2>3 DEF InsertersOf, Idle
  <2>9. \A q \in Request : task'[q].inserted \cap tags' = {}
    <3>1. \A q \in Request \ {r} : task[q].inserted \cap task[r].inserted = {}
      BY <1>1 DEF JournalInv, JournalTypeOK, InsertersOf, Work
    <3>2. QED
      BY <2>3, <2>5, <3>1 DEF JournalInv, Idle
  <2>10. \A f \in Entry : links'[f] \subseteq tags' /\ (f \notin Stored' => links'[f] = {})
    <3>1. \A f \in Entry : links'[f] = IF f = e THEN task[r].wanted ELSE links[f]
      BY <2>5 DEF JournalInv, JournalTypeOK
    <3>2. \A f \in Entry : f \notin Stored' => f # e /\ f \notin Stored
      BY <2>1, <2>2 DEF Stored, JournalInv, JournalTypeOK, Row, NoRow, Day
    <3>3. QED
      BY <2>1, <2>5, <3>1, <3>2 DEF JournalInv
  <2>11. QED
    BY <2>4, <2>6, <2>7, <2>8, <2>9, <2>10 DEF JournalInv
<1>7. ASSUME Delete(r) PROVE JournalInv'
  <2> DEFINE e == task[r].entry
  <2>1. /\ entries' = [entries EXCEPT ![e] = NoRow]
        /\ links' = [links EXCEPT ![e] = {}] /\ tags' = tags
    BY <1>7 DEF Delete
  <2>2. /\ task' \in [Request -> Work]
        /\ \A q \in Request : task'[q] = IF q = r THEN Idle ELSE task[q]
    BY <1>1, <1>7, JournalAssumption DEF Delete, Close, Idle, Work, None
  <2>3. JournalTypeOK'
    BY <2>1, <2>2 DEF JournalInv, JournalTypeOK
  <2>4. \A q \in Request : InHand(task[q])'
    BY <2>1, <2>2, JournalAssumption DEF JournalInv, InHand, Idle, None
  <2>5. /\ \A f \in Entry : WritersOf(f)' \subseteq WritersOf(f)
        /\ \A v \in Tag : InsertersOf(v)' \subseteq InsertersOf(v)
    BY <2>2 DEF WritersOf, InsertersOf, Idle, Wrote
  <2>6. \A q \in Request : task'[q].inserted \cap tags' = {}
    BY <2>1, <2>2 DEF JournalInv, Idle
  <2>7. \A f \in Entry : links'[f] \subseteq tags' /\ (f \notin Stored' => links'[f] = {})
    BY <2>1 DEF JournalInv, JournalTypeOK, Stored
  <2>8. QED
    BY <2>3, <2>4, <2>5, <2>6, <2>7 DEF JournalInv
<1>8. ASSUME Deadlock(r) \/ Fail(r) PROVE JournalInv'
  BY <1>8, Ending DEF Deadlock, Fail
<1>9. ASSUME NEW e \in Entry, NEW wanted \in SUBSET Tag,
             Create(r, e, wanted) \/ Update(r, e, wanted) \/ DeleteLoad(r, e)
      PROVE JournalInv'
  <2>1. PICK w \in Work : /\ task' = [task EXCEPT ![r] = w] /\ UNCHANGED tables
                          /\ w.pc \in {"merge", "delete"} /\ w.entry = e
                          /\ w.todo = task[r].todo /\ w.inserted = task[r].inserted
    <3>1. CASE Create(r, e, wanted)
      <4> DEFINE w == [task[r] EXCEPT !.pc = "merge", !.new = TRUE, !.entry = e, !.wanted = wanted]
      <4>1. w \in Work
        BY <1>1 DEF Work
      <4>2. QED
        BY <1>1, <3>1, <4>1 DEF Create, Work
    <3>2. CASE Update(r, e, wanted)
      <4> DEFINE w == [task[r] EXCEPT !.pc = "merge", !.entry = e, !.wanted = wanted]
      <4>1. w \in Work
        BY <1>1 DEF Work
      <4>2. QED
        BY <1>1, <3>2, <4>1 DEF Update, Work
    <3>3. CASE DeleteLoad(r, e)
      <4> DEFINE w == [task[r] EXCEPT !.pc = "delete", !.entry = e]
      <4>1. w \in Work
        BY <1>1 DEF Work
      <4>2. QED
        BY <1>1, <3>3, <4>1 DEF DeleteLoad, Work
    <3>4. QED
      BY <1>9, <3>1, <3>2, <3>3
  <2>2. task[r].todo = {} /\ task[r].inserted = {}
    BY <1>1, <1>9 DEF Create, Update, DeleteLoad, InHand
  <2>3. InHand(w) /\ w.pc \notin Wrote
    BY <2>1, <2>2 DEF InHand, Wrote
  <2>4. QED
    BY <2>1, <2>2, <2>3, Going
<1>10. QED
  BY <1>2, <1>3, <1>4, <1>5, <1>6, <1>7, <1>8, <1>9 DEF RequestStep

\* However saves and deletions overlap and fail, a row or a tag is written by
\* one transaction at a time, a tag is inserted once, and links lead from
\* entries that are there to tags that are there.
THEOREM JournalCorrect == JournalSpec => []JournalInv
<1>1. JournalInv /\ UNCHANGED journalVars => JournalInv'
  BY DEF journalVars, JournalInv, JournalTypeOK, InHand, WritersOf, InsertersOf, Stored
<1>2. QED
  BY InitJournal, StepJournal, <1>1, PTL DEF JournalSpec

(***************************************************************************)
(* The list of entries, page by page.                                      *)
(***************************************************************************)

\* What an order of the list is: every entry found has one place in it, and no
\* later one is of a later day.
LEMMA OrderOfList ==
  ASSUME NEW found \in SUBSET Entry, NEW o \in Orders(found)
  PROVE  LET N == Cardinality(found) IN
         /\ N \in Nat /\ IsFiniteSet(found) /\ N <= Cardinality(Entry)
         /\ Cardinality(Entry) \in Nat
         /\ o \in [1 .. N -> found]
         /\ \A i, k \in 1 .. N : o[i] = o[k] => i = k
         /\ \A e \in found : \E i \in 1 .. N : o[i] = e
         /\ \A i, k \in 1 .. N : i < k => entries[o[i]].day >= entries[o[k]].day
<1> DEFINE N == Cardinality(found)
<1>1. /\ N \in Nat /\ IsFiniteSet(found) /\ N <= Cardinality(Entry)
      /\ Cardinality(Entry) \in Nat
  BY JournalAssumption, FS_Subset, FS_CardinalityType
<1>2. o \in [1 .. N -> found] /\ IsInjective(o)
  BY DEF Orders
<1>3. \A i, k \in 1 .. N : o[i] = o[k] => i = k
  BY <1>2 DEF IsInjective
<1>4. \A i, k \in 1 .. N : i < k => entries[o[i]].day >= entries[o[k]].day
  BY <1>2 DEF Orders
<1>5. o \in Injection(1 .. N, found)
  BY <1>2, <1>3 DEF Injection, IsInjective
<1>6. IsFiniteSet(1 .. N) /\ Cardinality(1 .. N) = N
  BY <1>1, FS_Interval
<1>7. o \in Surjection(1 .. N, found)
  BY <1>1, <1>5, <1>6, FS_Injection
<1>8. \A e \in found : \E i \in 1 .. N : o[i] = e
  BY <1>7 DEF Surjection
<1>9. QED
  BY <1>1, <1>2, <1>3, <1>4, <1>8

\* In whatever order the query returns the entries of one day, an entry comes
\* after all those of later days, and no later than the last one of its day.
LEMMA PlaceInList ==
  ASSUME JournalTypeOK, NEW found \in SUBSET Entry, NEW o \in Orders(found),
         NEW i \in 1 .. Cardinality(found)
  PROVE  /\ Cardinality(LaterThan(found, o[i])) \in Nat
         /\ Cardinality(SinceDayOf(found, o[i])) \in Nat
         /\ Cardinality(LaterThan(found, o[i])) < i
         /\ i <= Cardinality(SinceDayOf(found, o[i]))
<1> DEFINE N == Cardinality(found)
           later == LaterThan(found, o[i])
           sinceDay == SinceDayOf(found, o[i])
<1>1. /\ N \in Nat /\ o \in [1 .. N -> found] /\ IsFiniteSet(found)
      /\ \A m, k \in 1 .. N : o[m] = o[k] => m = k
      /\ \A e \in found : \E m \in 1 .. N : o[m] = e
      /\ \A m, k \in 1 .. N : m < k => entries[o[m]].day >= entries[o[k]].day
  BY OrderOfList
<1>2. \A e \in found : entries[e].day \in Nat
  BY JournalAssumption DEF JournalTypeOK, Row, NoRow, Day
<1>3. i \in Nat /\ 1 .. i \subseteq 1 .. N
  BY <1>1
<1>4. later \subseteq found /\ sinceDay \subseteq found
  BY DEF LaterThan, SinceDayOf
<1>5. /\ IsFiniteSet(later) /\ IsFiniteSet(sinceDay)
      /\ Cardinality(later) \in Nat /\ Cardinality(sinceDay) \in Nat
  BY <1>1, <1>4, FS_Subset, FS_CardinalityType
<1>6. i <= Cardinality(sinceDay)
  <2> DEFINE first == [k \in 1 .. i |-> o[k]]
  <2>1. ASSUME NEW k \in 1 .. i
        PROVE  o[k] \in sinceDay
    <3>1. o[k] \in found /\ o[i] \in found /\ (k = i \/ k < i)
      BY <1>1, <1>3
    <3>2. entries[o[k]].day >= entries[o[i]].day
      BY <1>1, <1>2, <1>3, <3>1
    <3>3. QED
      BY <3>1, <3>2 DEF SinceDayOf
  <2>2. first \in Injection(1 .. i, sinceDay)
    BY <1>1, <1>3, <2>1 DEF Injection, IsInjective
  <2>3. Cardinality(1 .. i) = i
    BY <1>3, FS_Interval
  <2> HIDE DEF first, sinceDay
  <2>4. QED
    BY <1>5, <2>2, <2>3, FS_Injection
<1>7. Cardinality(later) < i
  <2> DEFINE place == [d \in later |-> CHOOSE m \in 1 .. N : o[m] = d]
  <2>1. ASSUME NEW d \in later
        PROVE  place[d] \in 1 .. i - 1 /\ o[place[d]] = d
    <3>1. place[d] \in 1 .. N /\ o[place[d]] = d
      BY <1>1, <1>4
    <3>2. entries[d].day > entries[o[i]].day /\ d \in found /\ o[i] \in found
      BY <1>1 DEF LaterThan
    <3> HIDE DEF place
    <3>3. place[d] < i
      <4>1. SUFFICES ASSUME i < place[d] \/ i = place[d] PROVE FALSE
        BY <1>1, <1>3, <3>1
      <4>2. entries[o[i]].day >= entries[d].day
        BY <1>1, <1>2, <3>1, <3>2, <4>1
      <4>3. QED
        BY <1>2, <3>2, <4>2
    <3>4. QED
      BY <1>1, <1>3, <3>1, <3>3
  <2>2. place \in Injection(later, 1 .. i - 1)
    BY <2>1 DEF Injection, IsInjective
  <2>3. IsFiniteSet(1 .. i - 1) /\ Cardinality(1 .. i - 1) = i - 1
    <3>1. i - 1 \in Int /\ 1 \in Int /\ i >= 1
      BY <1>1
    <3>2. QED
      BY <3>1, FS_Interval
  <2> HIDE DEF place, later
  <2>4. Cardinality(later) <= i - 1
    BY <2>2, <2>3, FS_Injection
  <2>5. QED
    BY <1>3, <1>5, <2>4
<1>8. QED
  BY <1>5, <1>6, <1>7

\* What is on a page.
LEMMA OnPage ==
  ASSUME NEW found \in SUBSET Entry, NEW o \in Orders(found),
         NEW page \in Nat \ {0}, NEW size \in Nat \ {0}
  PROVE  Range(Page(o, page, size)) =
           {o[j] : j \in {j \in 1 .. Cardinality(found) :
                            (page - 1) * size < j /\ j <= page * size}}
<1> DEFINE N == Cardinality(found)
           start == Offset(page, size)
           end == IF start + size < N THEN start + size ELSE N
           places == {j \in 1 .. N : (page - 1) * size < j /\ j <= page * size}
<1>1. N \in Nat /\ o \in [1 .. N -> found]
  BY OrderOfList
<1>2. Len(o) = N
  BY <1>1
<1>3. /\ start = (page - 1) * size /\ start + size = page * size
      /\ start \in Nat /\ end \in Nat /\ end <= N
  BY <1>1 DEF Offset
<1>4. places = start + 1 .. end
  BY <1>1, <1>3
<1> DEFINE s == SubSeq(o, start + 1, end)
<1>5. Page(o, page, size) = s
  BY <1>2 DEF Page
<1>6. /\ s \in Seq(found)
      /\ Len(s) = IF start + 1 <= end THEN end - (start + 1) + 1 ELSE 0
      /\ \A i \in 1 .. end - (start + 1) + 1 : s[i] = o[start + 1 + i - 1]
  <2>1. \A i \in start + 1 .. end : o[i] \in found
    BY <1>1, <1>3
  <2>2. start + 1 \in Int /\ end \in Int
    BY <1>3
  <2> HIDE DEF start, end
  <2>3. QED
    BY <2>1, <2>2, SubSeqProperties
<1>7. DOMAIN s = 1 .. Len(s)
  BY <1>6
<1> HIDE DEF s, start, end, places
<1>8. \A i \in DOMAIN s : start + i \in start + 1 .. end /\ s[i] = o[start + i]
  BY <1>3, <1>6, <1>7
<1>9. \A j \in start + 1 .. end : j - start \in DOMAIN s /\ s[j - start] = o[j]
  BY <1>3, <1>6, <1>7
<1>10. Range(s) = {o[j] : j \in start + 1 .. end}
  BY <1>8, <1>9 DEF Range
<1>11. QED
  BY <1>4, <1>5, <1>10 DEF places

\* Pages have no place in common.
LEMMA PlacesOfPages ==
  ASSUME NEW size \in Nat \ {0}, NEW j \in Nat \ {0}
  PROVE  \A i, k \in Nat \ {0} :
           /\ (i - 1) * size < j /\ j <= i * size
           /\ (k - 1) * size < j /\ j <= k * size
           => i = k
<1>1. ASSUME NEW i \in Nat \ {0}, NEW k \in Nat \ {0}, i < k, (k - 1) * size < j
      PROVE  ~(j <= i * size)
  <2>1. i <= k - 1 /\ k - 1 \in Nat
    BY <1>1
  <2>2. i * size <= (k - 1) * size
    BY <2>1
  <2>3. QED
    BY <1>1, <2>2
<1>2. QED
  BY <1>1

\* In a list read page by page, each page in an order of its own, an entry
\* whose day fits between two borders is on the page between them and on no
\* other; the page is shown if all its rows can be read.
THEOREM DaysStayTogether == JournalSpec => []DaysKeepTheirPage
<1>1. JournalInv => DaysKeepTheirPage
  <2> DEFINE found == Matches(0, 0, None)
             N == Cardinality(found)
             At(page, size) == {j \in 1 .. N : (page - 1) * size < j /\ j <= page * size}
  <2>1. found \in SUBSET Entry
    BY DEF Matches, Stored
  <2> SUFFICES ASSUME JournalTypeOK,
                      NEW size \in 1 .. Cardinality(Entry),
                      NEW page \in 1 .. Cardinality(Entry),
                      NEW e \in found, NEW o \in Orders(found),
                      (page - 1) * size <= Cardinality(LaterThan(found, e)),
                      Cardinality(SinceDayOf(found, e)) <= page * size
               PROVE  /\ e \in Shown(o, page, size) \/ Raises(o, page, size)
                      /\ \A n \in 1 .. Cardinality(Entry) : n # page => e \notin Shown(o, n, size)
    BY DEF DaysKeepTheirPage, JournalInv
  <2> HIDE DEF found
  <2>2. /\ N \in Nat /\ Cardinality(Entry) \in Nat
        /\ \A d \in found : \E j \in 1 .. N : o[j] = d
        /\ \A j, k \in 1 .. N : o[j] = o[k] => j = k
    BY <2>1, OrderOfList
  <2>3. size \in Nat \ {0} /\ \A n \in 1 .. Cardinality(Entry) : n \in Nat \ {0}
    BY <2>2
  <2>4. \A n \in 1 .. Cardinality(Entry) :
          Range(Page(o, n, size)) = {o[j] : j \in At(n, size)}
    BY <2>1, <2>3, OnPage
  <2>5. PICK i \in 1 .. N : o[i] = e
    BY <2>2
  <2>6. i \in At(page, size)
    <3>1. /\ Cardinality(LaterThan(found, e)) \in Nat
          /\ Cardinality(SinceDayOf(found, e)) \in Nat
          /\ Cardinality(LaterThan(found, e)) < i
          /\ i <= Cardinality(SinceDayOf(found, e))
      BY <2>1, <2>5, PlaceInList
    <3>2. (page - 1) * size \in Nat /\ page * size \in Nat
      BY <2>3
    <3>3. (page - 1) * size < i /\ i <= page * size
      BY <2>2, <3>1, <3>2
    <3>4. QED
      BY <3>3
  <2>7. e \in Range(Page(o, page, size))
    BY <2>4, <2>5, <2>6
  <2>8. ASSUME NEW n \in 1 .. Cardinality(Entry), n # page, e \in Range(Page(o, n, size))
        PROVE  FALSE
    <3>1. PICK j \in At(n, size) : e = o[j]
      BY <2>4, <2>8
    <3>2. j = i
      BY <2>2, <2>5, <3>1
    <3>3. /\ i \in Nat \ {0} /\ (n - 1) * size < i /\ i <= n * size
          /\ (page - 1) * size < i /\ i <= page * size
      BY <2>2, <2>6, <3>1, <3>2
    <3>4. QED
      BY <2>3, <2>8, <3>3, PlacesOfPages
  <2>9. QED
    BY <2>7, <2>8 DEF Shown
<1>2. QED
  BY <1>1, JournalCorrect, PTL

=============================================================================
