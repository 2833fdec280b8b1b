----------------------------- MODULE NewsProofs -----------------------------
(***************************************************************************)
(* The jobs of the news, proved for every number of jobs, stories, sources *)
(* and drafts, and for every answer of a source.                           *)
(***************************************************************************)
EXTENDS News, FiniteSetTheorems, FunctionTheorems, TLAPS

(***************************************************************************)
(* What the fetchers return.                                               *)
(***************************************************************************)

\* Counting up through a finite set of numbers reaches every count.
LEMMA Counting ==
  ASSUME NEW K \in SUBSET Nat, IsFiniteSet(K), NEW n \in 1 .. Cardinality(K)
  PROVE  \E i \in K : Cardinality({k \in K : k <= i}) = n
<1> DEFINE UpTo(i) == {k \in K : k <= i}
           size == Cardinality(K)
           rank == [i \in K |-> Cardinality(UpTo(i))]
<1>1. size \in Nat
  BY FS_CardinalityType
<1>2. ASSUME NEW i \in K
      PROVE  /\ IsFiniteSet(UpTo(i)) /\ Cardinality(UpTo(i)) \in 1 .. size
  <2>1. UpTo(i) \in SUBSET K /\ i \in UpTo(i)
    OBVIOUS
  <2>2. IsFiniteSet(UpTo(i)) /\ Cardinality(UpTo(i)) <= size
    BY <2>1, FS_Subset
  <2>3. Cardinality(UpTo(i)) \in Nat /\ Cardinality(UpTo(i)) # 0
    BY <2>1, <2>2, FS_CardinalityType, FS_EmptySet
  <2>4. QED
    BY <1>1, <2>2, <2>3
<1>3. ASSUME NEW i \in K, NEW k \in K, i < k
      PROVE  Cardinality(UpTo(i)) # Cardinality(UpTo(k))
  <2>1. UpTo(i) \in SUBSET UpTo(k) /\ k \in UpTo(k) /\ k \notin UpTo(i)
    <3>1. i \in Nat /\ k \in Nat /\ K \subseteq Nat
      OBVIOUS
    <3>2. \A m \in Nat : m <= i => m <= k
      BY <1>3, <3>1
    <3>3. k <= k /\ ~(k <= i)
      BY <1>3, <3>1
    <3>4. QED
      BY <3>1, <3>2, <3>3
  <2>2. IsFiniteSet(UpTo(k))
    BY <1>2
  <2>3. QED
    BY <2>1, <2>2, FS_Subset
<1>4. rank \in [K -> 1 .. size]
  BY <1>2
<1>5. \A i, k \in K : rank[i] = rank[k] => i = k
  BY <1>3
<1>6. rank \in Injection(K, 1 .. size)
  BY <1>4, <1>5, Fun_IsInj
<1>7. IsFiniteSet(1 .. size) /\ Cardinality(1 .. size) = size
  BY <1>1, FS_Interval
<1>8. rank \in Surjection(K, 1 .. size)
  BY <1>6, <1>7, FS_Injection
<1>9. \A f \in Surjection(K, 1 .. size) : \E i \in K : f[i] = n
  BY DEF Surjection
<1>10. PICK i \in K : rank[i] = n
  BY <1>8, <1>9
<1>11. QED
  BY <1>10

\* What is left of an answer are entries of the answer.
LEMMA WithoutIsOfAnswer ==
  ASSUME NEW S, NEW n \in Nat, NEW entries \in [1 .. n -> S], NEW flaws
  PROVE  Without(entries, flaws) \in Seq(S)
<1> DEFINE kept == {i \in 1 .. n : entries[i].flaw \notin flaws}
           Rank(i) == Cardinality({k \in kept : k <= i})
           At(m) == CHOOSE i \in kept : Rank(i) = m
<1>1. kept \in SUBSET (1 .. n) /\ kept \in SUBSET Nat
  OBVIOUS
<1>2. IsFiniteSet(kept) /\ Cardinality(kept) \in Nat
  <2>1. IsFiniteSet(1 .. n)
    BY FS_Interval
  <2>2. IsFiniteSet(kept)
    BY <1>1, <2>1, FS_Subset
  <2>3. QED
    BY <2>2, FS_CardinalityType
<1>3. ASSUME NEW m \in 1 .. Cardinality(kept)
      PROVE  entries[At(m)] \in S
  <2>1. \E i \in kept : Rank(i) = m
    BY <1>1, <1>2, Counting
  <2>2. At(m) \in kept
    BY <2>1
  <2>3. QED
    BY <1>1, <2>2
<1>4. Len(entries) = n
  OBVIOUS
<1>5. Without(entries, flaws) = [m \in 1 .. Cardinality(kept) |-> entries[At(m)]]
  BY <1>4 DEF Without
<1>6. Without(entries, flaws) \in [1 .. Cardinality(kept) -> S]
  BY <1>3, <1>5
<1>7. \A c \in Nat : [1 .. c -> S] \subseteq Seq(S)
  OBVIOUS
<1>8. QED
  BY <1>2, <1>6, <1>7

\* Whatever a source answers, the fetcher returns items.
LEMMA FetchedAreItems ==
  ASSUME NewsTypeOK, NEW kind \in Kind, NEW sample \in Nat,
         NEW entries \in Answers({s \in Story : published[s] # Missing}, kind, sample)
  PROVE  ItemsOf(kind, entries, published, now) \in Seq(Item)
<1> DEFINE S == [story : {s \in Story : published[s] # Missing}, flaw : Flaw(kind)]
<1>1. PICK n \in 0 .. sample : entries \in [1 .. n -> S]
  BY DEF Answers
<1>2. ASSUME NEW flaws
      PROVE  Without(entries, flaws) \in Seq(S)
  <2>1. n \in Nat
    OBVIOUS
  <2> HIDE DEF S
  <2>2. QED
    BY <1>1, <2>1, WithoutIsOfAnswer
<1>3. ASSUME NEW entry \in S, NEW blank
      PROVE  FetchedItem(entry, blank, published, now) \in Item
  <2>1. entry.story \in Story /\ now \in Time /\ published[entry.story] \in Time
    BY DEF NewsTypeOK
  <2>2. (entry.flaw \notin blank) \in BOOLEAN
    OBVIOUS
  <2>3. ParseDate(entry, published, now) \in Time
    BY <2>1 DEF ParseDate
  <2>4. QED
    BY <2>1, <2>2, <2>3 DEF FetchedItem, Item
<1>4. ASSUME NEW some \in Seq(S), NEW blank
      PROVE  FetchedItems(some, blank, published, now) \in Seq(Item)
  <2>1. Len(some) \in Nat /\ \A i \in 1 .. Len(some) : some[i] \in S
    <3> HIDE DEF S
    <3>1. QED
      OBVIOUS
  <2>2. FetchedItems(some, blank, published, now) \in [1 .. Len(some) -> Item]
    BY <1>3, <2>1 DEF FetchedItems
  <2>3. \A m \in Nat : [1 .. m -> Item] \subseteq Seq(Item)
    OBVIOUS
  <2>4. QED
    BY <2>1, <2>2, <2>3
<1>5. <<>> \in Seq(Item)
  OBVIOUS
<1>6. QED
  BY <1>2, <1>4, <1>5 DEF ItemsOf, RssItems, HackerNewsItems, GitHubItems, Kind

(***************************************************************************)
(* What a job and a draft are right about.                                 *)
(***************************************************************************)

AtWork(work) ==
  /\ InHand(work)
  /\ work.pc \in {"agent", "draftSave"} =>
       \A s \in work.selected \ work.ahead : rows[work.tenant][s] <= work.asOf

Dated(draft) ==
  /\ draft.asOf <= now
  /\ \A s \in draft.stories :
       /\ rows[draft.tenant][s] # Missing
       /\ rows[draft.tenant][s] + Window >= draft.asOf
       /\ s \notin draft.ahead => rows[draft.tenant][s] <= draft.asOf

\* What is stored is there to stay as it is, and time goes on.
Grown ==
  /\ now <= now'
  /\ \A t \in Tenant, s \in Story : rows[t][s] # Missing => rows'[t][s] = rows[t][s]
  /\ \A d \in Stored : drafts'[d] = drafts[d]
  /\ requests \subseteq requests'

LEMMA KeptAtWork ==
  ASSUME NewsTypeOK, NewsTypeOK', Grown, NEW w \in Work, AtWork(w)
  PROVE  AtWork(w)'
<1>0. now \in Nat /\ now' \in Nat /\ now <= now'
  BY NewsAssumption DEF NewsTypeOK, Time, Grown
<1>1. Stored \subseteq Stored' /\ \A d \in Stored : drafts'[d] = drafts[d]
  BY DEF Grown, Stored
<1>3. ASSUME w.pc \in {"agent", "draftSave"}
      PROVE  /\ w.asOf <= now'
             /\ \A s \in w.selected :
                  /\ rows'[w.tenant][s] # Missing
                  /\ rows'[w.tenant][s] + Window >= w.asOf
                  /\ s \notin w.ahead => rows'[w.tenant][s] <= w.asOf
  <2>1. w.tenant \in Tenant /\ w.selected \subseteq Story /\ w.asOf \in Nat
    BY <1>3, NewsAssumption DEF AtWork, InHand, Work, Time
  <2>2. \A s \in w.selected : rows'[w.tenant][s] = rows[w.tenant][s]
    BY <1>3, <2>1 DEF AtWork, InHand, Grown
  <2>3. w.asOf <= now'
    BY <1>0, <1>3, <2>1 DEF AtWork, InHand
  <2>4. QED
    BY <1>3, <2>2, <2>3 DEF AtWork, InHand
<1>4. w.pc \in {"requestSave", "buttons"}
        => w.draft \in Stored' /\ drafts'[w.draft].tenant = w.tenant
  BY <1>1 DEF AtWork, InHand
<1>5. w.pc = "buttons" => w.draft \in requests' /\ Admits(w.tenant, DiscordTenant)
  BY DEF AtWork, InHand, Grown
<1>6. /\ w.pc # "idle" => w.tenant \in Tenant
      /\ w.pc = "save" => w.items # <<>>
      /\ w.draft # None <=> w.pc \in {"requestSave", "buttons"}
  BY DEF AtWork, InHand
<1>7. InHand(w)'
  BY <1>3, <1>4, <1>5, <1>6 DEF InHand
<1>8. QED
  BY <1>3, <1>7 DEF AtWork

LEMMA KeptDated ==
  ASSUME NewsTypeOK, NewsTypeOK', Grown, NEW draft \in Draft, Dated(draft)
  PROVE  Dated(draft)'
<1>0. now \in Nat /\ now' \in Nat /\ now <= now' /\ draft.asOf \in Nat
  BY NewsAssumption DEF NewsTypeOK, Time, Grown, Draft
<1>1. draft.tenant \in Tenant /\ draft.stories \subseteq Story
  BY DEF Draft
<1>2. \A s \in draft.stories : rows'[draft.tenant][s] = rows[draft.tenant][s]
  BY <1>1 DEF Dated, Grown
<1>3. draft.asOf <= now'
  BY <1>0 DEF Dated
<1>4. QED
  BY <1>2, <1>3 DEF Dated

\* What the two invariants come to.
LEMMA InvParts ==
  ASSUME NewsInv, DigestInv
  PROVE  /\ NewsTypeOK /\ ButtonsAreBacked
         /\ \A j \in Job : task[j] \in Work /\ AtWork(task[j])
         /\ \A d \in Stored : drafts[d] \in Draft /\ Dated(drafts[d])
         /\ now \in Nat /\ MaxTime \in Nat /\ Window \in Nat
<1>1. \A j \in Job : task[j] \in Work /\ AtWork(task[j])
  BY DEF NewsInv, DigestInv, AtWork, NewsTypeOK
<1>2. \A d \in Stored : drafts[d] \in Draft
  BY DEF NewsInv, NewsTypeOK, Stored
<1>3. \A d \in Stored : Dated(drafts[d])
  BY DEF NewsInv, DigestInv, Dated
<1>4. now \in Nat /\ MaxTime \in Nat /\ Window \in Nat
  BY NewsAssumption DEF NewsInv, NewsTypeOK, Time
<1>5. QED
  BY <1>1, <1>2, <1>3, <1>4 DEF NewsInv

\* A step keeps them if what it makes a job or a draft is right.
LEMMA Going ==
  ASSUME NewsInv, DigestInv, NewsTypeOK', Grown, ButtonsAreBacked',
         \A j \in Job : task'[j] = task[j] \/ AtWork(task[j])',
         \A d \in DraftId : drafts'[d] = drafts[d] \/ Dated(drafts[d])'
  PROVE  NewsInv' /\ DigestInv'
<1>1. \A j \in Job : AtWork(task[j])'
  <2>1. SUFFICES ASSUME NEW j \in Job, task'[j] = task[j]
                 PROVE  AtWork(task[j])'
    OBVIOUS
  <2>2. \A w \in Work : AtWork(w) => AtWork(w)'
    BY KeptAtWork, InvParts
  <2>3. task[j] \in Work /\ AtWork(task[j])
    BY InvParts
  <2>4. QED
    BY <2>1, <2>2, <2>3 DEF AtWork, InHand, Stored
<1>2. \A d \in Stored' : Dated(drafts[d])'
  <2>1. SUFFICES ASSUME NEW d \in Stored', drafts'[d] = drafts[d]
                 PROVE  Dated(drafts[d])'
    BY DEF Stored
  <2>2. \A draft \in Draft : Dated(draft) => Dated(draft)'
    BY KeptDated, InvParts
  <2>3. drafts[d] \in Draft /\ Dated(drafts[d])
    BY <2>1, InvParts DEF Stored
  <2>4. QED
    BY <2>1, <2>2, <2>3 DEF Dated
<1>3. QED
  BY <1>1, <1>2 DEF NewsInv, DigestInv, AtWork, Dated

(***************************************************************************)
(* The steps of a job.                                                     *)
(***************************************************************************)

\* A job that goes on with w and changes no table keeps them, if w is right.
LEMMA Taking ==
  ASSUME NewsInv, DigestInv, NEW j \in Job, NEW w \in Work, AtWork(w),
         task' = [task EXCEPT ![j] = w],
         UNCHANGED <<published, rows, drafts, requests, buttons, now>>,
         failures' \in 0 .. MaxFailures
  PROVE  NewsInv' /\ DigestInv'
<1>1. NewsTypeOK'
  BY DEF NewsInv, NewsTypeOK
<1>2. Grown
  BY InvParts DEF Grown
<1>3. AtWork(w)'
  BY <1>1, <1>2, KeptAtWork, InvParts
<1>4. \A i \in Job : task'[i] = task[i] \/ AtWork(task[i])'
  <2>1. \A i \in Job : task'[i] = task[i] \/ task'[i] = w
    BY DEF NewsInv, NewsTypeOK
  <2>2. QED
    BY <1>3, <2>1 DEF AtWork, InHand
<1>5. ButtonsAreBacked'
  BY InvParts DEF ButtonsAreBacked, Stored
<1>6. QED
  BY <1>1, <1>2, <1>4, <1>5, Going DEF NewsInv

LEMMA EndIsRight == Idle \in Work /\ AtWork(Idle)
<1>1. Len(Sources) \in Nat \ {0} /\ MaxTime \in Nat
  BY NewsAssumption
<1>2. Idle \in Work
  BY <1>1 DEF Idle, Work, Time
<1>3. Idle.pc = "idle" /\ Idle.draft = None
  BY DEF Idle
<1>4. QED
  BY <1>2, <1>3 DEF AtWork, InHand

\* After a source, whatever became of it.
LEMMA NextSourceIsRight ==
  ASSUME NEW work \in Work, AtWork(work), work.pc \in {"fetch", "save"}
  PROVE  NextSource(work) \in Work /\ AtWork(NextSource(work))
<1>1. Len(Sources) \in Nat
  BY NewsAssumption
<1>2. work.tenant \in Tenant /\ work.draft = None /\ work.source \in 1 .. Len(Sources)
  BY DEF AtWork, InHand, Work
<1>3. <<>> \in Seq(Item)
  OBVIOUS
<1>4. CASE work.source < Len(Sources)
  <2> DEFINE w == [work EXCEPT !.pc = "fetch", !.source = @ + 1, !.items = <<>>]
  <2>1. NextSource(work) = w
    BY <1>4 DEF NextSource
  <2>2. work.source + 1 \in 1 .. Len(Sources)
    BY <1>1, <1>2, <1>4
  <2>3. w \in Work
    BY <1>3, <2>2 DEF Work
  <2>4. /\ w.pc = "fetch" /\ w.items = <<>> /\ w.draft = None
        /\ w.tenant \in Tenant
    BY <1>2 DEF Work
  <2>5. AtWork(w)
    BY <2>4 DEF AtWork, InHand
  <2>6. QED
    BY <2>1, <2>3, <2>5
<1>5. CASE ~(work.source < Len(Sources)) /\ work.mode = "both"
  <2> DEFINE w == [work EXCEPT !.pc = "list", !.items = <<>>]
  <2>1. NextSource(work) = w
    BY <1>5 DEF NextSource
  <2>2. w \in Work
    BY <1>3 DEF Work
  <2>3. /\ w.pc = "list" /\ w.items = <<>> /\ w.draft = None
        /\ w.tenant \in Tenant
    BY <1>2 DEF Work
  <2>4. AtWork(w)
    BY <2>3 DEF AtWork, InHand
  <2>5. QED
    BY <2>1, <2>2, <2>4
<1>6. CASE ~(work.source < Len(Sources)) /\ work.mode # "both"
  BY <1>6, EndIsRight DEF NextSource
<1>7. QED
  BY <1>4, <1>5, <1>6

\* Nothing is published and nobody is at work.
LEMMA InitNews == NewsInit => NewsInv /\ DigestInv
<1> SUFFICES ASSUME NewsInit PROVE NewsInv /\ DigestInv
  OBVIOUS
<1>1. NewsTypeOK
  BY EndIsRight, NewsAssumption DEF NewsInit, NewsTypeOK, Time
<1>2. Stored = {}
  BY DEF NewsInit, Stored
<1>3. \A j \in Job : AtWork(task[j])
  BY EndIsRight DEF NewsInit
<1>4. ButtonsAreBacked
  BY DEF NewsInit, ButtonsAreBacked
<1>5. QED
  BY <1>1, <1>2, <1>3, <1>4 DEF NewsInv, DigestInv, AtWork

\* The actions that change a table or the clock.

LEMMA TickStep ==
  ASSUME NewsInv, DigestInv, Tick \/ \E s \in Story : Publish(s)
  PROVE  NewsInv' /\ DigestInv'
<1> DEFINE Passed ==
             /\ UNCHANGED <<rows, drafts, requests, buttons, task, failures>>
             /\ now' \in Time /\ now <= now'
             /\ published' \in [Story -> Time \cup {Missing}]
<1>1. Passed
  <2>1. CASE Tick
    BY <2>1, InvParts DEF Tick, outcome, NewsInv, NewsTypeOK, Time
  <2>2. ASSUME NEW s \in Story, Publish(s)
        PROVE  Passed
    BY <2>2, InvParts DEF Publish, outcome, NewsInv, NewsTypeOK, Time
  <2>3. QED
    BY <2>1, <2>2
<1>2. NewsTypeOK'
  BY <1>1 DEF NewsInv, NewsTypeOK
<1>3. Grown
  BY <1>1 DEF Grown
<1>4. ButtonsAreBacked'
  BY <1>1, InvParts DEF ButtonsAreBacked, Stored
<1>5. QED
  BY <1>1, <1>2, <1>3, <1>4, Going

LEMMA SaveItemStep ==
  ASSUME NewsInv, DigestInv, NEW j \in Job, SaveItem(j)
  PROVE  NewsInv' /\ DigestInv'
<1> DEFINE work == task[j]
           item == Head(work.items)
           t == work.tenant
           w == IF Tail(work.items) = <<>> THEN NextSource(work)
                ELSE [work EXCEPT !.items = Tail(@)]
<1>1. /\ work \in Work /\ AtWork(work) /\ work.pc = "save" /\ t \in Tenant
      /\ work.items \in Seq(Item) /\ work.items # <<>>
  BY InvParts DEF SaveItem, AtWork, InHand, Work
<1>2. UNCHANGED <<published, drafts, requests, buttons, now, failures>>
  BY DEF SaveItem, outcome
<1>3. CASE ~item.fit
  <2>1. Finish(j) /\ UNCHANGED rows
    BY <1>3 DEF SaveItem
  <2>2. failures' \in 0 .. MaxFailures
    BY <1>2 DEF NewsInv, NewsTypeOK
  <2>3. QED
    BY <1>2, <2>1, <2>2, EndIsRight, Taking DEF Finish
<1>4. CASE item.fit
  <2>1. item \in Item
    BY <1>1
  <2>2. w \in Work /\ AtWork(w)
    <3>1. CASE Tail(work.items) = <<>>
      BY <1>1, <3>1, NextSourceIsRight
    <3>2. CASE Tail(work.items) # <<>>
      <4> DEFINE v == [work EXCEPT !.items = Tail(@)]
      <4>1. Tail(work.items) \in Seq(Item)
        BY <1>1
      <4>2. v \in Work /\ v.items = Tail(work.items)
        BY <1>1, <4>1 DEF Work
      <4>3. /\ v.pc = "save" /\ v.tenant = t /\ v.draft = work.draft
        BY <1>1 DEF Work
      <4>4. InHand(v)
        BY <1>1, <3>2, <4>2, <4>3 DEF AtWork, InHand
      <4>5. QED
        BY <3>2, <4>2, <4>3, <4>4 DEF AtWork
    <3>3. QED
      BY <3>1, <3>2
  <2>3. /\ rows' = IF rows[t][item.story] = Missing
                   THEN [rows EXCEPT ![t] = [rows[t] EXCEPT ![item.story] = item.date]]
                   ELSE rows
        /\ task' = [task EXCEPT ![j] = w]
    BY <1>4 DEF SaveItem
  <2>4. item.story \in Story /\ item.date \in Time
    BY <2>1 DEF Item
  <2>5. /\ rows' \in [Tenant -> [Story -> Time \cup {Missing}]]
        /\ \A u \in Tenant, s \in Story :
             \/ rows'[u][s] = rows[u][s]
             \/ rows[u][s] = Missing /\ rows'[u][s] = item.date
    <3>1. rows \in [Tenant -> [Story -> Time \cup {Missing}]]
      BY DEF NewsInv, NewsTypeOK
    <3>2. QED
      BY <1>1, <2>3, <2>4, <3>1
  <2>6. NewsTypeOK'
    BY <1>2, <2>2, <2>3, <2>5 DEF NewsInv, NewsTypeOK
  <2>7. Grown
    BY <1>2, <2>5, InvParts DEF Grown
  <2>8. ASSUME NEW x \in Work, AtWork(x)
        PROVE  AtWork(x)'
    BY <2>6, <2>7, <2>8, InvParts, KeptAtWork
  <2>9. \A i \in Job : task'[i] = task[i] \/ AtWork(task[i])'
    <3> HIDE DEF w
    <3>1. PICK x \in Work : x = w /\ AtWork(x)'
      BY <2>2, <2>8
    <3>2. \A i \in Job : task'[i] = task[i] \/ task'[i] = x
      BY <2>3, <3>1 DEF NewsInv, NewsTypeOK
    <3>3. QED
      BY <3>1, <3>2 DEF AtWork, InHand
  <2>10. ButtonsAreBacked'
    BY <1>2, InvParts DEF ButtonsAreBacked, Stored
  <2>11. QED
    BY <1>2, <2>6, <2>7, <2>9, <2>10, Going DEF NewsInv
<1>5. QED
  BY <1>3, <1>4

LEMMA DraftSaveStep ==
  ASSUME NewsInv, DigestInv, NEW j \in Job, DraftSave(j)
  PROVE  NewsInv' /\ DigestInv'
<1> DEFINE work == task[j]
<1>1. /\ work \in Work /\ AtWork(work) /\ work.pc = "draftSave" /\ work.tenant \in Tenant
      /\ task \in [Job -> Work]
  BY InvParts DEF DraftSave, AtWork, InHand, NewsInv, NewsTypeOK
<1>2. UNCHANGED <<published, rows, requests, buttons, now, failures>>
  BY DEF DraftSave
<1>3. CASE Finish(j) /\ UNCHANGED drafts
  <2>1. failures' \in 0 .. MaxFailures
    BY <1>2 DEF NewsInv, NewsTypeOK
  <2>2. QED
    BY <1>2, <1>3, <2>1, EndIsRight, Taking DEF Finish
<1>4. ASSUME NEW d \in DraftId \ Stored,
             drafts' = [drafts EXCEPT ![d] = [tenant |-> work.tenant,
                                              stories |-> work.selected,
                                              asOf |-> work.asOf,
                                              ahead |-> work.ahead]],
             IF Notifier
             THEN task' = [task EXCEPT ![j] = [task[j] EXCEPT !.pc = "requestSave", !.draft = d]]
             ELSE Finish(j)
      PROVE  NewsInv' /\ DigestInv'
  <2> DEFINE draft == [tenant |-> work.tenant, stories |-> work.selected, asOf |-> work.asOf,
                       ahead |-> work.ahead]
  <2>1. PICK x \in Draft : x = draft
    BY <1>1 DEF Draft, Work
  <2>2. Dated(x)
    BY <1>1, <2>1 DEF AtWork, InHand, Dated
  <2>3. /\ drafts \in [DraftId -> Draft \cup {NoDraft}]
        /\ drafts' = [drafts EXCEPT ![d] = x]
    BY <1>4, <2>1 DEF NewsInv, NewsTypeOK
  <2>4. /\ drafts'[d] = x /\ \A e \in DraftId \ {d} : drafts'[e] = drafts[e]
        /\ drafts' \in [DraftId -> Draft \cup {NoDraft}]
    BY <2>3
  <2>5. x # NoDraft
    BY <1>1, <2>1, NewsAssumption DEF NoDraft, None
  <2>6. Stored' = Stored \cup {d}
    BY <2>4, <2>5 DEF Stored
  <2>7. PICK w \in Work : /\ task' = [task EXCEPT ![j] = w]
                          /\ \/ w = Idle
                             \/ w = [task[j] EXCEPT !.pc = "requestSave", !.draft = d]
    <3>1. [task[j] EXCEPT !.pc = "requestSave", !.draft = d] \in Work
      BY <1>1 DEF Work
    <3>2. QED
      BY <1>4, <3>1, EndIsRight DEF Finish
  <2>8. NewsTypeOK'
    BY <1>2, <2>4, <2>7 DEF NewsInv, NewsTypeOK
  <2>9. Grown
    <3>1. \A e \in Stored : drafts'[e] = drafts[e]
      BY <2>4 DEF Stored
    <3>2. QED
      BY <1>2, <3>1, InvParts DEF Grown
  <2>10. AtWork(w)'
    <3>1. CASE w = Idle
      BY <2>8, <2>9, <3>1, EndIsRight, KeptAtWork, InvParts
    <3>2. CASE w = [task[j] EXCEPT !.pc = "requestSave", !.draft = d]
      <4>1. /\ w.pc = "requestSave" /\ w.draft = d /\ w.tenant = work.tenant
            /\ w.items = work.items
        BY <1>1, <3>2 DEF Work
      <4>2. d # None
        BY NewsAssumption DEF None
      <4>3. d \in Stored' /\ drafts'[d].tenant = work.tenant
        BY <2>1, <2>4, <2>6
      <4>4. InHand(w)'
        BY <1>1, <4>1, <4>2, <4>3 DEF InHand
      <4>5. QED
        BY <4>1, <4>4 DEF AtWork
    <3>3. QED
      BY <2>7, <3>1, <3>2
  <2>11. \A i \in Job : task'[i] = task[i] \/ AtWork(task[i])'
    <3>1. \A i \in Job : task'[i] = task[i] \/ task'[i] = w
      BY <1>1, <2>7
    <3>2. QED
      BY <2>10, <3>1 DEF AtWork, InHand
  <2>12. \A e \in DraftId : drafts'[e] = drafts[e] \/ Dated(drafts[e])'
    <3>1. Dated(x)'
      BY <2>2, <2>8, <2>9, KeptDated, InvParts
    <3>2. QED
      BY <2>4, <3>1 DEF Dated
  <2>13. ButtonsAreBacked'
    BY <1>2, <2>4, <2>6, InvParts DEF ButtonsAreBacked, Stored
  <2>14. QED
    BY <1>2, <2>8, <2>9, <2>11, <2>12, <2>13, Going DEF NewsInv
<1>5. QED
  BY <1>3, <1>4 DEF DraftSave

LEMMA RequestStep ==
  ASSUME NewsInv, DigestInv, NEW j \in Job, RequestSave(j) \/ SendButtons(j)
  PROVE  NewsInv' /\ DigestInv'
<1> DEFINE work == task[j]
<1>1. /\ work \in Work /\ AtWork(work) /\ work.pc \in {"requestSave", "buttons"}
      /\ work.tenant \in Tenant /\ work.draft \in Stored
      /\ drafts[work.draft].tenant = work.tenant
      /\ task \in [Job -> Work]
  BY InvParts DEF RequestSave, SendButtons, AtWork, InHand, NewsInv, NewsTypeOK
<1>2. UNCHANGED <<published, rows, drafts, now, failures>>
  BY DEF RequestSave, SendButtons
<1>3. PICK w \in Work :
        /\ task' = [task EXCEPT ![j] = w]
        /\ \/ w = Idle
           \/ /\ w = [task[j] EXCEPT !.pc = "buttons"]
              /\ work.draft \in requests' /\ Admits(work.tenant, DiscordTenant)
  <2>1. [task[j] EXCEPT !.pc = "buttons"] \in Work
    BY <1>1 DEF Work
  <2>2. QED
    BY <2>1, EndIsRight DEF RequestSave, SendButtons, Finish, Goto
<1>4. /\ requests \subseteq requests' /\ requests' \subseteq requests \cup {work.draft}
      /\ requests' = requests \/ Admits(work.tenant, DiscordTenant)
      /\ buttons' \subseteq buttons \cup (requests \cap {work.draft})
      /\ buttons' \subseteq DraftId
  <2>1. CASE RequestSave(j)
    BY <2>1, InvParts DEF RequestSave, NewsTypeOK
  <2>2. CASE SendButtons(j)
    BY <2>2, <1>1, InvParts DEF SendButtons, NewsTypeOK, AtWork, InHand, Stored
  <2>3. QED
    BY <2>1, <2>2
<1>5. NewsTypeOK'
  BY <1>1, <1>2, <1>3, <1>4 DEF NewsInv, NewsTypeOK, Stored
<1>6. Grown
  BY <1>2, <1>4, InvParts DEF Grown
<1>7. AtWork(w)'
  <2>1. CASE w = Idle
    BY <1>5, <1>6, <2>1, EndIsRight, KeptAtWork, InvParts
  <2>2. CASE /\ w = [task[j] EXCEPT !.pc = "buttons"]
             /\ work.draft \in requests' /\ Admits(work.tenant, DiscordTenant)
    <3>1. /\ w.pc = "buttons" /\ w.draft = work.draft /\ w.tenant = work.tenant
          /\ w.items = work.items
      BY <1>1, <2>2 DEF Work
    <3>2. work.draft # None /\ work.draft \in Stored' /\ drafts'[work.draft].tenant = work.tenant
      BY <1>1, <1>2, NewsAssumption DEF None, Stored
    <3>3. InHand(w)'
      BY <1>1, <2>2, <3>1, <3>2 DEF InHand
    <3>4. QED
      BY <3>1, <3>3 DEF AtWork
  <2>3. QED
    BY <1>3, <2>1, <2>2
<1>8. \A i \in Job : task'[i] = task[i] \/ AtWork(task[i])'
  <2>1. \A i \in Job : task'[i] = task[i] \/ task'[i] = w
    BY <1>1, <1>3
  <2>2. QED
    BY <1>7, <2>1 DEF AtWork, InHand
<1>9. ButtonsAreBacked'
  <2>1. buttons' \subseteq requests'
    BY <1>4, InvParts DEF ButtonsAreBacked
  <2>2. requests' \subseteq Stored'
    BY <1>1, <1>2, <1>4, InvParts DEF ButtonsAreBacked, Stored
  <2>3. ASSUME RlsEnforced, NEW d \in requests'
        PROVE  drafts'[d].tenant = DiscordTenant
    <3>1. CASE d \in requests
      BY <1>2, <2>3, <3>1, InvParts DEF ButtonsAreBacked
    <3>2. CASE d \notin requests
      BY <1>1, <1>2, <1>4, <2>3, <3>2 DEF Admits, Setting
    <3>3. QED
      BY <3>1, <3>2
  <2>4. QED
    BY <2>1, <2>2, <2>3 DEF ButtonsAreBacked
<1>10. QED
  BY <1>2, <1>5, <1>6, <1>8, <1>9, Going DEF NewsInv

\* The actions that change what a job has in hand, and nothing else.
LEMMA JobOnlyStep ==
  ASSUME NewsInv, DigestInv, NEW j \in Job,
         \/ \E mode \in {"fetch", "digest", "both"}, t \in Tenant : Start(j, mode, t)
         \/ FetchSource(j) \/ SourceRaises(j) \/ ListSince(j) \/ Agent(j) \/ Fail(j)
  PROVE  NewsInv' /\ DigestInv'
<1> DEFINE work == task[j]
<1>1. work \in Work /\ AtWork(work) /\ failures \in 0 .. MaxFailures /\ MaxFailures \in Nat
  BY InvParts, NewsAssumption DEF NewsInv, NewsTypeOK
<1>2. /\ UNCHANGED <<published, rows, drafts, requests, buttons, now>>
      /\ failures' \in 0 .. MaxFailures
  <2>1. CASE Fail(j)
    BY <1>1, <2>1 DEF Fail, outcome
  <2>2. CASE ~Fail(j)
    BY <1>1, <2>2 DEF Start, FetchSource, SourceRaises, ListSince, Agent, outcome
  <2>3. QED
    BY <2>1, <2>2
<1>3. ASSUME NEW w \in Work, AtWork(w), task' = [task EXCEPT ![j] = w]
      PROVE  NewsInv' /\ DigestInv'
  BY <1>2, <1>3, Taking
<1>4. ASSUME Finish(j)
      PROVE  NewsInv' /\ DigestInv'
  BY <1>3, <1>4, EndIsRight DEF Finish
<1>5. ASSUME NEW mode \in {"fetch", "digest", "both"}, NEW t \in Tenant, Start(j, mode, t)
      PROVE  NewsInv' /\ DigestInv'
  <2> DEFINE w == [task[j] EXCEPT !.mode = mode, !.tenant = SetContext(t),
                                  !.pc = IF mode = "digest" THEN "list" ELSE "fetch"]
  <2>1. task' = [task EXCEPT ![j] = w] /\ work.pc = "idle"
    BY <1>5 DEF Start
  <2>2. w \in Work
    BY <1>1 DEF Work, SetContext
  <2>3. /\ w.pc \in {"list", "fetch"} /\ w.tenant = t /\ w.items = work.items
        /\ w.draft = work.draft
    BY <1>1 DEF Work, SetContext
  <2>4. AtWork(w)
    BY <1>1, <2>1, <2>3 DEF AtWork, InHand
  <2>5. QED
    BY <1>3, <2>1, <2>2, <2>4
<1>6. ASSUME FetchSource(j)
      PROVE  NewsInv' /\ DigestInv'
  <2> DEFINE kind == Sources[work.source]
  <2>1. kind \in Kind /\ Sample[kind] \in Nat
    <3>1. work.source \in 1 .. Len(Sources)
      BY <1>1 DEF Work
    <3>2. QED
      BY <3>1, NewsAssumption
  <2>2. PICK entries \in Answers({s \in Story : published[s] # Missing}, kind, Sample[kind]) :
          LET items == ItemsOf(kind, entries, published, now) IN
          task' = [task EXCEPT ![j] = IF items = <<>> THEN NextSource(work)
                                      ELSE [work EXCEPT !.pc = "save", !.items = items]]
    BY <1>6 DEF FetchSource
  <2>3. PICK items \in Seq(Item) : items = ItemsOf(kind, entries, published, now)
    BY <2>1, FetchedAreItems, InvParts
  <2>5. CASE items = <<>>
    BY <1>1, <1>3, <1>6, <2>2, <2>3, <2>5, NextSourceIsRight DEF FetchSource
  <2>6. CASE items # <<>>
    <3> DEFINE w == [work EXCEPT !.pc = "save", !.items = items]
    <3>1. w \in Work
      BY <1>1 DEF Work
    <3>2. w.pc = "save" /\ w.items = items /\ w.tenant = work.tenant /\ w.draft = work.draft
      BY <1>1 DEF Work
    <3>3. AtWork(w)
      BY <1>1, <1>6, <2>6, <3>2 DEF FetchSource, AtWork, InHand
    <3>4. QED
      BY <1>3, <2>2, <2>3, <2>6, <3>1, <3>3
  <2>7. QED
    BY <2>5, <2>6
<1>7. ASSUME SourceRaises(j)
      PROVE  NewsInv' /\ DigestInv'
  BY <1>1, <1>3, <1>7, NextSourceIsRight DEF SourceRaises
<1>8. ASSUME ListSince(j)
      PROVE  NewsInv' /\ DigestInv'
  <2> DEFINE stories == InWindow(work.tenant)
  <2>1. ASSUME NEW selected \in SUBSET stories,
               task' = [task EXCEPT ![j] = [task[j] EXCEPT !.pc = "agent",
                                                           !.selected = selected,
                                                           !.asOf = now,
                 !.ahead = {s \in selected : rows[work.tenant][s] > now}]]
        PROVE  NewsInv' /\ DigestInv'
    <3> DEFINE later == {s \in selected : rows[work.tenant][s] > now}
               w == [task[j] EXCEPT !.pc = "agent", !.selected = selected, !.asOf = now,
                                    !.ahead = later]
    <3>1. work.tenant \in Tenant /\ work.draft = None
      BY <1>1, <1>8 DEF ListSince, AtWork, InHand
    <3>2. w \in Work
      BY <1>1, <2>1 DEF Work, InWindow, NewsInv, NewsTypeOK
    <3>3. /\ w.pc = "agent" /\ w.selected = selected /\ w.asOf = now /\ w.ahead = later
          /\ w.tenant = work.tenant /\ w.items = work.items /\ w.draft = work.draft
      BY <1>1 DEF Work
    <3>4. now \in Nat /\ now <= now
      BY InvParts
    <3>5. \A s \in selected :
            /\ rows[work.tenant][s] # Missing
            /\ rows[work.tenant][s] + Window >= now
            /\ s \notin later => rows[work.tenant][s] <= now
      <4>1. \A s \in selected : /\ rows[work.tenant][s] # Missing
                               /\ rows[work.tenant][s] + Window >= now
        BY <2>1, <3>1 DEF InWindow
      <4>2. \A s \in selected : rows[work.tenant][s] \in Nat
        BY <2>1, <3>1, InvParts DEF InWindow, NewsTypeOK, Time, Missing
      <4>3. \A s \in selected \ later : ~(rows[work.tenant][s] > now)
        OBVIOUS
      <4>4. QED
        BY <3>4, <4>1, <4>2, <4>3
    <3>6. InHand(w)
      BY <3>1, <3>3, <3>4, <3>5 DEF InHand
    <3>7. AtWork(w)
      BY <1>1, <3>3, <3>5, <3>6 DEF AtWork
    <3>8. QED
      BY <1>3, <2>1, <3>2, <3>7
  <2>2. QED
    BY <1>4, <1>8, <2>1 DEF ListSince
<1>9. ASSUME Agent(j)
      PROVE  NewsInv' /\ DigestInv'
  <2>1. CASE Goto(j, "draftSave")
    <3> DEFINE w == [task[j] EXCEPT !.pc = "draftSave"]
    <3>1. w \in Work
      BY <1>1 DEF Work
    <3>2. /\ w.pc = "draftSave" /\ w.selected = work.selected /\ w.asOf = work.asOf
          /\ w.ahead = work.ahead
          /\ w.tenant = work.tenant /\ w.items = work.items /\ w.draft = work.draft
      BY <1>1 DEF Work
    <3>3. AtWork(w)
      BY <1>1, <1>9, <3>2 DEF Agent, AtWork, InHand
    <3>4. QED
      BY <1>3, <2>1, <3>1, <3>3 DEF Goto
  <2>2. QED
    BY <1>4, <1>9, <2>1 DEF Agent
<1>10. ASSUME Fail(j)
       PROVE  NewsInv' /\ DigestInv'
  BY <1>4, <1>10 DEF Fail
<1>11. QED
  BY <1>5, <1>6, <1>7, <1>8, <1>9, <1>10

LEMMA NextNews == NewsInv /\ DigestInv /\ [NewsNext]_newsVars => NewsInv' /\ DigestInv'
<1> SUFFICES ASSUME NewsInv, DigestInv, [NewsNext]_newsVars
             PROVE  NewsInv' /\ DigestInv'
  OBVIOUS
<1>1. CASE UNCHANGED newsVars
  BY <1>1
  DEF newsVars, NewsInv, DigestInv, NewsTypeOK, InHand, Stored, ButtonsAreBacked
<1>2. CASE Tick \/ \E s \in Story : Publish(s)
  BY <1>2, TickStep
<1>3. ASSUME NEW j \in Job, CronJob(j) \/ NewsRoute(j) \/ JobStep(j) \/ Fail(j)
      PROVE  NewsInv' /\ DigestInv'
  <2>1. CASE CronJob(j) \/ NewsRoute(j)
    <3>1. \E mode \in {"fetch", "digest", "both"}, t \in Tenant : Start(j, mode, t)
      BY <2>1, NewsAssumption DEF CronJob, NewsRoute
    <3>2. QED
      BY <3>1, JobOnlyStep
  <2>2. QED
    BY <1>3, <2>1, JobOnlyStep, SaveItemStep, DraftSaveStep, RequestStep DEF JobStep
<1>4. QED
  BY <1>1, <1>2, <1>3 DEF NewsNext

LEMMA NewsAndDigests == NewsSpec => [](NewsInv /\ DigestInv)
<1>1. (NewsInv /\ DigestInv) /\ [NewsNext]_newsVars => (NewsInv /\ DigestInv)'
  BY NextNews
<1>2. QED
  BY InitNews, <1>1, PTL DEF NewsSpec

\* A story in a digest was stored, and in the window, when the digest listed
\* it, and buttons have their request and their draft behind them.
THEOREM NewsCorrect == NewsSpec => []NewsInv
  BY NewsAndDigests, PTL

\* However often a story is fetched again, by however many jobs at once, two
\* digests of a tenant that both have it are at most the window apart, unless
\* the earlier one took it ahead of its date.
THEOREM DigestsLetGo == NewsSpec => []DigestsMoveOn
<1>1. NewsInv /\ DigestInv => DigestsMoveOn
  <2> SUFFICES ASSUME NewsInv, DigestInv,
                      NEW d \in Stored, NEW e \in Stored,
                      drafts[d].tenant = drafts[e].tenant,
                      NEW s \in (drafts[d].stories \cap drafts[e].stories) \ drafts[e].ahead
               PROVE  drafts[d].asOf <= drafts[e].asOf + Window
    BY DEF DigestsMoveOn
  <2> DEFINE date == rows[drafts[d].tenant][s]
  <2>1. /\ drafts[d].tenant \in Tenant /\ s \in Story
        /\ drafts[d].asOf \in Nat /\ drafts[e].asOf \in Nat
    BY InvParts DEF Draft, Time
  <2>2. date \in Nat /\ Window \in Nat
    BY <2>1, InvParts DEF Dated, NewsInv, NewsTypeOK, Time
  <2>3. date + Window >= drafts[d].asOf /\ date <= drafts[e].asOf
    BY InvParts DEF Dated
  <2>4. QED
    BY <2>1, <2>2, <2>3
<1>2. QED
  BY <1>1, NewsAndDigests, PTL

-----------------------------------------------------------------------------

\* The drafts that UnaskedIsPaidFor counts.
Forgotten == {d \in Unasked : drafts[d].tenant = DiscordTenant}

LEMMA InitUnasked == NewsInit => UnaskedIsPaidFor
<1> SUFFICES ASSUME NewsInit PROVE UnaskedIsPaidFor
  OBVIOUS
<1>1. {d \in Unasked : drafts[d].tenant = DiscordTenant} = {} /\ failures = 0
  BY DEF NewsInit, Unasked, Stored
<1>2. QED
  BY <1>1, FS_EmptySet DEF UnaskedIsPaidFor

\* A failure pays for the draft that its job was about to ask about.
LEMMA NextUnasked ==
  NewsInv /\ DigestInv /\ UnaskedIsPaidFor /\ [NewsNext]_newsVars => UnaskedIsPaidFor'
<1> SUFFICES ASSUME NewsInv, DigestInv, UnaskedIsPaidFor, [NewsNext]_newsVars, Notifier
             PROVE  Cardinality(Forgotten') <= failures'
  BY DEF UnaskedIsPaidFor, Forgotten
<1>0. /\ task \in [Job -> Work] /\ failures \in Nat
      /\ \A j \in Job : task[j].pc \notin {"requestSave", "buttons"} => task[j].draft = None
      /\ None \notin DraftId
      /\ drafts \in [DraftId -> Draft \cup {NoDraft}]
  BY NewsAssumption DEF NewsInv, NewsTypeOK, InHand, None
<1>a. /\ IsFiniteSet(Forgotten) /\ Cardinality(Forgotten) \in Nat
      /\ Cardinality(Forgotten) <= failures
  <2>1. Forgotten \in SUBSET DraftId
    BY DEF Forgotten, Unasked, Stored
  <2>2. IsFiniteSet(Forgotten)
    BY <2>1, FS_Subset, NewsAssumption
  <2>3. QED
    BY <2>2, FS_CardinalityType DEF UnaskedIsPaidFor, Forgotten
<1>1. ASSUME Forgotten' \subseteq Forgotten, failures' = failures
      PROVE  Cardinality(Forgotten') <= failures'
  <2>1. Forgotten' \in SUBSET Forgotten
    BY <1>1
  <2>2. IsFiniteSet(Forgotten') /\ Cardinality(Forgotten') <= Cardinality(Forgotten)
    BY <1>a, <2>1, FS_Subset
  <2>3. Cardinality(Forgotten') \in Nat
    BY <2>2, FS_CardinalityType
  <2>4. QED
    BY <1>0, <1>1, <1>a, <2>2, <2>3
<1>2. ASSUME NEW j \in Job, UNCHANGED <<drafts, buttons, failures>>,
             task[j].draft = None,
             \A i \in Job \ {j} : task'[i] = task[i]
      PROVE  Cardinality(Forgotten') <= failures'
  <2>1. Forgotten' \subseteq Forgotten
    BY <1>0, <1>2 DEF Forgotten, Unasked, Stored
  <2>2. QED
    BY <1>1, <1>2, <2>1
<1>3. ASSUME UNCHANGED <<drafts, buttons, failures, task>>
      PROVE  Cardinality(Forgotten') <= failures'
  BY <1>1, <1>3 DEF Forgotten, Unasked, Stored
<1>4. ASSUME NEW j \in Job,
             \/ \E mode \in {"fetch", "digest", "both"}, t \in Tenant : Start(j, mode, t)
             \/ FetchSource(j) \/ SourceRaises(j) \/ SaveItem(j) \/ ListSince(j) \/ Agent(j)
      PROVE  Cardinality(Forgotten') <= failures'
  <2>1. task[j].draft = None
    BY <1>0, <1>4 DEF Start, FetchSource, SourceRaises, SaveItem, ListSince, Agent
  <2>2. UNCHANGED <<drafts, buttons, failures>>
    BY <1>4 DEF Start, FetchSource, SourceRaises, SaveItem, ListSince, Agent, outcome
  <2>3. \E w : task' = [task EXCEPT ![j] = w]
    BY <1>4 DEF Start, FetchSource, SourceRaises, SaveItem, ListSince, Agent, Finish, Goto
  <2>4. QED
    BY <1>0, <1>2, <2>1, <2>2, <2>3
<1>5. ASSUME NEW j \in Job, DraftSave(j)
      PROVE  Cardinality(Forgotten') <= failures'
  <2>1. task[j].draft = None /\ UNCHANGED <<buttons, failures>>
    BY <1>0, <1>5 DEF DraftSave
  <2>2. CASE Finish(j) /\ UNCHANGED drafts
    BY <1>0, <1>2, <2>1, <2>2 DEF Finish
  <2>3. ASSUME NEW d \in DraftId \ Stored, NEW x,
               drafts' = [drafts EXCEPT ![d] = x],
               task' = [task EXCEPT ![j] = [task[j] EXCEPT !.pc = "requestSave", !.draft = d]]
        PROVE  Cardinality(Forgotten') <= failures'
    <3>1. task'[j].draft = d /\ \A i \in Job \ {j} : task'[i] = task[i]
      BY <1>0, <2>3 DEF Work
    <3>2. \A e \in DraftId \ {d} : drafts'[e] = drafts[e]
      BY <1>0, <2>3
    <3>3. Forgotten' \subseteq Forgotten
      BY <1>0, <2>1, <3>1, <3>2 DEF Forgotten, Unasked, Stored
    <3>4. QED
      BY <1>1, <2>1, <3>3
  <2>4. QED
    BY <1>5, <2>2, <2>3 DEF DraftSave
<1>6. ASSUME NEW j \in Job, RequestSave(j)
      PROVE  Cardinality(Forgotten') <= failures'
  <2>1. UNCHANGED <<drafts, buttons, failures>>
    BY <1>6 DEF RequestSave
  <2>2. CASE Goto(j, "buttons")
    <3>1. \A i \in Job : task'[i].draft = task[i].draft
      BY <1>0, <2>2 DEF Goto, Work
    <3>2. Forgotten' \subseteq Forgotten
      BY <2>1, <3>1 DEF Forgotten, Unasked, Stored
    <3>3. QED
      BY <1>1, <2>1, <3>2
  <2>3. CASE Finish(j) /\ ~Admits(task[j].tenant, DiscordTenant)
    <3>1. drafts[task[j].draft].tenant # DiscordTenant
      BY <1>6, <2>3, InvParts DEF RequestSave, AtWork, InHand, Admits, Setting
    <3>2. \A i \in Job \ {j} : task'[i] = task[i]
      BY <1>0, <2>3 DEF Finish
    <3>3. Forgotten' \subseteq Forgotten
      BY <2>1, <3>1, <3>2 DEF Forgotten, Unasked, Stored
    <3>4. QED
      BY <1>1, <2>1, <3>3
  <2>4. QED
    BY <1>6, <2>2, <2>3 DEF RequestSave
<1>7. ASSUME NEW j \in Job, SendButtons(j)
      PROVE  Cardinality(Forgotten') <= failures'
  <2>1. UNCHANGED <<drafts, failures>> /\ buttons' = buttons \cup {task[j].draft}
    BY <1>7 DEF SendButtons
  <2>2. \A i \in Job \ {j} : task'[i] = task[i]
    BY <1>0, <1>7 DEF SendButtons, Finish
  <2>3. Forgotten' \subseteq Forgotten
    BY <2>1, <2>2 DEF Forgotten, Unasked, Stored
  <2>4. QED
    BY <1>1, <2>1, <2>3
<1>8. ASSUME NEW j \in Job, Fail(j)
      PROVE  Cardinality(Forgotten') <= failures'
  <2> DEFINE d == task[j].draft
  <2>1. UNCHANGED <<drafts, buttons>> /\ failures' = failures + 1
    BY <1>8 DEF Fail, outcome
  <2>2. \A i \in Job \ {j} : task'[i] = task[i]
    BY <1>0, <1>8 DEF Fail, Finish
  <2>3. Forgotten' \subseteq Forgotten \cup {d}
    BY <2>1, <2>2 DEF Forgotten, Unasked, Stored
  <2>4. /\ IsFiniteSet(Forgotten \cup {d})
        /\ \/ Cardinality(Forgotten \cup {d}) = Cardinality(Forgotten)
           \/ Cardinality(Forgotten \cup {d}) = Cardinality(Forgotten) + 1
    BY <1>a, FS_AddElement
  <2>5. /\ IsFiniteSet(Forgotten')
        /\ Cardinality(Forgotten') <= Cardinality(Forgotten \cup {d})
    BY <2>3, <2>4, FS_Subset
  <2>6. Cardinality(Forgotten') \in Nat
    BY <2>5, FS_CardinalityType
  <2>7. QED
    BY <1>0, <1>a, <2>1, <2>4, <2>5, <2>6
<1>9. ASSUME NEW j \in Job, CronJob(j) \/ NewsRoute(j)
      PROVE  Cardinality(Forgotten') <= failures'
  BY <1>4, <1>9, NewsAssumption DEF CronJob, NewsRoute
<1>10. CASE Tick \/ (\E s \in Story : Publish(s)) \/ UNCHANGED newsVars
  BY <1>3, <1>10 DEF Tick, Publish, outcome, newsVars
<1>11. QED
  BY <1>4, <1>5, <1>6, <1>7, <1>8, <1>9, <1>10 DEF NewsNext, JobStep

\* Of the digests for the bot's tenant, one that nobody is or will be asked
\* about is paid for by a failure of its own, whatever the policy lets through
\* and whichever other digests have the same stories.
THEOREM UnaskedArePaidFor == NewsSpec => []UnaskedIsPaidFor
<1>1. (NewsInv /\ DigestInv) /\ UnaskedIsPaidFor /\ [NewsNext]_newsVars => UnaskedIsPaidFor'
  BY NextUnasked
<1>2. QED
  BY InitUnasked, <1>1, NewsAndDigests, PTL DEF NewsSpec

-----------------------------------------------------------------------------

\* No source ends a fetch before its last one, raise what it may: where a fetch
\* ends, a call to the table failed, or an item had a blank title or link, which
\* NewsItem refuses.
THEOREM FetchGoesThroughSources == NewsSpec => SourcesAreContained
<1> DEFINE Contained == \A j \in Job :
             /\ task[j].pc \in {"fetch", "save"}
             /\ task[j].source < Len(Sources)
             /\ task'[j].pc \in {"idle", "list"}
             => \/ failures' # failures
                \/ task[j].pc = "save" /\ ~Head(task[j].items).fit
<1>1. NewsInv /\ [NewsNext]_newsVars => [Contained]_newsVars
  <2> SUFFICES ASSUME NewsInv, NewsNext, NEW j \in Job,
                      task[j].pc \in {"fetch", "save"},
                      task[j].source < Len(Sources),
                      task'[j].pc \in {"idle", "list"},
                      failures' = failures
               PROVE  task[j].pc = "save" /\ ~Head(task[j].items).fit
    OBVIOUS
  <2>0. task \in [Job -> Work] /\ task[j] \in Work /\ failures \in Nat
    BY NewsAssumption DEF NewsInv, NewsTypeOK
  <2>1. task'[j] # task[j]
    OBVIOUS
  <2>2. ASSUME task' = [task EXCEPT ![j] = NextSource(task[j])]
        PROVE  FALSE
    <3>1. NextSource(task[j]).pc = "fetch"
      BY <2>0 DEF NextSource, Work
    <3>2. QED
      BY <2>0, <2>2, <3>1
  <2>3. ASSUME NEW i \in Job \ {j}, NEW w, task' = [task EXCEPT ![i] = w]
        PROVE  FALSE
    BY <2>0, <2>1, <2>3
  <2>4. ~Tick /\ ~(\E s \in Story : Publish(s))
    BY <2>1 DEF Tick, Publish
  <2>5. PICK i \in Job : CronJob(i) \/ NewsRoute(i) \/ JobStep(i) \/ Fail(i)
    BY <2>4 DEF NewsNext
  <2>6. ~Fail(i)
    BY <2>0 DEF Fail
  <2>7. i = j
    <3>1. \E w : task' = [task EXCEPT ![i] = w]
      BY <2>5, <2>6
      DEF CronJob, NewsRoute, Start, JobStep, FetchSource, SourceRaises, SaveItem,
          ListSince, Agent, DraftSave, RequestSave, SendButtons, Finish, Goto
    <3>2. QED
      BY <2>3, <3>1
  <2>8. FetchSource(j) \/ SourceRaises(j) \/ SaveItem(j)
    BY <2>5, <2>6, <2>7
    DEF CronJob, NewsRoute, Start, JobStep, ListSince, Agent, DraftSave, RequestSave,
        SendButtons
  <2>9. ~SourceRaises(j)
    BY <2>2 DEF SourceRaises
  <2>10. ~FetchSource(j)
    <3>1. ASSUME NEW items, task' = [task EXCEPT ![j] = [task[j] EXCEPT !.pc = "save",
                                                                        !.items = items]]
          PROVE  FALSE
      <4>1. [task[j] EXCEPT !.pc = "save", !.items = items].pc = "save"
        BY <2>0 DEF Work
      <4>2. QED
        BY <2>0, <3>1, <4>1
    <3>2. QED
      BY <2>2, <3>1 DEF FetchSource
  <2>11. ASSUME SaveItem(j)
         PROVE  task[j].pc = "save" /\ ~Head(task[j].items).fit
    <3>1. task[j].pc = "save"
      BY <2>11 DEF SaveItem
    <3>2. ASSUME task' = [task EXCEPT ![j] = [task[j] EXCEPT !.items = Tail(task[j].items)]]
          PROVE  FALSE
      <4>1. [task[j] EXCEPT !.items = Tail(task[j].items)].pc = "save"
        BY <2>0, <3>1 DEF Work
      <4>2. QED
        BY <2>0, <3>2, <4>1
    <3>3. QED
      BY <2>2, <2>11, <3>1, <3>2 DEF SaveItem
  <2>12. QED
    BY <2>8, <2>9, <2>10, <2>11
<1>2. QED
  BY <1>1, NewsCorrect, PTL DEF NewsSpec, SourcesAreContained

=============================================================================
