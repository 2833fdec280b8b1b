--------------------------- MODULE DraftingProofs ---------------------------
(***************************************************************************)
(* From a message to its review, proved for every number of handlers and   *)
(* posts, every message and every answer, whatever the answers are read    *)
(* as and the texts are cut into.                                          *)
(***************************************************************************)
EXTENDS Drafting, TextProofs

\* LinkedInDraft and NewsDigestDraft, as far as they are kept.
Output == [raised : BOOLEAN, title : BOOLEAN, texto : Seq(Char), extras : BOOLEAN]

\* What the agents parse has the fields they declare.
LEMMA OutputsAre ==
  ASSUME NEW answer \in Answer
  PROVE  /\ LinkedInOutput(answer) \subseteq Output /\ DigestOutput(answer) \in Output
         /\ SummaryOutput(answer) \in Seq(Char)
<1>1. answer.text \in Seq(Char)
  BY DraftingAssumption
<1>2. Loads(answer.text).texto \in Seq(Char)
  BY <1>1, LoadsIs
<1>3. \A value \in Extract(answer.text) : value.texto \in Seq(Char)
  BY <1>1, ExtractIs
<1>4. LinkedInOutput(answer) \subseteq Output
  <2>1. Raised \in Output
    BY DEF Raised, Output
  <2>2. \A title, extras \in BOOLEAN : Parsed(title, answer.text, extras) \in Output
    BY <1>1 DEF Parsed, Output
  <2>3. \A title, extras \in BOOLEAN : \A value \in Extract(answer.text) :
          Parsed(title, value.texto, extras) \in Output
    BY <1>3 DEF Parsed, Output
  <2>4. QED
    BY <2>1, <2>2, <2>3 DEF LinkedInOutput
<1>5. DigestOutput(answer) \in Output
  BY <1>1, <1>2 DEF DigestOutput, Output, Parsed
<1>6. SummaryOutput(answer) \in Seq(Char)
  BY <1>1, <1>2 DEF SummaryOutput
<1>7. QED
  BY <1>4, <1>5, <1>6

(***************************************************************************)
(* The messages of a draft, and what a place shows of them.                *)
(***************************************************************************)

\* How a draft is laid out: on Discord whole, on Telegram from its start.
LEMMA LayoutIs ==
  ASSUME NEW via, NEW draft \in Draft, ~Blank(draft.texto)
  PROVE  LET out == Layout(via, draft)
         IN  /\ out \in Seq(Texts) /\ Len(out) \in Nat \ {0}
             /\ via # "telegram" =>
                  /\ \A i \in 1 .. Len(out) : Len(out[i]) <= MessageLimit
                  /\ Joined(out) = Words(Full(IF draft.digest THEN draft.texto ELSE FormatBody(draft)))
             /\ via = "telegram" =>
                  Len(Joined(out)) > 1 /\ IsPrefix(Tail(Joined(out)), Words(draft.texto))
<1> DEFINE texto == draft.texto
           out == Layout(via, draft)
<1>1. texto \in Seq(Char) /\ draft.extras \in BOOLEAN
  BY DEF Draft, Text
<1>2. FormatBody(draft) \in Seq(Char)
  <2>1. <<"x", "nl", "nl">> \in Seq(Char) /\ <<"nl", "nl", "x", "nl", "nl", "tag">> \in Seq(Char)
    BY DEF Char
  <2>2. <<"x", "nl", "nl">> \o texto \in Seq(Char)
    BY <1>1, <2>1, ConcatProperties
  <2>3. (<<"x", "nl", "nl">> \o texto) \o <<"nl", "nl", "x", "nl", "nl", "tag">> \in Seq(Char)
    BY <2>1, <2>2, ConcatProperties
  <2>4. QED
    BY <1>1, <2>3 DEF FormatBody
<1>3. CASE via # "telegram"
  <2>1. PICK body : body = IF draft.digest THEN texto ELSE FormatBody(draft)
    OBVIOUS
  <2>2. body \in Seq(Char) /\ body \in {texto, FormatBody(draft)}
    BY <1>1, <1>2, <2>1
  <2>3. out = ChunkMessages(body)
    BY <1>3, <2>1 DEF Layout
  <2>4. /\ out \in Seq(Texts) /\ Len(out) >= 1
        /\ \A i \in 1 .. Len(out) : Len(out[i]) <= MessageLimit
        /\ Joined(out) = Words(Full(body))
    <3>1. PICK o : o = ChunkMessages(body)
      OBVIOUS
    <3>2. /\ o \in Seq(Texts) /\ Len(o) >= 1
          /\ \A i \in 1 .. Len(o) : Len(o[i]) <= MessageLimit
          /\ Joined(o) = Words(Full(body))
      BY <2>2, <3>1, MessagesFit
    <3> HIDE DEF out
    <3>3. QED
      BY <2>3, <3>1, <3>2
  <2> HIDE DEF out
  <2>5. Len(out) \in Nat \ {0}
    BY <2>4, LenProperties
  <2>6. Joined(out) = Words(Full(IF draft.digest THEN texto ELSE FormatBody(draft)))
    BY <2>1, <2>4
  <2>7. QED
    BY <1>3, <2>4, <2>5, <2>6 DEF out
<1>4. CASE via = "telegram"
  <2>1. PICK t : t = Truncate(texto, Preview)
    OBVIOUS
  <2>2. t \in Texts /\ Words(t) # <<>> /\ IsPrefix(Words(t), Words(texto))
    BY <1>1, <2>1, PreviewIs
  <2>3. PICK W : W = Char \cup {"more"}
    OBVIOUS
  <2>4. t \in Seq(W) /\ TitleLine \in Seq(W) /\ Words(TitleLine) = <<"x">>
    BY <2>2, <2>3, CharTexts DEF Texts
  <2>5. Full(t) \in Seq(W) /\ Words(Full(t)) = <<"x">> \o Words(t) /\ Words(t) \in Seq(W)
    BY <2>4, ConcatProperties, WordsConcat DEF Full
  <2>6. out = <<Full(t)>>
    BY <1>4, <2>1 DEF Layout
  <2>7. out \in Seq(Texts) /\ Len(out) = 1
    BY <2>3, <2>5, <2>6 DEF Texts
  <2>8. Joined(out) = Words(Full(t))
    <3>1. <<>> \in Seq(Seq(W))
      BY EmptySeq
    <3>2. Joined(<<Full(t)>>) = Words(Full(t))
      BY <2>5, <3>1, JoinedIs
    <3>3. QED
      BY <2>6, <3>2
  <2>9. PICK u : u = Words(t)
    OBVIOUS
  <2>10. u \in Seq(W) /\ u # <<>> /\ "x" \in W /\ <<"x">> \in Seq(W)
    BY <2>2, <2>3, <2>5, <2>9 DEF Char
  <2>11. Len(u) \in Nat \ {0}
    BY <2>10, LenProperties, EmptySeq
  <2>12. Len(<<"x">> \o u) > 1 /\ Tail(<<"x">> \o u) = u
    BY <2>10, <2>11, ConcatProperties
  <2>13. Len(Joined(out)) > 1 /\ IsPrefix(Tail(Joined(out)), Words(texto))
    BY <2>2, <2>5, <2>8, <2>9, <2>12
  <2> HIDE DEF out
  <2>14. QED
    BY <1>4, <2>7, <2>13 DEF out
<1>5. QED
  BY <1>3, <1>4

\* A message of the channel or of the chat.
MessageType == [post : Post \cup {None}, text : Texts, buttons : BOOLEAN]

\* The words of a post in one message.
WordsIn(post) == [m \in MessageType |-> IF m.post = post THEN Words(m.text) ELSE <<>>]

\* A place is read message by message.
LEMMA ReadMapped ==
  ASSUME NEW ms \in Seq(MessageType), NEW post
  PROVE  /\ Read(ms, post) = FlattenSeq(Mapped(WordsIn(post), ms))
         /\ Gives(WordsIn(post), MessageType, Char \cup {"more"})
<1>1. \A i \in DOMAIN ms : ms[i] \in MessageType
  BY LenProperties
<1>2. \A i \in DOMAIN ms :
        WordsIn(post)[ms[i]] = IF ms[i].post = post THEN Words(ms[i].text) ELSE <<>>
  BY <1>1 DEF WordsIn
<1>3. Read(ms, post) = FlattenSeq(Mapped(WordsIn(post), ms))
  BY <1>2 DEF Read, Mapped
<1>4. PICK W : W = Char \cup {"more"}
  OBVIOUS
<1>5. \A t \in Texts : Words(t) \in Seq(W)
  BY <1>4, WordsConcat DEF Texts
<1>6. Gives(WordsIn(post), MessageType, W)
  BY <1>5, EmptySeq DEF Gives, WordsIn, MessageType
<1>7. QED
  BY <1>3, <1>4, <1>6

\* A message of a post adds its words to what is read of the post, and
\* nothing to what is read of another.
LEMMA ReadAppend ==
  ASSUME NEW ms \in Seq(MessageType), NEW m \in MessageType, NEW post
  PROVE  Read(Append(ms, m), post) = IF m.post = post THEN Read(ms, post) \o Words(m.text)
                                     ELSE Read(ms, post)
<1>1. PICK M, W : M = WordsIn(post) /\ W = Char \cup {"more"}
  OBVIOUS
<1>2. Gives(M, MessageType, W) /\ Read(ms, post) = FlattenSeq(Mapped(M, ms))
  BY <1>1, ReadMapped
<1>3. PICK u : u = <<m>>
  OBVIOUS
<1>4. u \in Seq(MessageType) /\ Append(ms, m) = ms \o u /\ Append(ms, m) \in Seq(MessageType)
  BY <1>3, AppendIsConcat, AppendProperties
<1>5. Read(Append(ms, m), post) = FlattenSeq(Mapped(M, ms \o u))
  BY <1>1, <1>4, ReadMapped
<1>6. FlattenSeq(Mapped(M, ms \o u)) = FlattenSeq(Mapped(M, ms)) \o FlattenSeq(Mapped(M, u))
  <2>1. Gives(M, MessageType, W)
    BY <1>2
  <2>2. QED
    BY <1>4, <2>1, MappedConcat
<1>7. FlattenSeq(Mapped(M, u)) = M[m]
  <2>1. Gives(M, MessageType, W)
    BY <1>2
  <2>2. QED
    BY <1>3, <2>1, MappedOne
<1>8. M[m] = IF m.post = post THEN Words(m.text) ELSE <<>>
  BY <1>1 DEF WordsIn
<1>9. FlattenSeq(Mapped(M, ms)) \in Seq(W)
  <2>1. Gives(M, MessageType, W)
    BY <1>2
  <2>2. QED
    BY <2>1, MappedIs
<1>10. CASE m.post = post
  BY <1>2, <1>5, <1>6, <1>7, <1>8, <1>10
<1>11. CASE m.post # post
  BY <1>2, <1>5, <1>6, <1>7, <1>8, <1>9, <1>11, ConcatEmptySeq
<1>12. QED
  BY <1>10, <1>11

\* Nothing is read of a post no message is of.
LEMMA ReadNone ==
  ASSUME NEW ms \in Seq(MessageType), NEW post, \A i \in DOMAIN ms : ms[i].post # post
  PROVE  Read(ms, post) = <<>>
<1> DEFINE P == {s \in Seq(MessageType) :
                   (\A i \in 1 .. Len(s) : s[i].post # post) => Read(s, post) = <<>>}
<1>1. <<>> \in P
  <2>1. Read(<<>>, post) = <<>>
    <3>1. FlattenSeq(<<>>) = <<>>
      BY FlattenAppend, EmptySeq
    <3>2. Read(<<>>, post) = FlattenSeq(<<>>)
      BY DEF Read
    <3>3. QED
      BY <3>1, <3>2
  <2>2. QED
    BY <2>1, EmptySeq
<1>2. ASSUME NEW s \in Seq(MessageType), NEW e \in MessageType, s \in P
      PROVE  Append(s, e) \in P
  <2>1. /\ Append(s, e) \in Seq(MessageType) /\ Len(Append(s, e)) = Len(s) + 1
        /\ Len(s) \in Nat /\ Append(s, e)[Len(s) + 1] = e
        /\ \A i \in 1 .. Len(s) : Append(s, e)[i] = s[i]
    BY AppendProperties, LenProperties
  <2>2. ASSUME \A i \in 1 .. Len(Append(s, e)) : Append(s, e)[i].post # post
        PROVE  Read(Append(s, e), post) = <<>>
    <3>1. \A i \in 1 .. Len(s) : s[i].post # post
      BY <2>1, <2>2
    <3>2. e.post # post
      BY <2>1, <2>2
    <3>3. Read(s, post) = <<>>
      BY <1>2, <3>1
    <3>4. QED
      BY <3>2, <3>3, ReadAppend
  <2>3. QED
    BY <2>1, <2>2
<1> HIDE DEF P
<1>3. Seq(MessageType) \subseteq P
  BY <1>1, <1>2, SeqInduction
<1>4. QED
  BY <1>3, LenProperties DEF P

\* The places with buttons.
Column == {"discord", "telegram"}

(***************************************************************************)
(* What the records are made of.  Nothing but their fields and the posts   *)
(* in them is said here: T stands for whatever else there is.              *)
(***************************************************************************)

WorkOf(T) ==
  [pc : T, kind : T, via : T, post : Post \cup {None}, direct : T, texto : T, title : T,
   extras : T, chat : T, plain : T, next : T]

DraftOf(T) == [digest : T, texto : T, extras : T]

MessageOf(T) == [post : Post \cup {None}, text : T, buttons : T]

Shape(T) ==
  /\ received \subseteq Post
  /\ task \in [Handler -> WorkOf(T)]
  /\ drafts \in [Post -> DraftOf(T)]
  /\ shown \in [Place -> Seq(MessageOf(T))]

\* The inductive invariant of what is stored, shown and worked on.
Inductive == (\E T : Shape(T)) /\ RequestInv

\* More values do no harm.
LEMMA MoreOfT ==
  ASSUME NEW T, NEW U
  PROVE  /\ WorkOf(T) \subseteq WorkOf(T \cup U)
         /\ DraftOf(T) \subseteq DraftOf(T \cup U)
         /\ Seq(MessageOf(T)) \subseteq Seq(MessageOf(T \cup U))
<1>1. WorkOf(T) \subseteq WorkOf(T \cup U)
  BY DEF WorkOf
<1>2. DraftOf(T) \subseteq DraftOf(T \cup U)
  BY DEF DraftOf
<1>3. MessageOf(T) \subseteq MessageOf(T \cup U)
  BY DEF MessageOf
<1>4. Seq(MessageOf(T)) \subseteq Seq(MessageOf(T \cup U))
  BY <1>3, SeqMonotonic
<1>5. QED
  BY <1>1, <1>2, <1>4

\* A handler that goes on with other work, of its post or of none.
LEMMA NewWork ==
  ASSUME NEW T, task \in [Handler -> WorkOf(T)], NEW h \in Handler, NEW U, NEW w \in WorkOf(U),
         task' = [task EXCEPT ![h] = w]
  PROVE  /\ task' \in [Handler -> WorkOf(T \cup U)]
         /\ task'[h] = w
         /\ \A g \in Handler : g # h => task'[g] = task[g]
<1>1. WorkOf(T) \subseteq WorkOf(T \cup U) /\ WorkOf(U) \subseteq WorkOf(T \cup U)
  BY DEF WorkOf
<1>2. QED
  BY <1>1

\* One more message in a place.
LEMMA NewMessage ==
  ASSUME NEW T, shown \in [Place -> Seq(MessageOf(T))], NEW place \in Place, NEW U,
         NEW m \in MessageOf(U), Append1(place, m), NEW S,
         m.post \in S \/ place \notin Column,
         \A c \in Column : \A i \in DOMAIN shown[c] : shown[c][i].post \in S
  PROVE  /\ shown' \in [Place -> Seq(MessageOf(T \cup U))]
         /\ \A c \in Column : \A i \in DOMAIN shown'[c] : shown'[c][i].post \in S
<1>1. Seq(MessageOf(T)) \subseteq Seq(MessageOf(T \cup U)) /\ m \in MessageOf(T \cup U)
  BY MoreOfT DEF MessageOf
<1>2. shown \in [Place -> Seq(MessageOf(T \cup U))]
  BY <1>1
<1>3. shown' = [shown EXCEPT ![place] = Append(shown[place], m)]
  BY DEF Append1
<1>4. shown' \in [Place -> Seq(MessageOf(T \cup U))]
  <2>1. Append(shown[place], m) \in Seq(MessageOf(T \cup U))
    <3>1. shown[place] \in Seq(MessageOf(T \cup U))
      BY <1>2
    <3> HIDE DEF MessageOf
    <3>2. QED
      BY <1>1, <3>1, AppendProperties
  <2>2. QED
    BY <1>2, <1>3, <2>1
<1>5. ASSUME NEW c \in Column, NEW i \in DOMAIN shown'[c]
      PROVE  shown'[c][i].post \in S
  <2>1. Column \subseteq Place
    BY DEF Column, Place
  <2>2. CASE c # place
    BY <1>2, <1>3, <1>5, <2>1, <2>2
  <2>3. CASE c = place
    <3>1. shown[c] \in Seq(MessageOf(T)) /\ shown'[c] = Append(shown[c], m)
      BY <1>2, <1>3, <2>1, <2>3
    <3>2. \/ shown'[c][i] = m
          \/ i \in DOMAIN shown[c] /\ shown'[c][i] = shown[c][i]
      <4>1. /\ Len(shown[c]) \in Nat
            /\ DOMAIN shown[c] = 1 .. Len(shown[c])
            /\ Len(shown'[c]) = Len(shown[c]) + 1
            /\ DOMAIN shown'[c] = 1 .. Len(shown'[c])
            /\ shown'[c][Len(shown[c]) + 1] = m
            /\ \A k \in 1 .. Len(shown[c]) : shown'[c][k] = shown[c][k]
        BY <1>1, <3>1, AppendProperties
      <4>2. i \in 1 .. Len(shown[c]) + 1
        BY <1>5, <4>1
      <4>3. i \in 1 .. Len(shown[c]) \/ i = Len(shown[c]) + 1
        BY <4>1, <4>2
      <4>4. CASE i = Len(shown[c]) + 1
        BY <4>1, <4>4, Zenon
      <4>5. CASE i \in 1 .. Len(shown[c])
        BY <4>1, <4>5, Zenon
      <4>6. QED
        BY <4>3, <4>4, <4>5
    <3>3. QED
      BY <2>3, <3>2
  <2>4. QED
    BY <2>2, <2>3
<1>6. QED
  BY <1>4, <1>5

(***************************************************************************)
(* Two ways of a step: a handler starts, and a handler goes on.            *)
(***************************************************************************)

\* A handler starts at an id that was not drawn before.
LEMMA Starts ==
  ASSUME NEW T, Shape(T), RequestInv, NEW h \in Handler, NEW p \in Post, p \notin received,
         NEW U, NEW w \in WorkOf(U), task' = [task EXCEPT ![h] = w],
         received' = received \cup {p}, UNCHANGED <<entries, drafts, requests, shown>>,
         w.post \in {p, None}, w.pc \in Early => w.post = p,
         w.pc \notin {"request", "send"}
  PROVE  Inductive'
<1>1. /\ task' \in [Handler -> WorkOf(T \cup U)] /\ task'[h] = w
      /\ \A g \in Handler : g # h => task'[g] = task[g]
  BY NewWork DEF Shape
<1>2. Shape(T \cup U)'
  BY <1>1, MoreOfT DEF Shape
<1>3. ReviewInv'
  BY <1>1 DEF RequestInv, ReviewInv, Stored
<1>4. WorkInv'
  <2>1. (entries \cup Stored \subseteq received)'
    BY DEF RequestInv, WorkInv, Stored
  <2>2. ASSUME NEW g \in Handler
        PROVE  /\ task'[g].post \in received' \cup {None}
               /\ task'[g].pc \in Early => task'[g].post \in received' \ Stored'
    BY <1>1, <2>1 DEF RequestInv, WorkInv, Stored
  <2>3. ASSUME NEW f \in Handler, NEW g \in Handler, f # g, task'[f].post = task'[g].post
        PROVE  task'[f].post = None
    BY <1>1, <2>3, DraftingAssumption DEF RequestInv, WorkInv
  <2>4. QED
    BY <2>1, <2>2, <2>3 DEF WorkInv
<1>5. QED
  BY <1>2, <1>3, <1>4 DEF Inductive, RequestInv

\* A handler goes on with its post, or lets go of it.
LEMMA GoesOn ==
  ASSUME NEW T, Shape(T), RequestInv, NEW h \in Handler,
         NEW U, NEW w \in WorkOf(U), task' = [task EXCEPT ![h] = w],
         entries' \subseteq received, UNCHANGED <<received, drafts, requests>>,
         w.post \in {task[h].post, None},
         w.pc \in Early => w.post = task[h].post /\ task[h].pc \in Early,
         w.pc = "send" => w.post = task[h].post /\ task[h].pc = "send",
         w.pc # "request",
         NEW V, shown' \in [Place -> Seq(MessageOf(V))],
         \A c \in Column : \A i \in DOMAIN shown'[c] : shown'[c][i].post \in requests \cup {None}
  PROVE  Inductive'
<1>1. /\ task' \in [Handler -> WorkOf(T \cup U)] /\ task'[h] = w
      /\ \A g \in Handler : g # h => task'[g] = task[g]
  BY NewWork DEF Shape
<1>2. \E W : Shape(W)'
  <2>1. WorkOf(T \cup U) \subseteq WorkOf((T \cup U) \cup V)
    BY MoreOfT
  <2>2. Seq(MessageOf(V)) \subseteq Seq(MessageOf(V \cup (T \cup U)))
    BY MoreOfT
  <2>3. DraftOf(T) \subseteq DraftOf(T \cup (U \cup V))
    BY MoreOfT
  <2>4. V \cup (T \cup U) = (T \cup U) \cup V /\ T \cup (U \cup V) = (T \cup U) \cup V
    OBVIOUS
  <2>5. Shape((T \cup U) \cup V)'
    BY <1>1, <2>1, <2>2, <2>3, <2>4 DEF Shape
  <2>6. QED
    BY <2>5
<1>3. ReviewInv'
  BY <1>1 DEF RequestInv, ReviewInv, Stored, Column
<1>4. WorkInv'
  BY <1>1 DEF RequestInv, WorkInv, Stored
<1>5. QED
  BY <1>2, <1>3, <1>4 DEF Inductive, RequestInv

\* So without a message.
LEMMA GoesOnUnseen ==
  ASSUME NEW T, Shape(T), RequestInv, NEW h \in Handler,
         NEW U, NEW w \in WorkOf(U), task' = [task EXCEPT ![h] = w],
         entries' \subseteq received, UNCHANGED <<received, drafts, requests, shown>>,
         w.post \in {task[h].post, None},
         w.pc \in Early => w.post = task[h].post /\ task[h].pc \in Early,
         w.pc = "send" => w.post = task[h].post /\ task[h].pc = "send",
         w.pc # "request"
  PROVE  Inductive'
<1>1. shown' \in [Place -> Seq(MessageOf(T))]
  BY DEF Shape
<1>2. \A c \in Column : \A i \in DOMAIN shown'[c] : shown'[c][i].post \in requests \cup {None}
  BY DEF Column, RequestInv, ReviewInv
<1>3. QED
  BY <1>1, <1>2, GoesOn

(***************************************************************************)
(* The work that is gone on with.                                          *)
(***************************************************************************)

\* The values that work takes on beside texts and ids.
Basics == {"idle", "notice", "message", "gateway", FALSE, TRUE, <<>>, 1}

\* A handler at rest is at no draft.
LEMMA NoWork ==
  ASSUME NEW work
  PROVE  /\ Idle \in WorkOf(Basics) /\ Idle.post = None /\ Idle.pc = "idle"
         /\ AfterError(work) \in WorkOf(Basics)
         /\ AfterError(work).post = None
         /\ AfterError(work).pc \in {"idle", "notice"}
<1>1. Idle \in WorkOf(Basics) /\ Idle.post = None /\ Idle.pc = "idle"
  BY DEF Idle, WorkOf, Basics
<1>2. [Idle EXCEPT !.pc = "notice"] \in WorkOf(Basics)
  BY DEF Idle, WorkOf, Basics
<1>3. [Idle EXCEPT !.pc = "notice"].post = None /\ [Idle EXCEPT !.pc = "notice"].pc = "notice"
  BY DEF Idle
<1>4. QED
  BY <1>1, <1>2, <1>3 DEF AfterError

\* Going on changes where a handler is, and nothing else of its work.
LEMMA SameWork ==
  ASSUME NEW T, NEW work \in WorkOf(T), NEW pc
  PROVE  /\ [work EXCEPT !.pc = pc] \in WorkOf(T \cup {pc})
         /\ [work EXCEPT !.pc = pc].pc = pc
         /\ [work EXCEPT !.pc = pc].post = work.post
  BY DEF WorkOf

\* A message that was heard leaves a handler with its post at an entry, at a
\* command, or with nothing.
LEMMA WhatIsHeard ==
  ASSUME NEW T, NEW work \in WorkOf(T), NEW text
  PROVE  LET w == Heard(work, text)
         IN  /\ \E U : w \in WorkOf(U)
             /\ \/ w.post = work.post /\ w.pc \in {"command", "journal"}
                \/ w.post = None /\ w.pc \in {"idle", "notice"}
<1> DEFINE direct == work.via = "gateway" /\ IsDirect(text)
           words == IF direct THEN StripPostCommand(text) ELSE text
           U == T \cup {"command", "journal", direct, words}
<1>1. CASE Blank(text)
  BY <1>1, NoWork DEF Heard
<1>2. CASE ~Blank(text) /\ work.via = "gateway" /\ IsLinkedInCommand(text)
  <2> DEFINE w == [work EXCEPT !.pc = "command"]
  <2>1. Heard(work, text) = w
    BY <1>2 DEF Heard
  <2>2. w \in WorkOf(T \cup {"command"}) /\ w.post = work.post /\ w.pc = "command"
    BY SameWork
  <2> HIDE DEF w
  <2>3. QED
    BY <2>1, <2>2
<1>3. CASE ~Blank(text) /\ ~(work.via = "gateway" /\ IsLinkedInCommand(text))
  <2> DEFINE w == [work EXCEPT !.pc = "journal", !.direct = direct, !.texto = words]
  <2>1. Heard(work, text) = w
    BY <1>3 DEF Heard
  <2> HIDE DEF direct, words
  <2>2. w \in WorkOf(U) /\ w.post = work.post /\ w.pc = "journal"
    BY DEF WorkOf
  <2>3. QED
    BY <2>1, <2>2
<1>4. QED
  BY <1>1, <1>2, <1>3

(***************************************************************************)
(* Every step.                                                             *)
(***************************************************************************)

\* An exception ends the work, or has it told to the developer.
LEMMA RaisingEnds ==
  ASSUME NEW T, Shape(T), RequestInv, NEW h \in Handler,
         task' = [task EXCEPT ![h] = AfterError(task[h])],
         UNCHANGED <<received, entries, drafts, requests, shown>>
  PROVE  Inductive'
<1> DEFINE w == AfterError(task[h])
<1>1. task' = [task EXCEPT ![h] = w]
  OBVIOUS
<1>2. w \in WorkOf(Basics) /\ w.post = None /\ w.pc \in {"idle", "notice"}
  BY NoWork
<1>3. entries' \subseteq received
  BY DEF RequestInv, WorkInv
<1> HIDE DEF w
<1>4. QED
  BY <1>1, <1>2, <1>3, GoesOnUnseen DEF Early

\* What starts a handler keeps the inductive invariant.
LEMMA Received ==
  ASSUME NEW T, Shape(T), RequestInv, NEW h \in Handler, NEW p \in Post,
         NEW via \in {"gateway", "rest", "telegram"}, NEW text,
         \/ Receive(h, p, via, text) \/ ReceiveAudio(h, p, via)
         \/ StartDigest(h, p, via) \/ StartSummary(h, p)
  PROVE  Inductive'
<1> USE DEF Early
<1> task[h] \in WorkOf(T)
  BY DEF Shape
<1>1. CASE Receive(h, p, via, text)
  <2> DEFINE work == [task[h] EXCEPT !.via = via, !.post = p]
             w == Heard(work, text)
  <2>1. work \in WorkOf(T \cup {via}) /\ work.post = p
    BY DEF WorkOf
  <2>2. task' = [task EXCEPT ![h] = w]
    BY <1>1 DEF Receive
  <2>3. /\ p \notin received /\ received' = received \cup {p}
        /\ UNCHANGED <<entries, drafts, requests, shown>>
    BY <1>1 DEF Receive
  <2> HIDE DEF work
  <2>4. /\ \E U : w \in WorkOf(U)
        /\ \/ w.post = work.post /\ w.pc \in {"command", "journal"}
           \/ w.post = None /\ w.pc \in {"idle", "notice"}
    BY <2>1, WhatIsHeard
  <2> HIDE DEF w
  <2>5. PICK U : w \in WorkOf(U)
    BY <2>4
  <2>6. /\ w.post \in {p, None} /\ (w.pc \in Early => w.post = p)
        /\ w.pc \notin {"request", "send"}
    BY <2>1, <2>4
  <2>7. QED
    BY <2>2, <2>3, <2>5, <2>6, Starts
<1>2. CASE ReceiveAudio(h, p, via)
  <2> DEFINE w == [task[h] EXCEPT !.pc = "download", !.via = via, !.post = p]
             U == T \cup {"download", via}
  <2>1. w \in WorkOf(U) /\ w.post = p /\ w.pc = "download"
    BY DEF WorkOf
  <2>2. /\ task' = [task EXCEPT ![h] = w] /\ p \notin received /\ received' = received \cup {p}
        /\ UNCHANGED <<entries, drafts, requests, shown>>
    BY <1>2 DEF ReceiveAudio
  <2> HIDE DEF w, U
  <2>3. QED
    BY <2>1, <2>2, Starts
<1>3. CASE StartDigest(h, p, via)
  <2> DEFINE w == [task[h] EXCEPT !.pc = "ask", !.kind = "digest", !.via = via, !.post = p]
             U == T \cup {"ask", "digest", via}
  <2>1. w \in WorkOf(U) /\ w.post = p /\ w.pc = "ask"
    BY DEF WorkOf
  <2>2. /\ task' = [task EXCEPT ![h] = w] /\ p \notin received /\ received' = received \cup {p}
        /\ UNCHANGED <<entries, drafts, requests, shown>>
    BY <1>3 DEF StartDigest
  <2> HIDE DEF w, U
  <2>3. QED
    BY <2>1, <2>2, Starts
<1>4. CASE StartSummary(h, p)
  <2> DEFINE w == [task[h] EXCEPT !.pc = "ask", !.kind = "summary", !.post = p]
             U == T \cup {"ask", "summary"}
  <2>1. w \in WorkOf(U) /\ w.post = p /\ w.pc = "ask"
    BY DEF WorkOf
  <2>2. /\ task' = [task EXCEPT ![h] = w] /\ p \notin received /\ received' = received \cup {p}
        /\ UNCHANGED <<entries, drafts, requests, shown>>
    BY <1>4 DEF StartSummary
  <2> HIDE DEF w, U
  <2>3. QED
    BY <2>1, <2>2, Starts
<1>5. QED
  BY <1>1, <1>2, <1>3, <1>4

\* The steps that neither save a draft, nor request its approval, nor send.
LEMMA Prepared ==
  ASSUME NEW T, Shape(T), RequestInv, NEW h \in Handler,
         \/ CallFails(h) \/ AskFails(h) \/ Refused(h) \/ Download(h) \/ JournalSave(h)
         \/ \E text : Transcribe(h, text)
         \/ \E answer \in Answer : Answered(h, answer)
  PROVE  Inductive'
<1> USE DEF Early
<1>1. task[h] \in WorkOf(T)
  BY DEF Shape
<1>2. entries \subseteq received
  BY DEF RequestInv, WorkInv
<1>3. CASE CallFails(h)
  BY <1>3, RaisingEnds DEF CallFails, Raise, tables
<1>4. CASE AskFails(h)
  <2>1. CASE Raise(h)
    BY <1>4, <2>1, RaisingEnds DEF AskFails, Raise, tables
  <2>2. CASE ~Raise(h)
    <3> DEFINE w == [task[h] EXCEPT !.chat = 2, !.plain = FALSE]
               U == T \cup {2, FALSE}
    <3>1. w \in WorkOf(U) /\ w.post = task[h].post /\ w.pc = task[h].pc
      BY <1>1 DEF WorkOf
    <3>2. task' = [task EXCEPT ![h] = w] /\ task[h].pc = "ask"
      BY <1>4, <2>2 DEF AskFails
    <3>3. UNCHANGED <<received, entries, drafts, requests, shown>>
      BY <1>4 DEF AskFails, tables
    <3> HIDE DEF w, U
    <3>4. QED
      BY <1>2, <3>1, <3>2, <3>3, GoesOnUnseen
  <2>3. QED
    BY <2>1, <2>2
<1>5. CASE Refused(h)
  <2> DEFINE w == [task[h] EXCEPT !.plain = TRUE]
             U == T \cup {TRUE}
  <2>1. w \in WorkOf(U) /\ w.post = task[h].post /\ w.pc = task[h].pc
    BY <1>1 DEF WorkOf
  <2>2. /\ task' = [task EXCEPT ![h] = w] /\ task[h].pc = "ask"
        /\ UNCHANGED <<received, entries, drafts, requests, shown>>
    BY <1>5 DEF Refused, tables
  <2> HIDE DEF w, U
  <2>3. QED
    BY <1>2, <2>1, <2>2, GoesOnUnseen
<1>6. CASE Download(h)
  <2> DEFINE w == [task[h] EXCEPT !.pc = "transcribe"]
             U == T \cup {"transcribe"}
  <2>1. w \in WorkOf(U) /\ w.post = task[h].post /\ w.pc = "transcribe"
    BY <1>1 DEF WorkOf
  <2>2. /\ task' = [task EXCEPT ![h] = w] /\ task[h].pc = "download"
        /\ UNCHANGED <<received, entries, drafts, requests, shown>>
    BY <1>6 DEF Download, Goto, tables
  <2> HIDE DEF w, U
  <2>3. QED
    BY <1>2, <2>1, <2>2, GoesOnUnseen
<1>7. CASE JournalSave(h)
  <2> DEFINE pc == IF Generates /\ ~task[h].direct THEN "ask" ELSE "save"
             w == [task[h] EXCEPT !.pc = pc]
             U == T \cup {pc}
  <2>1. w \in WorkOf(U) /\ w.post = task[h].post /\ w.pc = pc
    BY <1>1 DEF WorkOf
  <2>2. pc \in {"ask", "save"}
    OBVIOUS
  <2>3. /\ task' = [task EXCEPT ![h] = w] /\ task[h].pc = "journal"
        /\ UNCHANGED <<received, drafts, requests, shown>>
    BY <1>7 DEF JournalSave, Goto
  <2>4. entries' \subseteq received
    BY <1>2, <1>7 DEF JournalSave, RequestInv, WorkInv
  <2> HIDE DEF w, U, pc
  <2>5. QED
    BY <2>1, <2>2, <2>3, <2>4, GoesOnUnseen
<1>8. ASSUME NEW text, Transcribe(h, text)
      PROVE  Inductive'
  <2> DEFINE w == Heard(task[h], text)
  <2>1. /\ \E U : w \in WorkOf(U)
        /\ \/ w.post = task[h].post /\ w.pc \in {"command", "journal"}
           \/ w.post = None /\ w.pc \in {"idle", "notice"}
    BY <1>1, WhatIsHeard
  <2>2. /\ task' = [task EXCEPT ![h] = w] /\ task[h].pc = "transcribe"
        /\ UNCHANGED <<received, entries, drafts, requests, shown>>
    BY <1>8 DEF Transcribe, tables
  <2> HIDE DEF w
  <2>3. PICK U : w \in WorkOf(U)
    BY <2>1
  <2>4. QED
    BY <1>2, <2>1, <2>2, <2>3, GoesOnUnseen
<1>9. ASSUME NEW answer \in Answer, Answered(h, answer)
      PROVE  Inductive'
  <2>1. task[h].pc = "ask" /\ UNCHANGED <<received, entries, drafts, requests, shown>>
    BY <1>9 DEF Answered, tables
  <2>2. CASE Raise(h)
    BY <2>1, <2>2, RaisingEnds DEF Raise
  <2>3. CASE task' = [task EXCEPT ![h] = [task[h] EXCEPT !.chat = 3, !.plain = FALSE]]
    <3> DEFINE w == [task[h] EXCEPT !.chat = 3, !.plain = FALSE]
               U == T \cup {3, FALSE}
    <3>1. w \in WorkOf(U) /\ w.post = task[h].post /\ w.pc = task[h].pc
      BY <1>1 DEF WorkOf
    <3>2. task' = [task EXCEPT ![h] = w]
      BY <2>3
    <3> HIDE DEF w, U
    <3>3. QED
      BY <1>2, <2>1, <3>1, <3>2, GoesOnUnseen
  <2>4. ASSUME NEW out,
               task' = [task EXCEPT ![h] = [task[h] EXCEPT
                          !.pc = "save", !.title = out.title, !.texto = out.texto,
                          !.extras = out.extras, !.chat = 1, !.plain = FALSE]]
        PROVE  Inductive'
    <3> DEFINE w == [task[h] EXCEPT !.pc = "save", !.title = out.title, !.texto = out.texto,
                                    !.extras = out.extras, !.chat = 1, !.plain = FALSE]
               U == T \cup {"save", out.title, out.texto, out.extras, 1, FALSE}
    <3>1. w \in WorkOf(U) /\ w.post = task[h].post /\ w.pc = "save"
      BY <1>1 DEF WorkOf
    <3>2. task' = [task EXCEPT ![h] = w]
      BY <2>4
    <3> HIDE DEF w, U
    <3>3. QED
      BY <1>2, <2>1, <3>1, <3>2, GoesOnUnseen
  <2>5. QED
    BY <1>9, <2>2, <2>3, <2>4 DEF Answered
<1>10. QED
  BY <1>3, <1>4, <1>5, <1>6, <1>7, <1>8, <1>9

\* A message to no post, and the end of a handler.
LEMMA Finishes ==
  ASSUME NEW T, Shape(T), RequestInv, NEW h \in Handler,
         task' = [task EXCEPT ![h] = Idle], UNCHANGED <<received, entries, drafts, requests>>,
         NEW place \in Place, NEW m, m.post = None \/ place \notin Column,
         \E U : m \in MessageOf(U), Append1(place, m)
  PROVE  Inductive'
<1>1. PICK U : m \in MessageOf(U)
  OBVIOUS
<1>2. shown \in [Place -> Seq(MessageOf(T))]
  BY DEF Shape
<1>3. \A c \in Column : \A i \in DOMAIN shown[c] : shown[c][i].post \in requests \cup {None}
  BY DEF Column, RequestInv, ReviewInv
<1>4. /\ shown' \in [Place -> Seq(MessageOf(T \cup U))]
      /\ \A c \in Column : \A i \in DOMAIN shown'[c] : shown'[c][i].post \in requests \cup {None}
  <2> DEFINE S == requests \cup {None}
  <2>1. m.post \in S \/ place \notin Column
    OBVIOUS
  <2>2. \A c \in Column : \A i \in DOMAIN shown[c] : shown[c][i].post \in S
    BY <1>3
  <2> HIDE DEF S
  <2>3. /\ shown' \in [Place -> Seq(MessageOf(T \cup U))]
        /\ \A c \in Column : \A i \in DOMAIN shown'[c] : shown'[c][i].post \in S
    BY <1>1, <1>2, <2>1, <2>2, NewMessage
  <2>4. QED
    BY <2>3 DEF S
<1>5. Idle \in WorkOf(Basics) /\ Idle.post = None /\ Idle.pc = "idle"
  BY NoWork
<1>6. entries' \subseteq received
  BY DEF RequestInv, WorkInv
<1>7. QED
  BY <1>4, <1>5, <1>6, GoesOn DEF Early

\* So does what is told about no draft.
LEMMA Told ==
  ASSUME NEW T, Shape(T), RequestInv, NEW h \in Handler,
         \/ Tell(h) \/ LinkedInCommand(h) \/ \E answer \in Answer : Summarised(h, answer)
  PROVE  Inductive'
<1>1. /\ "discord" \in Place /\ "caller" \in Place /\ "caller" \notin Column
  BY DEF Place, Column
<1>2. Notice \in MessageOf({<<"x">>, FALSE}) /\ Notice.post = None
  BY DEF Notice, MessageOf
<1>3. task[h].post \in Post \cup {None}
  BY DEF Shape, WorkOf
<1>4. CASE task' = [task EXCEPT ![h] = Idle]
            /\ UNCHANGED <<received, entries, drafts, requests>> /\ Append1("discord", Notice)
  BY <1>1, <1>2, <1>4, Finishes
<1>5. CASE Tell(h) /\ UNCHANGED shown
  <2>1. Idle \in WorkOf(Basics) /\ Idle.post = None /\ Idle.pc = "idle"
    BY NoWork
  <2>2. /\ task' = [task EXCEPT ![h] = Idle]
        /\ UNCHANGED <<received, entries, drafts, requests, shown>>
    BY <1>5 DEF Tell
  <2>3. entries' \subseteq received
    BY <2>2 DEF RequestInv, WorkInv
  <2>4. QED
    BY <2>1, <2>2, <2>3, GoesOnUnseen DEF Early
<1>6. ASSUME NEW answer \in Answer, Summarised(h, answer)
      PROVE  Inductive'
  <2> DEFINE m == [post |-> task[h].post, text |-> SummaryOutputs[answer], buttons |-> FALSE]
             U == {SummaryOutputs[answer], FALSE}
  <2>1. m \in MessageOf(U)
    BY <1>3 DEF MessageOf
  <2>2. /\ task' = [task EXCEPT ![h] = Idle] /\ UNCHANGED <<received, entries, drafts, requests>>
        /\ Append1("caller", m)
    BY <1>6 DEF Summarised
  <2> HIDE DEF m, U
  <2>3. QED
    BY <1>1, <2>1, <2>2, Finishes
<1>7. QED
  BY <1>4, <1>5, <1>6 DEF Tell, LinkedInCommand

\* The draft that is saved has a text, and is no other handler's.
LEMMA Saved ==
  ASSUME NEW T, Shape(T), RequestInv, NEW h \in Handler, Save(h)
  PROVE  Inductive'
<1> DEFINE p == task[h].post
           texto == TextOf(task[h])
           draft == [digest |-> task[h].kind = "digest", texto |-> texto, extras |-> task[h].extras]
           w == [task[h] EXCEPT !.pc = "request"]
           U == {task[h].kind = "digest", texto, task[h].extras}
<1>1. task[h].pc = "save" /\ UNCHANGED <<received, entries, requests, shown>>
  BY DEF Save
<1>2. CASE ~(task[h].title /\ ~Blank(texto))
  BY <1>1, <1>2, RaisingEnds DEF Save, Raise
<1>3. CASE task[h].title /\ ~Blank(texto)
  <2>1. task' = [task EXCEPT ![h] = w] /\ drafts' = [drafts EXCEPT ![p] = draft]
    BY <1>3 DEF Save, Goto
  <2>2. task[h] \in WorkOf(T) /\ w \in WorkOf(T \cup {"request"}) /\ w.post = p /\ w.pc = "request"
    BY DEF Shape, WorkOf
  <2>3. p \in Post /\ p \in received \ Stored
    BY <1>1 DEF RequestInv, WorkInv, Early, Stored, Shape
  <2>4. draft.texto = texto /\ draft # NoDraft
    <3>1. Blank(NoDraft.texto)
      BY DEF Blank, NoDraft
    <3>2. QED
      BY <1>3, <3>1
  <2>5. /\ task' \in [Handler -> WorkOf(T \cup {"request"})] /\ task'[h] = w
        /\ \A g \in Handler : g # h => task'[g] = task[g]
    <3>1. WorkOf(T) \subseteq WorkOf(T \cup {"request"})
      BY MoreOfT
    <3> HIDE DEF w
    <3>2. QED
      BY <2>1, <2>2, <3>1 DEF Shape
  <2>6. draft \in DraftOf(T \cup U)
    BY DEF DraftOf
  <2> HIDE DEF w, draft, texto
  <2>7. /\ \A q \in Post : drafts'[q] = IF q = p THEN draft ELSE drafts[q]
        /\ Stored' = Stored \cup {p}
    BY <2>1, <2>3, <2>4 DEF Shape, Stored
  <2>8. \E W : Shape(W)'
    <3> DEFINE W == (T \cup U) \cup {"request"}
    <3>1. drafts' \in [Post -> DraftOf(T \cup U)]
      <4>1. \A q \in Post : drafts[q] \in DraftOf(T \cup U)
        BY MoreOfT DEF Shape
      <4>2. QED
        BY <2>1, <2>6, <4>1 DEF Shape
    <3>2. DraftOf(T \cup U) \subseteq DraftOf(W)
      BY MoreOfT
    <3>3. WorkOf(T \cup {"request"}) \subseteq WorkOf((T \cup {"request"}) \cup U)
      BY MoreOfT
    <3>4. Seq(MessageOf(T)) \subseteq Seq(MessageOf(T \cup (U \cup {"request"})))
      BY MoreOfT
    <3>5. (T \cup {"request"}) \cup U = W /\ T \cup (U \cup {"request"}) = W
      OBVIOUS
    <3> HIDE DEF W, U
    <3>6. task' \in [Handler -> WorkOf(W)]
      BY <2>5, <3>3, <3>5
    <3>7. drafts' \in [Post -> DraftOf(W)]
      BY <3>1, <3>2
    <3>8. shown' \in [Place -> Seq(MessageOf(W))]
      BY <1>1, <3>4, <3>5 DEF Shape
    <3>9. PICK V : V = W
      OBVIOUS
    <3>10. Shape(V)'
      BY <1>1, <3>6, <3>7, <3>8, <3>9 DEF Shape
    <3>11. QED
      BY <3>10
  <2>9. ReviewInv'
    <3>1. \A g \in Handler : /\ task'[g].pc = "request" => task'[g].post \in Stored' \ requests'
                             /\ task'[g].pc = "send" => task'[g].post \in requests'
      BY <1>1, <2>2, <2>3, <2>5, <2>7 DEF RequestInv, ReviewInv
    <3>2. \A q \in Stored' : ~Blank(drafts'[q].texto)
      BY <1>3, <2>4, <2>7 DEF RequestInv, ReviewInv, Stored
    <3>3. QED
      BY <1>1, <2>7, <3>1, <3>2 DEF RequestInv, ReviewInv
  <2>10. WorkInv'
    <3>1. (entries \cup Stored \subseteq received)'
      BY <1>1, <2>3, <2>7 DEF RequestInv, WorkInv
    <3>2. ASSUME NEW g \in Handler
          PROVE  /\ task'[g].post \in received' \cup {None}
                 /\ task'[g].pc \in Early => task'[g].post \in received' \ Stored'
      <4>1. CASE g = h
        BY <1>1, <2>2, <2>3, <2>5, <4>1 DEF Early
      <4>2. CASE g # h
        <5>1. task[g].post # p \/ p = None
          BY <4>2 DEF RequestInv, WorkInv
        <5>2. p # None
          BY <2>3, DraftingAssumption DEF None
        <5>3. QED
          BY <1>1, <2>5, <2>7, <4>2, <5>1, <5>2 DEF RequestInv, WorkInv
      <4>3. QED
        BY <4>1, <4>2
    <3>3. \A f, g \in Handler : f # g /\ task'[f].post = task'[g].post => task'[f].post = None
      BY <2>2, <2>5 DEF RequestInv, WorkInv
    <3>4. QED
      BY <3>1, <3>2, <3>3 DEF WorkInv
  <2>11. QED
    BY <2>8, <2>9, <2>10 DEF Inductive, RequestInv
<1>4. QED
  BY <1>2, <1>3

\* A request is of a draft nobody has requested before.
LEMMA Requested ==
  ASSUME NEW T, Shape(T), RequestInv, NEW h \in Handler, Request(h)
  PROVE  Inductive'
<1> DEFINE p == task[h].post
           w == [task[h] EXCEPT !.pc = "send"]
<1>1. /\ task[h].pc = "request" /\ task' = [task EXCEPT ![h] = w]
      /\ requests' = requests \cup {p} /\ UNCHANGED <<received, entries, drafts, shown>>
  BY DEF Request, Goto
<1>2. task[h] \in WorkOf(T) /\ w \in WorkOf(T \cup {"send"}) /\ w.post = p /\ w.pc = "send"
  BY DEF Shape, WorkOf
<1>3. p \in Stored \ requests /\ p \in Post /\ p # None
  BY <1>1, DraftingAssumption DEF RequestInv, ReviewInv, Stored, None
<1> HIDE DEF w
<1>4. WorkOf(T) \subseteq WorkOf(T \cup {"send"})
  BY MoreOfT
<1>5. /\ task' \in [Handler -> WorkOf(T \cup {"send"})] /\ task'[h] = w
      /\ \A g \in Handler : g # h => task'[g] = task[g]
  BY <1>1, <1>2, <1>4 DEF Shape
<1>6. Shape(T \cup {"send"})'
  BY <1>1, <1>5, MoreOfT DEF Shape
<1>7. Stored' = Stored
  BY <1>1 DEF Stored
<1>8. ReviewInv'
  <2>1. ASSUME NEW g \in Handler
        PROVE  /\ task'[g].pc = "request" => task'[g].post \in Stored' \ requests'
               /\ task'[g].pc = "send" => task'[g].post \in requests'
    <3>1. CASE g = h
      BY <1>1, <1>2, <1>5, <3>1
    <3>2. CASE g # h
      <4>1. task[g].post # p
        BY <1>3, <3>2 DEF RequestInv, WorkInv
      <4>2. QED
        BY <1>1, <1>5, <1>7, <3>2, <4>1 DEF RequestInv, ReviewInv
    <3>3. QED
      BY <3>1, <3>2
  <2>2. requests' \subseteq Stored'
    BY <1>1, <1>3, <1>7 DEF RequestInv, ReviewInv
  <2>3. QED
    BY <1>1, <1>7, <2>1, <2>2 DEF RequestInv, ReviewInv
<1>9. WorkInv'
  BY <1>1, <1>2, <1>5, <1>7 DEF RequestInv, WorkInv, Early
<1>10. QED
  BY <1>6, <1>8, <1>9 DEF Inductive, RequestInv

\* What is sent is of a draft whose approval is requested.
LEMMA Sent ==
  ASSUME NEW T, Shape(T), RequestInv, NEW h \in Handler, Send(h)
  PROVE  Inductive'
<1> DEFINE out == Layout(task[h].via, drafts[task[h].post])
           last == task[h].next = Len(out)
           place == PlaceOf(task[h].via)
           m == [post |-> task[h].post, text |-> out[task[h].next], buttons |-> last]
           U == {out[task[h].next], last}
           next == [task[h] EXCEPT !.next = task[h].next + 1]
           more == {task[h].next + 1}
           S == requests \cup {None}
<1>1. /\ task[h].pc = "send" /\ UNCHANGED <<received, entries, drafts, requests>>
      /\ Append1(place, m)
      /\ task' = [task EXCEPT ![h] = IF last THEN Idle ELSE next]
  BY DEF Send
<1>2. task[h] \in WorkOf(T) /\ task[h].post \in requests /\ task[h].post \in Post \cup {None}
  BY <1>1 DEF Shape, WorkOf, RequestInv, ReviewInv
<1>3. place \in Place
  BY DEF PlaceOf, Place
<1> HIDE DEF out, last
<1>4. m \in MessageOf(U) /\ m.post \in S
  BY <1>2 DEF MessageOf
<1>5. next \in WorkOf(T \cup more) /\ next.post = task[h].post /\ next.pc = task[h].pc
  BY <1>2 DEF WorkOf
<1>6. shown \in [Place -> Seq(MessageOf(T))]
  BY DEF Shape
<1>7. \A c \in Column : \A i \in DOMAIN shown[c] : shown[c][i].post \in S
  BY DEF Column, RequestInv, ReviewInv
<1>8. PICK V, W : V = T \cup U /\ W = T \cup more
  OBVIOUS
<1> HIDE DEF m, U, next, more, place, S
<1>9. /\ shown' \in [Place -> Seq(MessageOf(V))]
      /\ \A c \in Column : \A i \in DOMAIN shown'[c] : shown'[c][i].post \in S
  BY <1>1, <1>3, <1>4, <1>6, <1>7, <1>8, NewMessage
<1>10. \A c \in Column : \A i \in DOMAIN shown'[c] : shown'[c][i].post \in requests \cup {None}
  BY <1>9 DEF S
<1>11. entries' \subseteq received
  BY <1>1 DEF RequestInv, WorkInv
<1>12. CASE last
  <2>1. Idle \in WorkOf(Basics) /\ Idle.post = None /\ Idle.pc = "idle"
    BY NoWork
  <2>2. task' = [task EXCEPT ![h] = Idle]
    BY <1>1, <1>12
  <2>3. QED
    BY <1>1, <1>9, <1>10, <1>11, <2>1, <2>2, GoesOn DEF Early
<1>13. CASE ~last
  <2>1. task' = [task EXCEPT ![h] = next] /\ next \in WorkOf(W)
    BY <1>1, <1>5, <1>8, <1>13
  <2>2. QED
    BY <1>1, <1>5, <1>9, <1>10, <1>11, <2>1, GoesOn DEF Early
<1>14. QED
  BY <1>12, <1>13

\* It holds at first ...
LEMMA InitInductive ==
  ASSUME DraftingInit
  PROVE  Inductive
<1> DEFINE T == Basics
<1>1. Idle \in WorkOf(T) /\ Idle.post = None /\ Idle.pc = "idle"
  BY NoWork
<1>2. NoDraft \in DraftOf(T)
  BY DEF NoDraft, Basics, DraftOf
<1>3. <<>> \in Seq(MessageOf(T))
  BY EmptySeq
<1>4. Shape(T)
  BY <1>1, <1>2, <1>3 DEF DraftingInit, Shape
<1>5. Stored = {}
  BY DEF DraftingInit, Stored
<1>6. \A c \in Column : DOMAIN shown[c] = {}
  BY DEF DraftingInit, Column, Place
<1>7. \A h \in Handler : task[h].post = None /\ task[h].pc = "idle"
  BY <1>1 DEF DraftingInit
<1>8. ReviewInv
  BY <1>5, <1>6, <1>7 DEF DraftingInit, ReviewInv, Column
<1>9. WorkInv
  BY <1>5, <1>7 DEF DraftingInit, WorkInv, Early
<1>10. QED
  BY <1>4, <1>8, <1>9 DEF Inductive, RequestInv

\* ... and every step keeps it.
LEMMA StepInductive ==
  ASSUME Inductive, [DraftingNext]_draftingVars
  PROVE  Inductive'
<1>1. PICK T : Shape(T)
  BY DEF Inductive
<1>2. RequestInv
  BY DEF Inductive
<1>3. ASSUME NEW h \in Handler, HandlerStep(h)
      PROVE  Inductive'
  <2>1. CASE CallFails(h) \/ AskFails(h) \/ Refused(h) \/ Download(h) \/ JournalSave(h)
    BY <1>1, <1>2, <2>1, Prepared
  <2>2. CASE \E text : Transcribe(h, text)
    BY <1>1, <1>2, <2>2, Prepared
  <2>3. CASE \E answer \in Answer : Answered(h, answer)
    BY <1>1, <1>2, <2>3, Prepared
  <2>4. CASE Tell(h) \/ LinkedInCommand(h) \/ \E answer \in Answer : Summarised(h, answer)
    BY <1>1, <1>2, <2>4, Told
  <2>5. CASE Save(h)
    BY <1>1, <1>2, <2>5, Saved
  <2>6. CASE Request(h)
    BY <1>1, <1>2, <2>6, Requested
  <2>7. CASE Send(h)
    BY <1>1, <1>2, <2>7, Sent
  <2>8. QED
    BY <1>3, <2>1, <2>2, <2>3, <2>4, <2>5, <2>6, <2>7 DEF HandlerStep
<1>4. ASSUME NEW h \in Handler, NEW p \in Post,
             NEW via \in {"gateway", "rest", "telegram"}, NEW text,
             \/ Receive(h, p, via, text) \/ ReceiveAudio(h, p, via)
             \/ StartDigest(h, p, via) \/ StartSummary(h, p)
      PROVE  Inductive'
  BY <1>1, <1>2, <1>4, Received
<1>5. CASE DraftingNext
  BY <1>3, <1>4, <1>5 DEF DraftingNext
<1>6. CASE UNCHANGED draftingVars
  <2>1. Shape(T)'
    BY <1>1, <1>6 DEF Shape, draftingVars
  <2>2. RequestInv'
    BY <1>2, <1>6 DEF RequestInv, ReviewInv, WorkInv, Stored, draftingVars
  <2>3. QED
    BY <2>1, <2>2 DEF Inductive
<1>7. QED
  BY <1>5, <1>6

(***************************************************************************)
(* What is kept of the messages and of the drafts that are being sent.     *)
(***************************************************************************)

\* The type invariant, without the ids.
Typed ==
  /\ received \subseteq Post
  /\ task \in [Handler -> Work]
  /\ drafts \in [Post -> Draft]
  /\ shown \in [Place -> Seq(MessageType)]

\* What is said of message i of a place: with ds for the drafts.
Fits(ds, place, ms, i) ==
  LET m == ms[i]
      draft == ds[m.post]
      read == Read(SubSeq(ms, 1, i), m.post)
  IN  /\ place = "discord" => Len(m.text) <= MessageLimit
      /\ m.buttons /\ place = "discord" =>
           read = Words(Full(IF draft.digest THEN draft.texto ELSE FormatBody(draft)))
      /\ m.buttons /\ place = "telegram" =>
           Len(read) > 1 /\ IsPrefix(Tail(read), Words(draft.texto))

\* Every message of every place, in terms of the drafts ds.
MessagesFitIn(ds, ms) == \A place \in Place : \A i \in DOMAIN ms[place] : Fits(ds, place, ms[place], i)

\* Buttons are of a draft.
ButtonsAreOfPosts == \A c \in Column : \A i \in DOMAIN shown[c] :
                       shown[c][i].buttons => shown[c][i].post # None

\* What is said of what a handler sends: of its work, the drafts and the messages.
Sends(work, ds, ms) ==
  LET out == Layout(work.via, ds[work.post])
  IN  IF work.pc = "send"
      THEN /\ work.next \in DOMAIN out
           /\ Read(ms[PlaceOf(work.via)], work.post) = Sofar(out, work.next - 1)
      ELSE work.next = 1

\* What is inductive together with RequestInv.
Whole ==
  /\ Typed
  /\ MessagesFitIn(drafts, shown)
  /\ ButtonsAreOfPosts
  /\ \A h \in Handler : Sends(task[h], drafts, shown)

\* SendInv, in the words used here.
LEMMA SendInvIs == SendInv <=> ButtonsAreOfPosts /\ \A h \in Handler : Sends(task[h], drafts, shown)
BY DEF SendInv, ButtonsAreOfPosts, Sends, Sofar, Column

\* One more message leaves those before it as they fit.
LEMMA FitsAppend ==
  ASSUME NEW ds, NEW place, NEW ms \in Seq(MessageType), NEW m \in MessageType,
         \A i \in DOMAIN ms : Fits(ds, place, ms, i),
         place = "discord" => Len(m.text) <= MessageLimit,
         NEW read, read = Read(Append(ms, m), m.post),
         m.buttons /\ place = "discord" =>
           read = Words(Full(IF ds[m.post].digest THEN ds[m.post].texto
                             ELSE FormatBody(ds[m.post]))),
         m.buttons /\ place = "telegram" =>
           Len(read) > 1 /\ IsPrefix(Tail(read), Words(ds[m.post].texto))
  PROVE  \A i \in DOMAIN Append(ms, m) : Fits(ds, place, Append(ms, m), i)
<1> DEFINE t == Append(ms, m)
           n == Len(ms)
<1>1. /\ t \in Seq(MessageType) /\ Len(t) = n + 1 /\ n \in Nat /\ DOMAIN t = 1 .. n + 1
      /\ t[n + 1] = m /\ DOMAIN ms = 1 .. n
      /\ \A i \in 1 .. n : t[i] = ms[i]
  BY AppendProperties, LenProperties
<1> HIDE DEF t, n
<1>2. ASSUME NEW i \in 1 .. n
      PROVE  SubSeq(t, 1, i) = SubSeq(ms, 1, i)
  <2>1. \A k \in 1 .. i : t[k] \in MessageType /\ t[k] = ms[k] /\ ms[k] \in MessageType
    BY <1>1, LenProperties
  <2>2. i \in Nat
    BY <1>1
  <2>3. /\ SubSeq(t, 1, i) \in Seq(MessageType) /\ Len(SubSeq(t, 1, i)) = i
        /\ \A k \in 1 .. i : SubSeq(t, 1, i)[k] = t[k]
    BY <2>1, <2>2, SubSeqProperties
  <2>4. /\ SubSeq(ms, 1, i) \in Seq(MessageType) /\ Len(SubSeq(ms, 1, i)) = i
        /\ \A k \in 1 .. i : SubSeq(ms, 1, i)[k] = ms[k]
    BY <2>1, <2>2, SubSeqProperties
  <2>5. QED
    BY <2>1, <2>3, <2>4, SeqEqual
<1>3. SubSeq(t, 1, n + 1) = t
  BY <1>1, SubSeqFull
<1>4. ASSUME NEW i \in 1 .. n
      PROVE  Fits(ds, place, t, i)
  <2>1. Fits(ds, place, ms, i) /\ t[i] = ms[i] /\ SubSeq(t, 1, i) = SubSeq(ms, 1, i)
    BY <1>1, <1>2
  <2>2. QED
    BY <2>1 DEF Fits
<1>5. Fits(ds, place, t, n + 1)
  BY <1>1, <1>3 DEF Fits, t
<1>6. QED
  BY <1>1, <1>4, <1>5 DEF t

\* The drafts buttons are of stay as they are.
LEMMA FitsStill ==
  ASSUME Whole, RequestInv, NEW ds, \A p \in requests : ds[p] = drafts[p]
  PROVE  MessagesFitIn(ds, shown)
<1> SUFFICES ASSUME NEW place \in Place, NEW i \in DOMAIN shown[place]
             PROVE  Fits(ds, place, shown[place], i)
  BY DEF MessagesFitIn
<1>1. Fits(drafts, place, shown[place], i)
  BY DEF Whole, MessagesFitIn
<1>2. place \in Column /\ shown[place][i].buttons => shown[place][i].post \in requests
  BY DEF Column, Whole, ButtonsAreOfPosts, RequestInv, ReviewInv
<1>3. QED
  BY <1>1, <1>2 DEF Fits, Column

\* What other handlers send is as it was.
LEMMA SendsStill ==
  ASSUME Whole, RequestInv, NEW ds, \A p \in requests : ds[p] = drafts[p],
         NEW g \in Handler
  PROVE  Sends(task[g], ds, shown)
<1>1. Sends(task[g], drafts, shown) /\ (task[g].pc = "send" => task[g].post \in requests)
  BY DEF Whole, RequestInv, ReviewInv
<1>2. QED
  BY <1>1 DEF Sends

\* A step that shows nothing.
LEMMA Quiet ==
  ASSUME Whole, RequestInv, NEW h \in Handler, NEW w \in Work, task' = [task EXCEPT ![h] = w],
         UNCHANGED shown, received' \subseteq Post, drafts' \in [Post -> Draft],
         \A p \in requests : drafts'[p] = drafts[p],
         Sends(w, drafts', shown)
  PROVE  Whole'
<1>1. /\ task' \in [Handler -> Work] /\ task'[h] = w
      /\ \A g \in Handler : g # h => task'[g] = task[g]
  BY DEF Whole, Typed
<1>2. Typed'
  BY <1>1 DEF Whole, Typed
<1>3. MessagesFitIn(drafts, shown)'
  BY FitsStill
<1>4. \A g \in Handler : Sends(task'[g], drafts', shown')
  <2> SUFFICES ASSUME NEW g \in Handler PROVE Sends(task'[g], drafts', shown')
    OBVIOUS
  <2>1. CASE g = h
    BY <1>1, <2>1
  <2>2. CASE g # h
    <3>1. Sends(task[g], drafts', shown)
      BY SendsStill
    <3>2. QED
      BY <1>1, <2>2, <3>1
  <2>3. QED
    BY <2>1, <2>2
<1>5. ButtonsAreOfPosts'
  BY DEF Whole, ButtonsAreOfPosts
<1>6. QED
  BY <1>2, <1>3, <1>4, <1>5 DEF Whole

\* A step of a handler that shows a message, of its post or of none.
LEMMA Showing ==
  ASSUME Whole, RequestInv, NEW h \in Handler, NEW w \in Work, task' = [task EXCEPT ![h] = w],
         UNCHANGED <<received, drafts>>,
         NEW place \in Place, NEW m \in MessageType, Append1(place, m),
         place \in Column => m.post \in {task[h].post, None} /\ (m.buttons => m.post # None),
         \A i \in DOMAIN Append(shown[place], m) : Fits(drafts, place, Append(shown[place], m), i),
         Sends(w, drafts, shown')
  PROVE  Whole'
<1>1. /\ task' \in [Handler -> Work] /\ task'[h] = w
      /\ \A g \in Handler : g # h => task'[g] = task[g]
  BY DEF Whole, Typed
<1>2. PICK ms : ms = Append(shown[place], m)
  OBVIOUS
<1>3. shown \in [Place -> Seq(MessageType)] /\ shown[place] \in Seq(MessageType)
  BY DEF Whole, Typed
<1>4. /\ ms \in Seq(MessageType) /\ Len(ms) = Len(shown[place]) + 1 /\ DOMAIN ms = 1 .. Len(ms)
      /\ Len(shown[place]) \in Nat /\ DOMAIN shown[place] = 1 .. Len(shown[place])
      /\ ms[Len(shown[place]) + 1] = m
      /\ \A i \in 1 .. Len(shown[place]) : ms[i] = shown[place][i]
  BY <1>2, <1>3, AppendProperties, LenProperties
<1>5. /\ shown' \in [Place -> Seq(MessageType)] /\ shown'[place] = ms
      /\ \A c \in Place : c # place => shown'[c] = shown[c]
  BY <1>2, <1>3, <1>4 DEF Append1
<1>6. Typed'
  BY <1>1, <1>5 DEF Whole, Typed
<1>7. MessagesFitIn(drafts, shown)'
  <2> SUFFICES ASSUME NEW c \in Place, NEW i \in DOMAIN shown'[c]
               PROVE  Fits(drafts', c, shown'[c], i)
    BY DEF MessagesFitIn
  <2>1. CASE c = place
    BY <1>2, <1>5, <2>1
  <2>2. CASE c # place
    <3>1. Fits(drafts, c, shown[c], i)
      BY <1>5, <2>2 DEF Whole, MessagesFitIn
    <3>2. QED
      BY <1>5, <2>2, <3>1
  <2>3. QED
    BY <2>1, <2>2
<1>8. ButtonsAreOfPosts'
  <2> SUFFICES ASSUME NEW c \in Column, NEW i \in DOMAIN shown'[c], shown'[c][i].buttons
               PROVE  shown'[c][i].post # None
    BY DEF ButtonsAreOfPosts
  <2> c \in Place
    BY DEF Column, Place
  <2>1. CASE c = place
    <3>1. shown'[c] = ms /\ i \in 1 .. Len(shown[place]) + 1
      BY <1>4, <1>5, <2>1
    <3>2. CASE i = Len(shown[place]) + 1
      <4>1. shown'[c][i] = m
        BY <1>4, <3>1, <3>2
      <4>2. QED
        BY <2>1, <4>1
    <3>3. CASE i # Len(shown[place]) + 1
      <4>1. i \in DOMAIN shown[place]
        BY <1>4, <3>1, <3>3
      <4>2. shown'[c][i] = shown[c][i]
        BY <1>4, <2>1, <3>1, <4>1
      <4>3. QED
        BY <2>1, <4>1, <4>2 DEF Whole, ButtonsAreOfPosts
    <3>4. QED
      BY <3>2, <3>3
  <2>2. CASE c # place
    BY <1>5, <2>2 DEF Whole, ButtonsAreOfPosts
  <2>3. QED
    BY <2>1, <2>2
<1>9. \A g \in Handler : Sends(task'[g], drafts', shown')
  <2> SUFFICES ASSUME NEW g \in Handler PROVE Sends(task'[g], drafts', shown')
    OBVIOUS
  <2>1. CASE g = h
    BY <1>1, <2>1
  <2>2. CASE g # h
    <3> DEFINE there == PlaceOf(task[g].via)
               post == task[g].post
    <3>1. Sends(task[g], drafts, shown)
      BY DEF Whole
    <3>2. there \in Column /\ there \in Place
      BY DEF PlaceOf, Column, Place
    <3>3. task[g].pc = "send" => Read(shown'[there], post) = Read(shown[there], post)
      <4>1. SUFFICES ASSUME task[g].pc = "send"
                     PROVE  Read(shown'[there], post) = Read(shown[there], post)
        OBVIOUS
      <4>2. post \in Post /\ post # None
        BY <4>1, DraftingAssumption DEF RequestInv, ReviewInv, Stored, None
      <4>3. post # task[h].post
        BY <2>2, <4>2 DEF RequestInv, WorkInv
      <4>4. CASE there = place
        <5>1. m.post # post
          BY <3>2, <4>2, <4>3, <4>4
        <5>2. Read(ms, post) = Read(shown[place], post)
          BY <1>2, <1>3, <5>1, ReadAppend
        <5>3. QED
          BY <1>5, <4>4, <5>2
      <4>5. CASE there # place
        BY <1>5, <3>2, <4>5
      <4>6. QED
        BY <4>4, <4>5
    <3>4. Sends(task[g], drafts, shown')
      BY <3>1, <3>3 DEF Sends
    <3>5. QED
      BY <1>1, <2>2, <3>4
  <2>3. QED
    BY <2>1, <2>2
<1>10. QED
  BY <1>6, <1>7, <1>8, <1>9 DEF Whole

(***************************************************************************)
(* Every step keeps that.                                                  *)
(***************************************************************************)

\* A handler at rest, and one that raised, sends nothing.
LEMMA IdleIs ==
  /\ Idle \in Work /\ Idle.next = 1 /\ Idle.pc = "idle"
  /\ \A work : AfterError(work) \in Work /\ AfterError(work).next = 1 /\ AfterError(work).pc # "send"
<1>1. Idle \in Work /\ Idle.next = 1 /\ Idle.pc = "idle"
  <2>1. <<>> \in Seq(Char)
    BY EmptySeq
  <2>2. QED
    BY <2>1 DEF Idle, Work, Text
<1>2. [Idle EXCEPT !.pc = "notice"] \in Work /\ [Idle EXCEPT !.pc = "notice"].next = 1
      /\ [Idle EXCEPT !.pc = "notice"].pc # "send"
  BY <1>1 DEF Idle, Work
<1>3. QED
  BY <1>1, <1>2 DEF AfterError

\* What was heard is worked on, and not sent yet.
LEMMA HeardIs ==
  ASSUME NEW work \in Work, work.next = 1, NEW text \in Seq(Char)
  PROVE  LET w == Heard(work, text)
         IN  w \in Work /\ w.next = 1 /\ w.pc # "send"
<1> DEFINE direct == work.via = "gateway" /\ IsDirect(text)
           words == IF direct THEN StripPostCommand(text) ELSE text
<1>1. CASE Blank(text)
  BY <1>1, IdleIs DEF Heard
<1>2. CASE ~Blank(text) /\ work.via = "gateway" /\ IsLinkedInCommand(text)
  <2> DEFINE w == [work EXCEPT !.pc = "command"]
  <2>1. Heard(work, text) = w
    BY <1>2 DEF Heard
  <2>2. w \in Work /\ w.next = 1 /\ w.pc # "send"
    BY DEF Work
  <2> HIDE DEF w
  <2>3. QED
    BY <2>1, <2>2
<1>3. CASE ~Blank(text) /\ ~(work.via = "gateway" /\ IsLinkedInCommand(text))
  <2> DEFINE w == [work EXCEPT !.pc = "journal", !.direct = direct, !.texto = words]
  <2>1. Heard(work, text) = w
    BY <1>3 DEF Heard
  <2>2. words \in Seq(Char)
    <3>1. CASE direct
      <4>1. Strip(text) \in Seq(Char) /\ Len(Strip(text)) > 1
        BY <3>1, StripIs DEF IsDirect
      <4>2. Strip(text) # <<>>
        BY <4>1, EmptySeq
      <4>3. Tail(Strip(text)) \in Seq(Char)
        BY <4>1, <4>2, HeadTailProperties
      <4>4. QED
        BY <3>1, <4>3, StripIs DEF StripPostCommand
    <3>2. CASE ~direct
      BY <3>2
    <3>3. QED
      BY <3>1, <3>2
  <2>3. direct \in BOOLEAN
    BY DEF IsDirect
  <2> HIDE DEF direct, words
  <2>4. w \in Work /\ w.next = 1 /\ w.pc # "send"
    BY <2>2, <2>3 DEF Work, Text
  <2> HIDE DEF w
  <2>5. QED
    BY <2>1, <2>4
<1>4. QED
  BY <1>1, <1>2, <1>3

\* A step before there is anything to send.
LEMMA WorksOn ==
  ASSUME Whole, RequestInv, NEW h \in Handler, NEW w \in Work, task' = [task EXCEPT ![h] = w],
         UNCHANGED <<drafts, shown>>, received' \subseteq Post,
         w.next = 1, w.pc # "send"
  PROVE  Whole'
<1>1. Sends(w, drafts', shown)
  BY DEF Sends
<1>2. drafts' \in [Post -> Draft] /\ \A p \in requests : drafts'[p] = drafts[p]
  BY DEF Whole, Typed
<1>3. QED
  BY <1>1, <1>2, Quiet

\* The work of a handler is one of Work.
LEMMA WorkIs ==
  ASSUME Whole, NEW h \in Handler
  PROVE  task[h] \in Work /\ (task[h].pc # "send" => task[h].next = 1)
BY DEF Whole, Typed, Sends

\* A call of the provider more, or the last one.
LEMMA NewChat ==
  ASSUME NEW work \in Work, NEW chat \in 1 .. 3
  PROVE  LET w == [work EXCEPT !.chat = chat, !.plain = FALSE]
         IN  w \in Work /\ w.next = work.next /\ w.pc = work.pc
<1>1. PICK v : v = [work EXCEPT !.chat = chat]
  OBVIOUS
<1>2. v \in Work /\ v.next = work.next /\ v.pc = work.pc
  BY <1>1 DEF Work
<1>3. [v EXCEPT !.plain = FALSE] \in Work
  BY <1>2 DEF Work
<1>4. [v EXCEPT !.plain = FALSE].next = v.next /\ [v EXCEPT !.plain = FALSE].pc = v.pc
  BY <1>2 DEF Work
<1>5. QED
  BY <1>1, <1>2, <1>3, <1>4

\* An exception ends the work of its handler, and changes no message.
LEMMA RaisesWhole ==
  ASSUME Whole, RequestInv, NEW h \in Handler, Raise(h), UNCHANGED <<received, drafts, shown>>
  PROVE  Whole'
<1> DEFINE w == AfterError(task[h])
<1>1. task' = [task EXCEPT ![h] = w]
  BY DEF Raise
<1>2. w \in Work /\ w.next = 1 /\ w.pc # "send"
  BY IdleIs
<1>3. received' \subseteq Post
  BY DEF Whole, Typed
<1> HIDE DEF w
<1>4. QED
  BY <1>1, <1>2, <1>3, WorksOn

\* So with what starts a handler ...
LEMMA ReceivedWhole ==
  ASSUME Whole, RequestInv, NEW h \in Handler, NEW p \in Post,
         NEW via \in {"gateway", "rest", "telegram"}, NEW text \in Seq(Char),
         \/ Receive(h, p, via, text) \/ ReceiveAudio(h, p, via)
         \/ StartDigest(h, p, via) \/ StartSummary(h, p)
  PROVE  Whole'
<1>1. task[h] \in Work /\ task[h].pc = "idle" /\ task[h].next = 1
  BY WorkIs DEF Receive, ReceiveAudio, StartDigest, StartSummary
<1>2. UNCHANGED <<drafts, shown>> /\ received' \subseteq Post
  BY DEF Whole, Typed, Receive, ReceiveAudio, StartDigest, StartSummary
<1>3. CASE Receive(h, p, via, text)
  <2> DEFINE work == [task[h] EXCEPT !.via = via, !.post = p]
             w == Heard(work, text)
  <2>1. work \in Work /\ work.next = 1
    BY <1>1 DEF Work
  <2>2. task' = [task EXCEPT ![h] = w]
    BY <1>3 DEF Receive
  <2> HIDE DEF work
  <2>3. w \in Work /\ w.next = 1 /\ w.pc # "send"
    BY <2>1, HeardIs
  <2> HIDE DEF w
  <2>4. QED
    BY <1>2, <2>2, <2>3, WorksOn
<1>4. CASE ReceiveAudio(h, p, via)
  <2> DEFINE w == [task[h] EXCEPT !.pc = "download", !.via = via, !.post = p]
  <2>1. w \in Work /\ w.next = 1 /\ w.pc # "send"
    BY <1>1 DEF Work
  <2>2. task' = [task EXCEPT ![h] = w]
    BY <1>4 DEF ReceiveAudio
  <2> HIDE DEF w
  <2>3. QED
    BY <1>2, <2>1, <2>2, WorksOn
<1>5. CASE StartDigest(h, p, via)
  <2> DEFINE w == [task[h] EXCEPT !.pc = "ask", !.kind = "digest", !.via = via, !.post = p]
  <2>1. w \in Work /\ w.next = 1 /\ w.pc # "send"
    BY <1>1 DEF Work
  <2>2. task' = [task EXCEPT ![h] = w]
    BY <1>5 DEF StartDigest
  <2> HIDE DEF w
  <2>3. QED
    BY <1>2, <2>1, <2>2, WorksOn
<1>6. CASE StartSummary(h, p)
  <2> DEFINE w == [task[h] EXCEPT !.pc = "ask", !.kind = "summary", !.post = p]
  <2>1. w \in Work /\ w.next = 1 /\ w.pc # "send"
    BY <1>1 DEF Work
  <2>2. task' = [task EXCEPT ![h] = w]
    BY <1>6 DEF StartSummary
  <2> HIDE DEF w
  <2>3. QED
    BY <1>2, <2>1, <2>2, WorksOn
<1>7. QED
  BY <1>3, <1>4, <1>5, <1>6

\* ... with the calls before a draft is saved ...
LEMMA PreparedWhole ==
  ASSUME Whole, RequestInv, NEW h \in Handler,
         \/ CallFails(h) \/ AskFails(h) \/ Refused(h) \/ Download(h) \/ JournalSave(h)
         \/ \E text \in Seq(Char) : Transcribe(h, text)
         \/ \E answer \in Answer : Answered(h, answer)
  PROVE  Whole'
<1>1. task[h] \in Work /\ (task[h].pc # "send" => task[h].next = 1)
  BY WorkIs
<1>2. received \subseteq Post
  BY DEF Whole, Typed
<1>3. CASE CallFails(h)
  BY <1>3, RaisesWhole DEF CallFails, tables
<1>4. CASE AskFails(h)
  <2>1. task[h].pc = "ask" /\ UNCHANGED <<received, drafts, shown>>
    BY <1>4 DEF AskFails, tables
  <2>2. CASE Raise(h)
    BY <2>1, <2>2, RaisesWhole
  <2>3. CASE ~Raise(h)
    <3> DEFINE w == [task[h] EXCEPT !.chat = 2, !.plain = FALSE]
    <3>1. w \in Work /\ w.next = 1 /\ w.pc # "send"
      <4>1. 2 \in 1 .. 3
        OBVIOUS
      <4>2. QED
        BY <1>1, <2>1, <4>1, NewChat
    <3>2. task' = [task EXCEPT ![h] = w]
      BY <1>4, <2>3 DEF AskFails
    <3> HIDE DEF w
    <3>3. QED
      BY <1>2, <2>1, <3>1, <3>2, WorksOn
  <2>4. QED
    BY <2>2, <2>3
<1>5. CASE Refused(h)
  <2> DEFINE w == [task[h] EXCEPT !.plain = TRUE]
  <2>1. /\ task' = [task EXCEPT ![h] = w] /\ task[h].pc = "ask"
        /\ UNCHANGED <<received, drafts, shown>>
    BY <1>5 DEF Refused, tables
  <2>2. w \in Work /\ w.next = 1 /\ w.pc # "send"
    BY <1>1, <2>1 DEF Work
  <2> HIDE DEF w
  <2>3. QED
    BY <1>2, <2>1, <2>2, WorksOn
<1>6. CASE Download(h)
  <2> DEFINE w == [task[h] EXCEPT !.pc = "transcribe"]
  <2>1. /\ task' = [task EXCEPT ![h] = w] /\ task[h].pc = "download"
        /\ UNCHANGED <<received, drafts, shown>>
    BY <1>6 DEF Download, Goto, tables
  <2>2. w \in Work /\ w.next = 1 /\ w.pc # "send"
    BY <1>1, <2>1 DEF Work
  <2> HIDE DEF w
  <2>3. QED
    BY <1>2, <2>1, <2>2, WorksOn
<1>7. CASE JournalSave(h)
  <2> DEFINE pc == IF Generates /\ ~task[h].direct THEN "ask" ELSE "save"
             w == [task[h] EXCEPT !.pc = pc]
  <2>1. /\ task' = [task EXCEPT ![h] = w] /\ task[h].pc = "journal"
        /\ UNCHANGED <<received, drafts, shown>>
    BY <1>7 DEF JournalSave, Goto
  <2>2. pc \in {"ask", "save"}
    OBVIOUS
  <2> HIDE DEF pc
  <2>3. w \in Work /\ w.next = 1 /\ w.pc # "send"
    BY <1>1, <2>1, <2>2 DEF Work
  <2> HIDE DEF w
  <2>4. QED
    BY <1>2, <2>1, <2>3, WorksOn
<1>8. ASSUME NEW text \in Seq(Char), Transcribe(h, text)
      PROVE  Whole'
  <2> DEFINE w == Heard(task[h], text)
  <2>1. /\ task' = [task EXCEPT ![h] = w] /\ task[h].pc = "transcribe"
        /\ UNCHANGED <<received, drafts, shown>>
    BY <1>8 DEF Transcribe, tables
  <2>2. w \in Work /\ w.next = 1 /\ w.pc # "send"
    BY <1>1, <2>1, HeardIs
  <2> HIDE DEF w
  <2>3. QED
    BY <1>2, <2>1, <2>2, WorksOn
<1>9. ASSUME NEW answer \in Answer, Answered(h, answer)
      PROVE  Whole'
  <2>1. task[h].pc = "ask" /\ UNCHANGED <<received, drafts, shown>>
    BY <1>9 DEF Answered, tables
  <2>2. CASE Raise(h)
    BY <2>1, <2>2, RaisesWhole
  <2>3. CASE task' = [task EXCEPT ![h] = [task[h] EXCEPT !.chat = 3, !.plain = FALSE]]
    <3> DEFINE w == [task[h] EXCEPT !.chat = 3, !.plain = FALSE]
    <3>1. w \in Work /\ w.next = 1 /\ w.pc # "send"
      <4>1. 3 \in 1 .. 3
        OBVIOUS
      <4>2. QED
        BY <1>1, <2>1, <4>1, NewChat
    <3>2. task' = [task EXCEPT ![h] = w]
      BY <2>3
    <3> HIDE DEF w
    <3>3. QED
      BY <1>2, <2>1, <3>1, <3>2, WorksOn
  <2>4. ASSUME NEW out \in Output,
               task' = [task EXCEPT ![h] = [task[h] EXCEPT
                          !.pc = "save", !.title = out.title, !.texto = out.texto,
                          !.extras = out.extras, !.chat = 1, !.plain = FALSE]]
        PROVE  Whole'
    <3> DEFINE w == [task[h] EXCEPT !.pc = "save", !.title = out.title, !.texto = out.texto,
                                    !.extras = out.extras, !.chat = 1, !.plain = FALSE]
    <3>1. w \in Work /\ w.next = 1 /\ w.pc # "send"
      <4> DEFINE v == [task[h] EXCEPT !.pc = "save", !.title = out.title, !.texto = out.texto,
                                      !.extras = out.extras]
      <4>1. v \in Work /\ v.next = 1 /\ v.pc = "save" /\ w = [v EXCEPT !.chat = 1, !.plain = FALSE]
        BY <1>1, <2>1 DEF Work, Output, Text
      <4>2. 1 \in 1 .. 3
        OBVIOUS
      <4> HIDE DEF v, w
      <4>3. QED
        BY <4>1, <4>2, NewChat
    <3>2. task' = [task EXCEPT ![h] = w]
      BY <2>4
    <3> HIDE DEF w
    <3>3. QED
      BY <1>2, <2>1, <3>1, <3>2, WorksOn
  <2>5. /\ LinkedInOutputs[answer] \subseteq Output
        /\ DigestOutputs[answer] \subseteq Output
    BY OutputsAre DEF LinkedInOutputs, DigestOutputs
  <2>6. QED
    BY <1>9, <2>2, <2>3, <2>4, <2>5 DEF Answered
<1>10. QED
  BY <1>3, <1>4, <1>5, <1>6, <1>7, <1>8, <1>9

\* ... and with what is said about no draft.
LEMMA ToldWhole ==
  ASSUME Whole, RequestInv, NEW h \in Handler,
         \/ Tell(h) \/ LinkedInCommand(h) \/ \E answer \in Answer : Summarised(h, answer)
  PROVE  Whole'
<1>1. "discord" \in Place /\ "caller" \in Place /\ "caller" \notin Column
  BY DEF Place, Column
<1>2. shown \in [Place -> Seq(MessageType)] /\ received \subseteq Post
  BY DEF Whole, Typed
<1>3. \A place \in Place : \A i \in DOMAIN shown[place] : Fits(drafts, place, shown[place], i)
  BY DEF Whole, MessagesFitIn
<1>4. Idle \in Work /\ Idle.next = 1 /\ Idle.pc = "idle"
  BY IdleIs
<1>5. CASE task' = [task EXCEPT ![h] = Idle] /\ UNCHANGED <<received, drafts>>
            /\ Append1("discord", Notice)
  <2>1. /\ Notice \in MessageType /\ Len(Notice.text) = 1
        /\ Notice.post = None /\ Notice.buttons = FALSE
    <3>1. <<"x">> \in Texts
      BY DEF Texts, Char
    <3>2. QED
      BY <3>1 DEF Notice, MessageType
  <2>2. Len(Notice.text) <= MessageLimit
    BY <2>1, ChunksAssumption
  <2>3. shown["discord"] \in Seq(MessageType)
    BY <1>1, <1>2
  <2>4. \A i \in DOMAIN Append(shown["discord"], Notice) :
          Fits(drafts, "discord", Append(shown["discord"], Notice), i)
    <3>1. PICK m, read : m = Notice /\ read = Read(Append(shown["discord"], m), m.post)
      OBVIOUS
    <3>2. \A i \in DOMAIN Append(shown["discord"], m) :
            Fits(drafts, "discord", Append(shown["discord"], m), i)
      BY <1>1, <1>3, <2>1, <2>2, <2>3, <3>1, FitsAppend
    <3>3. QED
      BY <3>1, <3>2
  <2>5. Sends(Idle, drafts, shown')
    BY <1>4 DEF Sends
  <2>6. QED
    BY <1>1, <1>4, <1>5, <2>1, <2>4, <2>5, Showing
<1>6. CASE Tell(h) /\ UNCHANGED shown
  <2>1. task' = [task EXCEPT ![h] = Idle] /\ UNCHANGED <<received, drafts>>
    BY <1>6 DEF Tell
  <2>2. QED
    BY <1>2, <1>4, <1>6, <2>1, WorksOn
<1>7. ASSUME NEW answer \in Answer, Summarised(h, answer)
      PROVE  Whole'
  <2> DEFINE m == [post |-> task[h].post, text |-> SummaryOutputs[answer], buttons |-> FALSE]
  <2>1. m \in MessageType /\ m.buttons = FALSE
    <3>1. SummaryOutputs[answer] \in Texts
      BY OutputsAre, CharTexts DEF SummaryOutputs
    <3>2. task[h].post \in Post \cup {None}
      BY WorkIs DEF Work
    <3>3. QED
      BY <3>1, <3>2 DEF MessageType
  <2>2. /\ task' = [task EXCEPT ![h] = Idle] /\ UNCHANGED <<received, drafts>>
        /\ Append1("caller", m)
    BY <1>7 DEF Summarised
  <2> HIDE DEF m
  <2>3. shown["caller"] \in Seq(MessageType)
    BY <1>1, <1>2
  <2>4. \A i \in DOMAIN Append(shown["caller"], m) :
          Fits(drafts, "caller", Append(shown["caller"], m), i)
    BY DEF Fits
  <2>5. Sends(Idle, drafts, shown')
    BY <1>4 DEF Sends
  <2>6. QED
    BY <1>1, <1>4, <2>1, <2>2, <2>4, <2>5, Showing
<1>8. QED
  BY <1>5, <1>6, <1>7 DEF Tell, LinkedInCommand

\* A draft is saved under an id without a request, so no message is of it.
LEMMA SavedWhole ==
  ASSUME Whole, RequestInv, NEW h \in Handler, Save(h)
  PROVE  Whole'
<1> DEFINE p == task[h].post
           texto == TextOf(task[h])
           draft == [digest |-> task[h].kind = "digest", texto |-> texto, extras |-> task[h].extras]
           w == [task[h] EXCEPT !.pc = "request"]
<1>1. task[h].pc = "save" /\ UNCHANGED <<received, requests, shown>>
  BY DEF Save
<1>2. task[h] \in Work /\ task[h].next = 1
  BY <1>1, WorkIs
<1>3. CASE ~(task[h].title /\ ~Blank(texto))
  <2>1. Raise(h) /\ UNCHANGED drafts
    BY <1>3 DEF Save
  <2>2. QED
    BY <1>1, <2>1, RaisesWhole
<1>4. CASE task[h].title /\ ~Blank(texto)
  <2>1. task' = [task EXCEPT ![h] = w] /\ drafts' = [drafts EXCEPT ![p] = draft]
    BY <1>4 DEF Save, Goto
  <2>2. w \in Work /\ w.next = 1 /\ w.pc = "request"
    BY <1>2 DEF Work
  <2>3. p \notin requests
    BY <1>1 DEF RequestInv, ReviewInv, WorkInv, Early
  <2>4. draft \in Draft
    <3>1. <<"x">> \in Seq(Char)
      BY DEF Char
    <3>2. texto \in Seq(Char)
      BY <1>2, <3>1 DEF TextOf, Work, Text
    <3>3. task[h].extras \in BOOLEAN
      BY <1>2 DEF Work
    <3> HIDE DEF texto
    <3>4. QED
      BY <3>2, <3>3 DEF Draft, Text
  <2> HIDE DEF w, draft
  <2>5. drafts' \in [Post -> Draft] /\ \A q \in requests : drafts'[q] = drafts[q]
    <3>1. drafts \in [Post -> Draft]
      BY DEF Whole, Typed
    <3>2. QED
      BY <2>1, <2>3, <2>4, <3>1 DEF RequestInv, ReviewInv, Stored
  <2>6. Sends(w, drafts', shown)
    BY <2>2 DEF Sends
  <2>7. received' \subseteq Post
    BY <1>1 DEF Whole, Typed
  <2>8. QED
    BY <1>1, <2>1, <2>2, <2>5, <2>6, <2>7, Quiet
<1>5. QED
  BY <1>3, <1>4

\* Of a draft nobody has requested the review of nothing is shown yet.
LEMMA RequestedWhole ==
  ASSUME Whole, RequestInv, NEW h \in Handler, Request(h)
  PROVE  Whole'
<1> DEFINE p == task[h].post
           w == [task[h] EXCEPT !.pc = "send"]
           out == Layout(w.via, drafts[p])
           place == PlaceOf(w.via)
<1>1. /\ task[h].pc = "request" /\ task' = [task EXCEPT ![h] = w]
      /\ UNCHANGED <<received, drafts, shown>>
  BY DEF Request, Goto
<1>2. task[h] \in Work /\ task[h].next = 1
  BY <1>1, WorkIs
<1>3. w \in Work /\ w.next = 1 /\ w.pc = "send" /\ w.post = p
  BY <1>2 DEF Work
<1>4. p \in Stored \ requests /\ p \in Post /\ p # None
  BY <1>1, DraftingAssumption DEF RequestInv, ReviewInv, Stored, None
<1>5. drafts[p] \in Draft /\ ~Blank(drafts[p].texto)
  BY <1>4 DEF Whole, Typed, RequestInv, ReviewInv
<1>6. place \in Column /\ place \in Place
  BY DEF PlaceOf, Column, Place
<1> HIDE DEF w
<1>7. out \in Seq(Texts) /\ Len(out) \in Nat \ {0}
  BY <1>5, LayoutIs
<1> HIDE DEF out, place
<1>8. 1 \in DOMAIN out /\ Sofar(out, 0) = <<>>
  BY <1>7, SofarIs, LenProperties
<1>9. Read(shown[place], p) = <<>>
  <2>1. shown[place] \in Seq(MessageType)
    BY <1>6 DEF Whole, Typed
  <2>2. \A i \in DOMAIN shown[place] : shown[place][i].post # p
    BY <1>4, <1>6 DEF RequestInv, ReviewInv, Column
  <2>3. QED
    BY <2>1, <2>2, ReadNone
<1>10. Sends(w, drafts', shown)
  BY <1>1, <1>3, <1>8, <1>9 DEF Sends, out, place
<1>11. /\ drafts' \in [Post -> Draft] /\ received' \subseteq Post
       /\ \A q \in requests : drafts'[q] = drafts[q]
  BY <1>1 DEF Whole, Typed
<1>12. QED
  BY <1>1, <1>3, <1>10, <1>11, Quiet

\* The message that is sent is the next one of the layout; when it is the
\* last one, all of the layout is shown.
LEMMA SentWhole ==
  ASSUME Whole, RequestInv, NEW h \in Handler, Send(h)
  PROVE  Whole'
<1> DEFINE p == task[h].post
           via == task[h].via
           n == task[h].next
           out == Layout(via, drafts[p])
           last == n = Len(out)
           place == PlaceOf(via)
           m == [post |-> p, text |-> out[n], buttons |-> last]
           more == [task[h] EXCEPT !.next = n + 1]
           w == IF last THEN Idle ELSE more
           ms == Append(shown[place], m)
           read == Read(ms, p)
<1>1. /\ task[h].pc = "send" /\ UNCHANGED <<received, drafts>>
      /\ Append1(place, m) /\ task' = [task EXCEPT ![h] = w]
  BY DEF Send
<1>2. task[h] \in Work
  BY WorkIs
<1>3. p \in requests /\ p \in Stored /\ p \in Post /\ p # None
  BY <1>1, DraftingAssumption DEF RequestInv, ReviewInv, Stored, None
<1>4. drafts[p] \in Draft /\ ~Blank(drafts[p].texto)
  BY <1>3 DEF Whole, Typed, RequestInv, ReviewInv
<1>5. place \in Column /\ place \in Place /\ (place = "telegram" <=> via = "telegram")
      /\ (place = "discord" <=> via # "telegram")
  BY DEF PlaceOf, Column, Place
<1>6. /\ n \in DOMAIN out
      /\ Read(shown[place], p) = Sofar(out, n - 1)
  BY <1>1 DEF Whole, Sends
<1>7. /\ out \in Seq(Texts) /\ Len(out) \in Nat \ {0}
      /\ via # "telegram" =>
           /\ \A i \in 1 .. Len(out) : Len(out[i]) <= MessageLimit
           /\ Joined(out) = Words(Full(IF drafts[p].digest THEN drafts[p].texto
                                       ELSE FormatBody(drafts[p])))
      /\ via = "telegram" =>
           Len(Joined(out)) > 1 /\ IsPrefix(Tail(Joined(out)), Words(drafts[p].texto))
  BY <1>4, LayoutIs
<1>8. shown[place] \in Seq(MessageType)
  BY <1>5 DEF Whole, Typed
<1> HIDE DEF out, place
<1>9. n \in 1 .. Len(out) /\ n \in Nat /\ DOMAIN out = 1 .. Len(out) /\ out[n] \in Texts
  BY <1>6, <1>7, LenProperties
<1>10. m \in MessageType /\ m.post = p /\ m.text = out[n] /\ m.buttons = last
  BY <1>3, <1>9 DEF MessageType
<1>11. last \in BOOLEAN
  OBVIOUS
<1> HIDE DEF m, last
<1>12. read = Sofar(out, n)
  <2>1. read = Read(shown[place], p) \o Words(out[n])
    BY <1>8, <1>10, ReadAppend
  <2>2. Sofar(out, n) = Sofar(out, n - 1) \o Words(out[n])
    BY <1>7, <1>9, SofarIs
  <2>3. QED
    BY <1>6, <2>1, <2>2
<1>13. last => read = Joined(out)
  <2>1. Sofar(out, Len(out)) = Joined(out)
    BY <1>7, SofarIs
  <2>2. QED
    BY <1>12, <2>1 DEF last
<1>14. \A i \in DOMAIN ms : Fits(drafts, place, ms, i)
  <2>1. \A i \in DOMAIN shown[place] : Fits(drafts, place, shown[place], i)
    BY <1>5 DEF Whole, MessagesFitIn
  <2>2. place = "discord" => Len(m.text) <= MessageLimit
    BY <1>5, <1>7, <1>9, <1>10
  <2>3. m.buttons /\ place = "discord" =>
          read = Words(Full(IF drafts[m.post].digest THEN drafts[m.post].texto
                            ELSE FormatBody(drafts[m.post])))
    BY <1>5, <1>7, <1>10, <1>13
  <2>4. m.buttons /\ place = "telegram" =>
          Len(read) > 1 /\ IsPrefix(Tail(read), Words(drafts[m.post].texto))
    BY <1>5, <1>7, <1>10, <1>13
  <2>5. read = Read(Append(shown[place], m), m.post)
    BY <1>10
  <2> HIDE DEF read
  <2>6. QED
    BY <1>8, <1>10, <2>1, <2>2, <2>3, <2>4, <2>5, FitsAppend
<1>15. w \in Work
  <2>1. more \in Work
    BY <1>2, <1>9 DEF Work
  <2> HIDE DEF more
  <2>2. QED
    BY <2>1, IdleIs
<1>16. shown'[place] = ms
  BY <1>1, <1>5 DEF Append1, Whole, Typed
<1>17. Sends(w, drafts, shown')
  <2>1. CASE last
    BY <2>1, IdleIs DEF Sends
  <2>2. CASE ~last
    <3>1. /\ w.pc = "send" /\ w.kind = task[h].kind /\ w.via = via /\ w.post = p
          /\ w.next = n + 1
      BY <1>1, <1>2, <2>2 DEF Work
    <3>2. n + 1 \in 1 .. Len(out) /\ n + 1 - 1 = n
      BY <1>7, <1>9, <2>2 DEF last
    <3> HIDE DEF w
    <3>3. Layout(w.via, drafts[w.post]) = out /\ PlaceOf(w.via) = place
      BY <3>1 DEF out, place
    <3>4. w.next \in DOMAIN out /\ w.next - 1 = n
      BY <1>9, <3>1, <3>2
    <3>5. Read(shown'[PlaceOf(w.via)], w.post) = Sofar(out, w.next - 1)
      BY <1>12, <1>16, <3>1, <3>3, <3>4
    <3>6. QED
      BY <3>1, <3>3, <3>4, <3>5 DEF Sends
  <2>3. QED
    BY <2>1, <2>2
<1>18. m.post \in {task[h].post, None} /\ m.post # None
  BY <1>3, <1>10
<1> HIDE DEF w
<1>19. QED
  BY <1>1, <1>5, <1>10, <1>14, <1>15, <1>17, <1>18, Showing

\* Nothing is shown at first.
LEMMA InitWhole ==
  ASSUME DraftingInit
  PROVE  Whole
<1>1. Idle \in Work /\ Idle.next = 1 /\ Idle.pc = "idle"
  BY IdleIs
<1>2. NoDraft \in Draft
  <2>1. <<>> \in Seq(Char)
    BY EmptySeq
  <2>2. QED
    BY <2>1 DEF NoDraft, Draft, Text
<1>3. <<>> \in Seq(MessageType)
  BY EmptySeq
<1>4. Typed
  BY <1>1, <1>2, <1>3 DEF DraftingInit, Typed
<1>5. \A place \in Place : DOMAIN shown[place] = {}
  BY DEF DraftingInit
<1>6. MessagesFitIn(drafts, shown) /\ ButtonsAreOfPosts
  BY <1>5 DEF MessagesFitIn, ButtonsAreOfPosts, Column, Place
<1>7. \A h \in Handler : Sends(task[h], drafts, shown)
  BY <1>1 DEF DraftingInit, Sends
<1>8. QED
  BY <1>4, <1>6, <1>7 DEF Whole

\* Every step keeps the messages whole.
LEMMA StepWhole ==
  ASSUME Whole, RequestInv, [DraftingNext]_draftingVars
  PROVE  Whole'
<1>1. \A text \in Message \cup {<<>>} : text \in Seq(Char)
  BY DraftingAssumption, EmptySeq
<1>2. ASSUME NEW h \in Handler, HandlerStep(h)
      PROVE  Whole'
  <2>1. CASE CallFails(h) \/ AskFails(h) \/ Refused(h) \/ Download(h) \/ JournalSave(h)
    BY <2>1, PreparedWhole
  <2>2. CASE \E text \in Message \cup {<<>>} : Transcribe(h, text)
    BY <1>1, <2>2, PreparedWhole
  <2>3. CASE \E answer \in Answer : Answered(h, answer)
    BY <2>3, PreparedWhole
  <2>4. CASE Tell(h) \/ LinkedInCommand(h) \/ \E answer \in Answer : Summarised(h, answer)
    BY <2>4, ToldWhole
  <2>5. CASE Save(h)
    BY <2>5, SavedWhole
  <2>6. CASE Request(h)
    BY <2>6, RequestedWhole
  <2>7. CASE Send(h)
    BY <2>7, SentWhole
  <2>8. QED
    BY <1>2, <2>1, <2>2, <2>3, <2>4, <2>5, <2>6, <2>7 DEF HandlerStep
<1>3. ASSUME NEW h \in Handler, NEW p \in Post,
             NEW via \in {"gateway", "rest", "telegram"}, NEW text \in Seq(Char),
             \/ Receive(h, p, via, text) \/ ReceiveAudio(h, p, via)
             \/ StartDigest(h, p, via) \/ StartSummary(h, p)
      PROVE  Whole'
  BY <1>3, ReceivedWhole
<1>4. CASE DraftingNext
  <2>1. <<>> \in Seq(Char) /\ "gateway" \in {"gateway", "rest", "telegram"}
    BY EmptySeq
  <2>2. QED
    BY <1>1, <1>2, <1>3, <1>4, <2>1 DEF DraftingNext
<1>5. CASE UNCHANGED draftingVars
  BY <1>5 DEF draftingVars, Whole, Typed, ButtonsAreOfPosts
<1>6. QED
  BY <1>4, <1>5

\* With the ids received, that is the type invariant.
LEMMA WholeTypeOK ==
  ASSUME Inductive, Whole
  PROVE  DraftingTypeOK
<1>1. entries \subseteq received /\ requests \subseteq received
  BY DEF Inductive, RequestInv, ReviewInv, WorkInv
<1>2. ASSUME NEW place \in Place, NEW i \in DOMAIN shown[place]
      PROVE  shown[place][i].post \in Post \cup {None}
  <2>1. shown[place][i] \in MessageType
    BY LenProperties DEF Whole, Typed
  <2>2. QED
    BY <2>1 DEF MessageType
<1>3. QED
  BY <1>1, <1>2 DEF Whole, Typed, DraftingTypeOK

\* Whatever is written, said or answered, whichever calls fail and however
\* handlers interleave, a draft has a text, an approval request has a draft,
\* what a channel or a chat shows of a draft has a request, no two handlers
\* work on one draft, and a draft that is being sent is shown up to the next
\* message and nothing of it twice.
THEOREM DraftingCorrect == DraftingSpec => []DraftingInv
<1>1. DraftingInit => Inductive /\ Whole
  BY InitInductive, InitWhole
<1>2. Inductive /\ Whole /\ [DraftingNext]_draftingVars => (Inductive /\ Whole)'
  BY StepInductive, StepWhole DEF Inductive
<1>3. Inductive /\ Whole => DraftingInv
  BY SendInvIs DEF Inductive, Whole, DraftingInv
<1>4. QED
  BY <1>1, <1>2, <1>3, PTL DEF DraftingSpec

\* Every record and every table keeps its shape: a draft is text, and the
\* messages of each place are of posts or of none.
THEOREM DraftingTyped == DraftingSpec => []DraftingTypeOK
<1>1. DraftingInit => Inductive /\ Whole
  BY InitInductive, InitWhole
<1>2. Inductive /\ Whole /\ [DraftingNext]_draftingVars => (Inductive /\ Whole)'
  BY StepInductive, StepWhole DEF Inductive
<1>3. Inductive /\ Whole => DraftingTypeOK
  BY WholeTypeOK
<1>4. QED
  BY <1>1, <1>2, <1>3, PTL DEF DraftingSpec

\* Whoever sees the buttons of a draft on Discord has its whole text above
\* them, and on Telegram the beginning of it; no message is longer than
\* Discord takes.
THEOREM ReviewsWhole == DraftingSpec => []ReviewedIsWhole
<1>1. DraftingInit => Inductive /\ Whole
  BY InitInductive, InitWhole
<1>2. Inductive /\ Whole /\ [DraftingNext]_draftingVars => (Inductive /\ Whole)'
  BY StepInductive, StepWhole DEF Inductive
<1>3. Inductive /\ Whole => ReviewedIsWhole
  BY WholeTypeOK DEF Whole, MessagesFitIn, Fits, ReviewedIsWhole
<1>4. QED
  BY <1>1, <1>2, <1>3, PTL DEF DraftingSpec

\* So for the bounds of the check, whatever they are.
LEMMA ObjectsFound == ExtractsTheObject
<1> SUFFICES ASSUME NEW before \in Prose(MaxProse), NEW inside \in Inside(MaxInside),
                    NEW after \in Afterwards,
                    NEW object \in {ObjectOf(inside), Fenced(ObjectOf(inside))}
             PROVE  Extract(before \o object \o after) = {Object(Meaning(inside))}
  BY DEF ExtractsTheObject
<1>1. before \in BoundedSeq({"x", "nl", "quote"}, MaxProse)
      /\ Cardinality({i \in DOMAIN before : before[i] = "quote"}) % 2 = 0
  BY DEF Prose
<1>2. before \in Seq({"x", "nl", "quote"})
  BY <1>1, BoundedIs
<1>3. inside \in Seq(Piece)
  BY BoundedIs DEF Inside
<1>4. after \in Seq(Char)
  <2> "x" \in Char /\ "nl" \in Char /\ "quote" \in Char /\ "close" \in Char
    BY DEF Char
  <2>1. <<>> \in Seq(Char)
    OBVIOUS
  <2>2. <<"x">> \in Seq(Char)
    OBVIOUS
  <2>3. <<"close">> \in Seq(Char)
    OBVIOUS
  <2>4. <<"nl", "quote">> \in Seq(Char)
    OBVIOUS
  <2>5. QED
    BY <2>1, <2>2, <2>3, <2>4 DEF Afterwards
<1>5. QED
  BY <1>1, <1>2, <1>3, <1>4, ObjectsAreFound

\* ExtractsTheObject holds, for all bounds of its inputs.
THEOREM ObjectsAreExtracted == DraftingSpec => []ExtractsTheObject
<1>1. ExtractsTheObject
  BY ObjectsFound
<1>2. QED
  BY <1>1, PTL

=============================================================================
