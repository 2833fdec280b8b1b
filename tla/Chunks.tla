------------------------------- MODULE Chunks -------------------------------
(***************************************************************************)
(* How the text of a draft is laid out for its review: as messages no      *)
(* longer than Discord takes, or as one message cut short on Telegram.     *)
(* The gateway's messenger and the REST one cut in the same way.           *)
(***************************************************************************)
EXTENDS Answers

CONSTANTS
  MessageLimit,  \* _DISCORD_MSG_LIMIT
  BodyLimit,     \* _CHUNK_BODY_LIMIT
  Preview        \* what of a text Telegram's request shows

\* "→ continua na próxima mensagem", on a line of its own.
Marker == <<"nl", "more">>

TitleLine == <<"x", "nl", "nl">>

ASSUME ChunksAssumption ==
  /\ {MessageLimit, BodyLimit, Preview} \subseteq Nat \ {0} /\ Preview > 1
  /\ BodyLimit + Len(Marker) <= MessageLimit
  /\ Len(TitleLine) + Len(Marker) <= MessageLimit

Truncate(text, limit) ==
  IF Len(Strip(text)) <= limit THEN Strip(text)
  ELSE Append(SubSeq(Strip(text), 1, limit - 1), "more")

\* The parts that are there, joined by line breaks: the gancho before the
\* text, and after it what concludes it and the hashtags.
FormatBody(draft) ==
  IF draft.extras THEN <<"x", "nl", "nl">> \o draft.texto \o <<"nl", "nl", "x", "nl", "nl", "tag">>
  ELSE draft.texto

Full(body) == TitleLine \o body

-----------------------------------------------------------------------------
(* Operators below, each with a bug in it: they stand in for their         *)
(* originals when the properties are tested.                               *)

\* The character at the cut is taken for the line break it may not be.
Rest_AfterCut(s, cut) == LStrip(SubSeq(s, cut + 2, Len(s)))

-----------------------------------------------------------------------------

\* The last line break before the limit, or the limit.
CutOf(s) ==
  LET breaks == LineBreaks(SubSeq(s, 1, BodyLimit))
  IN  IF breaks = {} THEN BodyLimit ELSE Max(breaks) - 1

Rest(s, cut) == LStrip(SubSeq(s, cut + 1, Len(s)))

Pieces[s \in Seq(Char)] ==
  IF s = <<>> THEN <<>>
  ELSE IF Len(s) <= BodyLimit THEN <<s>>
  ELSE <<RStrip(SubSeq(s, 1, CutOf(s)))>> \o Pieces[Rest(s, CutOf(s))]

ChunkMessages(body) ==
  IF Len(Full(body)) <= MessageLimit THEN <<Full(body)>>
  ELSE LET out == <<TitleLine>> \o Pieces[body]
       IN  [i \in DOMAIN out |-> IF i < Len(out) THEN RStrip(out[i]) \o Marker ELSE out[i]]

\* What a reader makes out: neither blanks nor the marker.
Words(text) ==
  FlattenSeq([i \in DOMAIN text |-> IF text[i] \in {"nl", "more"} THEN <<>> ELSE <<text[i]>>])

=============================================================================
