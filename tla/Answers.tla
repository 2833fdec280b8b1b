------------------------------ MODULE Answers -------------------------------
(***************************************************************************)
(* What the agents make of a language model's answer.  An answer is a      *)
(* sequence of characters; told apart are those that JSON or the agents    *)
(* look at: quotes, braces, the backslash and what follows it, line breaks *)
(* (for every blank), and ``` at the start of a line.  The words "poste" and *)
(* "isso", a LinkedIn command and the hashtags of a draft count as one      *)
(* character each.  Every other one is "x".                                *)
(*                                                                         *)
(* Of the object that was asked for, the field texto is modelled character *)
(* by character.  Its other fields are not in the text: "title" says       *)
(* whether the title is there and of the right type.                       *)
(***************************************************************************)
EXTENDS Naturals, SequencesExt

CONSTANT Repaired  \* texts json_repair may find in what is not JSON

Char == {"x", "nl", "quote", "open", "close", "slash", "n", "fence", "poste", "isso", "command",
         "tag"}
Title == {"given", "missing", "illtyped"}

ASSUME AnswersAssumption == Repaired \subseteq Seq(Char)

Blank(s) == \A i \in DOMAIN s : s[i] = "nl"

LStrip(s) == LET I == {i \in DOMAIN s : s[i] # "nl"}
             IN  IF I = {} THEN <<>> ELSE SubSeq(s, Min(I), Len(s))
RStrip(s) == LET I == {i \in DOMAIN s : s[i] # "nl"}
             IN  IF I = {} THEN <<>> ELSE SubSeq(s, 1, Max(I))
Strip(s) == LStrip(RStrip(s))

\* A JSON value: an object with its texto, an object without, some other value,
\* or no JSON at all.
Object(s) == [is |-> "object", texto |-> s]
Empty == [is |-> "empty", texto |-> <<>>]
Other == [is |-> "other", texto |-> <<>>]
NoJson == [is |-> "none", texto |-> <<>>]

-----------------------------------------------------------------------------
(* json.loads, of an object with one string or none, or of a string.       *)

\* A character of the inside of a string, and the string read so far, if JSON
\* allows it.
Spell(acc, ch) ==
  IF acc.escaped
  THEN [acc EXCEPT !.escaped = FALSE, !.ok = @ /\ ch \in {"n", "quote", "slash"},
                   !.text = Append(@, IF ch = "n" THEN "nl" ELSE ch)]
  ELSE IF ch = "slash" THEN [acc EXCEPT !.escaped = TRUE]
  ELSE [acc EXCEPT !.ok = @ /\ ch \notin {"nl", "quote"}, !.text = Append(@, ch)]

Unspelled == [ok |-> TRUE, escaped |-> FALSE, text |-> <<>>]
InString(s) == FoldLeft(Spell, Unspelled, s)

Quoted(s) ==
  /\ Len(s) >= 2 /\ Head(s) = "quote" /\ Last(s) = "quote"
  /\ LET read == InString(SubSeq(s, 2, Len(s) - 1)) IN read.ok /\ ~read.escaped

Unquoted(s) == InString(SubSeq(s, 2, Len(s) - 1)).text

Braced(s) == Len(s) >= 2 /\ Head(s) = "open" /\ Last(s) = "close"

Loads(answer) ==
  LET text == Strip(answer)
      inner == Strip(SubSeq(text, 2, Len(text) - 1))
  IN  IF Quoted(text) THEN Other
      ELSE IF Braced(text) /\ inner = <<>> THEN Empty
      ELSE IF Braced(text) /\ Quoted(inner) THEN Object(Unquoted(inner))
      ELSE NoJson

-----------------------------------------------------------------------------
(* Operators below, each with a bug in it: they stand in for their         *)
(* originals when the properties are tested.                               *)

\* A quote in a string ends it, escaped or not.
Track_NoEscapes(acc, ch) ==
  [acc EXCEPT !.inside = IF ch = "quote" THEN ~@ ELSE @]

-----------------------------------------------------------------------------
(* LinkedInAgent._extract_json_object.                                     *)

Outside == [inside |-> FALSE, escaped |-> FALSE]

\* Whether the character is in a string, and escaped, as the sanitizer goes.
Track(acc, ch) ==
  IF acc.escaped THEN [acc EXCEPT !.escaped = FALSE]
  ELSE IF acc.inside /\ ch = "slash" THEN [acc EXCEPT !.escaped = TRUE]
  ELSE [acc EXCEPT !.inside = IF ch = "quote" THEN ~@ ELSE @]

\* A line break in a string becomes the two characters that stand for it.
Write(acc, ch) ==
  IF acc.at.inside /\ ~acc.at.escaped /\ ch = "nl"
  THEN [acc EXCEPT !.out = @ \o <<"slash", "n">>]
  ELSE [at |-> Track(acc.at, ch), out |-> Append(acc.out, ch)]

Unwritten == [at |-> Outside, out |-> <<>>]
Sanitize(answer) == FoldLeft(Write, Unwritten, answer).out

LineBreaks(s) == {i \in DOMAIN s : s[i] = "nl"}

\* The first line of a fenced text is dropped, and the last if it is a fence.
Unfence(text) ==
  IF text = <<>> \/ Head(text) # "fence" THEN text
  ELSE LET breaks == LineBreaks(text)
           body == IF breaks = {} THEN text ELSE SubSeq(text, Min(breaks) + 1, Len(text))
           last == IF LineBreaks(body) = {} THEN 1 ELSE Max(LineBreaks(body)) + 1
       IN  Strip(IF last <= Len(body) /\ body[last] = "fence"
                 THEN SubSeq(body, 1, last - 1) ELSE body)

\* The position after which the braces opened so far are closed, going by the
\* strings; 0 when there is none.  A backslash counts outside strings too.
Balance(acc, ch) ==
  LET on == [acc EXCEPT !.at = @ + 1]
  IN  IF acc.end # 0 THEN acc
      ELSE IF acc.escaped THEN [on EXCEPT !.escaped = FALSE]
      ELSE IF ch = "slash" THEN [on EXCEPT !.escaped = TRUE]
      ELSE IF ch = "quote" THEN [on EXCEPT !.inside = ~acc.inside]
      ELSE IF acc.inside \/ ch \notin {"open", "close"} THEN on
      ELSE IF ch = "open" THEN [on EXCEPT !.depth = acc.depth + 1]
      ELSE [on EXCEPT !.depth = acc.depth - 1, !.end = IF acc.depth = 1 THEN on.at ELSE 0]

Unbalanced == [at |-> 0, depth |-> 0, inside |-> FALSE, escaped |-> FALSE, end |-> 0]
BalancedEnd(text) == FoldLeft(Balance, Unbalanced, text).end

\* From the first brace to the one that closes it, or, when none does, to the
\* last character but one.
Braces(text) ==
  LET start == Min({i \in DOMAIN text : text[i] = "open"})
      from == SubSeq(text, start, Len(text))
      end == BalancedEnd(from)
  IN  SubSeq(from, 1, IF end = 0 THEN Len(from) - 1 ELSE end)

\* json_repair: some object, or nothing of use.
Repair(text) == {NoJson} \cup {Object(s) : s \in Repaired}

\* The values the extraction may give.
Extract(answer) ==
  LET text == Unfence(Strip(Sanitize(answer)))
      direct == Loads(text)
  IN  IF direct # NoJson THEN {direct}
      ELSE IF \A i \in DOMAIN text : text[i] # "open" THEN {NoJson}
      ELSE IF Loads(Braces(text)) # NoJson THEN {Loads(Braces(text))}
      ELSE Repair(text)

-----------------------------------------------------------------------------
(* _parse_output of the three agents: the draft, or the summary, with      *)
(* "raised" when the fields do not fit and nobody catches it.  The parts   *)
(* around texto (gancho, conclusao, hashtags, ...) come with the object.   *)

Parsed(title, texto, extras) ==
  [raised |-> FALSE, title |-> title, texto |-> texto, extras |-> extras]
Raised == [raised |-> TRUE, title |-> FALSE, texto |-> <<>>, extras |-> FALSE]

\* The fallback keeps the whole answer, under a title of its own.
LinkedInOutput(answer) ==
  {IF value.is = "object" /\ ~Blank(value.texto)
   THEN IF answer.title = "illtyped" THEN Raised
        ELSE Parsed(answer.title = "given", value.texto, TRUE)
   ELSE Parsed(TRUE, answer.text, FALSE) : value \in Extract(answer.text)}

DigestOutput(answer) ==
  LET value == Loads(answer.text)
  IN  IF value.is = "object" /\ ~Blank(value.texto) /\ answer.title # "illtyped"
      THEN Parsed(TRUE, value.texto, TRUE)
      ELSE Parsed(TRUE, answer.text, FALSE)

\* Of a summary the field is its markdown, and may be "".
SummaryOutput(answer) ==
  LET value == Loads(answer.text)
  IN  IF value.is = "object" /\ answer.title # "illtyped"
      THEN value.texto ELSE answer.text

-----------------------------------------------------------------------------
(* The reference for the extraction: an object as a model writes it, with   *)
(* line breaks in its string escaped or left as they are, in a fence or    *)
(* not, and prose around it.                                               *)

Piece == {[written |-> <<"x">>, means |-> "x"],
          [written |-> <<"nl">>, means |-> "nl"],
          [written |-> <<"slash", "n">>, means |-> "nl"],
          [written |-> <<"slash", "quote">>, means |-> "quote"],
          [written |-> <<"slash", "slash">>, means |-> "slash"],
          [written |-> <<"open">>, means |-> "open"],
          [written |-> <<"close">>, means |-> "close"]}

Inside(n) == BoundedSeq(Piece, n)
Written(inside) == FlattenSeq([i \in DOMAIN inside |-> inside[i].written])
Meaning(inside) == [i \in DOMAIN inside |-> inside[i].means]

ObjectOf(inside) == <<"open", "nl", "quote">> \o Written(inside) \o <<"quote", "nl", "close">>
Fenced(text) == <<"fence", "nl">> \o text \o <<"nl", "fence", "nl">>

\* Prose has no braces, and opens no quotation that it does not close.
Prose(n) ==
  {s \in BoundedSeq({"x", "nl", "quote"}, n) :
     Cardinality({i \in DOMAIN s : s[i] = "quote"}) % 2 = 0}
Afterwards == {<<>>, <<"x">>, <<"close">>, <<"nl", "quote">>}

=============================================================================
