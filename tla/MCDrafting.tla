----------------------------- MODULE MCDrafting -----------------------------
(* Drafting, instantiated for TLC.                                         *)
EXTENDS Drafting, TLC

Lines == <<"x", "nl", "x", "x", "x", "x", "x", "x", "nl", "x">>

DraftingMessages == {<<"x">>, <<"command">>, <<"poste", "isso">> \o Lines}

Given(text) == [text |-> text, title |-> "given"]
InObject == <<[written |-> <<"x">>, means |-> "x"], [written |-> <<"nl">>, means |-> "nl"],
              [written |-> <<"x">>, means |-> "x"]>>
Escaped == [InObject EXCEPT ![2].written = <<"slash", "n">>]

DraftingAnswers ==
  {Given(<<"nl">>),                                     \* blank
   Given(Lines),                                        \* no object
   Given(<<"open", "nl", "quote">> \o Lines),           \* cut off
   Given(<<"x", "nl">> \o Fenced(ObjectOf(InObject))),
   [text |-> ObjectOf(Escaped), title |-> "missing"],  \* the one json.loads reads
   [text |-> ObjectOf(InObject), title |-> "illtyped"]}

DraftingRepaired == {<<"x", "nl", "x">>}

=============================================================================
