------------------------------ MODULE Drafting ------------------------------
(***************************************************************************)
(* From what a developer wrote to a draft under review.  A message on      *)
(* Discord or Telegram, or a spoken one, becomes a journal entry; a        *)
(* language model, or the message itself, gives the text; the draft and    *)
(* its approval request are saved; and the text is sent message by         *)
(* message, with the buttons under the last one.  The digest of the news   *)
(* goes the same way from the model on.  Calls of others come in between,  *)
(* and each call may fail.                                                 *)
(***************************************************************************)
EXTENDS Chunks

CONSTANTS
  Post,       \* ids that can be drawn for drafts and summaries
  Handler,    \* handlers at work at once
  Message,    \* what the developer writes or says
  Answer,     \* what the language model answers: its text, and its title
  Generates,  \* whether a language model is configured
  MaxProse, MaxInside  \* bounds of the inputs of ExtractsTheObject

ASSUME DraftingAssumption ==
  /\ "none" \notin Post
  /\ Generates \in BOOLEAN
  /\ Message \subseteq Seq(Char)
  /\ \A a \in Answer : a.text \in Seq(Char) /\ a.title \in Title

VARIABLES
  received,  \* ids drawn so far
  entries,   \* of those, the ones with a journal entry
  drafts,    \* content_drafts: whether each is a digest, its text, and whether it
             \* has hashtags and the other parts; or NoDraft
  requests,  \* drafts with a row in discord_requests or telegram_requests
  shown,     \* the messages of the channel, of the chat and to the API's callers
  task       \* what each handler is doing

draftingVars == <<received, entries, drafts, requests, shown, task>>

tables == <<received, entries, drafts, requests, shown>>

None == "none"
Text == Seq(Char)
Draft == [digest : BOOLEAN, texto : Text, extras : BOOLEAN]
NoDraft == [digest |-> FALSE, texto |-> <<>>, extras |-> FALSE]

Place == {"discord", "telegram", "caller"}
PlaceOf(via) == IF via = "telegram" THEN "telegram" ELSE "discord"

Work == [pc     : {"idle", "download", "transcribe", "command", "journal", "ask", "save",
                   "request", "send", "notice"},
         kind   : {"message", "digest", "summary"},
         via    : {"gateway", "rest", "telegram"},
         post   : Post \cup {None},
         direct : BOOLEAN,   \* whether the message is posted as it is
         texto  : Text,
         title  : BOOLEAN,   \* whether there is a title
         extras : BOOLEAN,   \* whether there are other parts
         chat   : 1 .. 3,    \* which chat of the agent this is
         plain  : BOOLEAN,   \* whether response_format was refused
         next   : Nat]       \* the message to send

Idle == [pc |-> "idle", kind |-> "message", via |-> "gateway", post |-> None,
         direct |-> FALSE, texto |-> <<>>, title |-> TRUE, extras |-> FALSE,
         chat |-> 1, plain |-> FALSE, next |-> 1]

Notice == [post |-> None, text |-> <<"x">>, buttons |-> FALSE]

DraftingTypeOK ==
  /\ received \subseteq Post /\ entries \subseteq received /\ requests \subseteq received
  /\ drafts \in [Post -> Draft]
  /\ \A place \in Place : \A i \in DOMAIN shown[place] :
       shown[place][i].post \in Post \cup {None}
  /\ task \in [Handler -> Work]

DraftingInit ==
  /\ received = {}
  /\ entries = {}
  /\ drafts = [p \in Post |-> NoDraft]
  /\ requests = {}
  /\ shown = [place \in Place |-> <<>>]
  /\ task = [h \in Handler |-> Idle]

-----------------------------------------------------------------------------

Stored == {p \in Post : drafts[p] # NoDraft}

Goto(h, pc) == task' = [task EXCEPT ![h].pc = pc]

\* Discord's bot answers an error in a conversation; every other one is logged.
AfterError(work) ==
  IF work.kind = "message" /\ work.via = "gateway" THEN [Idle EXCEPT !.pc = "notice"] ELSE Idle

Raise(h) == task' = [task EXCEPT ![h] = AfterError(@)]

Append1(place, message) == shown' = [shown EXCEPT ![place] = Append(@, message)]

\* _DIRECT_POST_PREFIXES: "poste " comes before "poste isso".
IsDirect(text) == Len(Strip(text)) > 1 /\ Head(Strip(text)) = "poste"
StripPostCommand(text) == Strip(Tail(Strip(text)))
IsLinkedInCommand(text) == Strip(text) = <<"command">>

\* What HandleInboundMessage goes on with when it has the text of a message.
\* Commands and posts as they are exist on Discord only.
Heard(work, text) ==
  LET onDiscord == work.via = "gateway"
      direct == onDiscord /\ IsDirect(text)
  IN  IF Blank(text) THEN AfterError(work)
      ELSE IF onDiscord /\ IsLinkedInCommand(text) THEN [work EXCEPT !.pc = "command"]
      ELSE [work EXCEPT !.pc = "journal", !.direct = direct,
                        !.texto = IF direct THEN StripPostCommand(text) ELSE text]

-----------------------------------------------------------------------------
(* Operators below, each with a bug in it: they stand in for their         *)
(* originals when the properties are tested.                               *)

\* Every failure of the provider is met with one more attempt.
AskFails_Insists(h) ==
  /\ task[h].pc = "ask"
  /\ IF task[h].kind = "message"
     THEN task' = [task EXCEPT ![h] = [@ EXCEPT !.chat = 2, !.plain = FALSE]]
     ELSE Raise(h)
  /\ UNCHANGED tables

\* What the model gave is saved without a look.
Save_Unchecked(h) ==
  /\ task[h].pc = "save"
  /\ task[h].title
  /\ drafts' = [drafts EXCEPT ![task[h].post] =
                  [digest |-> task[h].kind = "digest", texto |-> task[h].texto,
                   extras |-> task[h].extras]]
  /\ Goto(h, "request")
  /\ UNCHANGED <<received, entries, requests, shown>>

-----------------------------------------------------------------------------
(* HandleInboundMessage.                                                   *)

Receive(h, p, via, text) ==
  /\ task[h].pc = "idle"
  /\ p \notin received
  /\ via \in {"gateway", "telegram"}
  /\ received' = received \cup {p}
  /\ task' = [task EXCEPT ![h] = Heard([@ EXCEPT !.via = via, !.post = p], text)]
  /\ UNCHANGED <<entries, drafts, requests, shown>>

ReceiveAudio(h, p, via) ==
  /\ task[h].pc = "idle"
  /\ p \notin received
  /\ via \in {"gateway", "telegram"}
  /\ received' = received \cup {p}
  /\ task' = [task EXCEPT ![h] = [@ EXCEPT !.pc = "download", !.via = via, !.post = p]]
  /\ UNCHANGED <<entries, drafts, requests, shown>>

Download(h) ==
  /\ task[h].pc = "download"
  /\ Goto(h, "transcribe")
  /\ UNCHANGED tables

\* What was said, or nothing that could be heard.
Transcribe(h, text) ==
  /\ task[h].pc = "transcribe"
  /\ task' = [task EXCEPT ![h] = Heard(@, text)]
  /\ UNCHANGED tables

\* The channel is sent the link to connect by, or how the connection stands.
LinkedInCommand(h) ==
  /\ task[h].pc = "command"
  /\ Append1("discord", Notice)
  /\ task' = [task EXCEPT ![h] = Idle]
  /\ UNCHANGED <<received, entries, drafts, requests>>

\* The entry is saved, and what was learned handed to the agent if there is
\* one; otherwise it is the text.
JournalSave(h) ==
  /\ task[h].pc = "journal"
  /\ entries' = entries \cup {task[h].post}
  /\ Goto(h, IF Generates /\ ~task[h].direct THEN "ask" ELSE "save")
  /\ UNCHANGED <<received, drafts, requests, shown>>

-----------------------------------------------------------------------------
(* The agents.  A digest is asked for by the worker, which sends through   *)
(* REST, or by a route, which sends through the gateway; a summary is the  *)
(* answer of a request.                                                    *)

StartDigest(h, p, via) ==
  /\ task[h].pc = "idle"
  /\ p \notin received
  /\ via \in {"gateway", "rest"}
  /\ received' = received \cup {p}
  /\ task' = [task EXCEPT ![h] = [@ EXCEPT !.pc = "ask", !.kind = "digest", !.via = via,
                                          !.post = p]]
  /\ UNCHANGED <<entries, drafts, requests, shown>>

StartSummary(h, p) ==
  /\ task[h].pc = "idle"
  /\ p \notin received
  /\ received' = received \cup {p}
  /\ task' = [task EXCEPT ![h] = [@ EXCEPT !.pc = "ask", !.kind = "summary", !.post = p]]
  /\ UNCHANGED <<entries, drafts, requests, shown>>

\* The provider refuses response_format: the call is made again without it.
Refused(h) ==
  /\ task[h].pc = "ask" /\ ~task[h].plain
  /\ task' = [task EXCEPT ![h].plain = TRUE]
  /\ UNCHANGED tables

\* The LinkedIn agent starts a second chat when the first raises.
AskFails(h) ==
  /\ task[h].pc = "ask"
  /\ IF task[h].kind = "message" /\ task[h].chat = 1
     THEN task' = [task EXCEPT ![h] = [@ EXCEPT !.chat = 2, !.plain = FALSE]]
     ELSE Raise(h)
  /\ UNCHANGED tables

\* What each agent may make of each answer.
LinkedInOutputs == [answer \in Answer |-> LinkedInOutput(answer)]
DigestOutputs == [answer \in Answer |-> {DigestOutput(answer)}]
SummaryOutputs == [answer \in Answer |-> SummaryOutput(answer)]

\* It asks once more when the answer is blank, and takes what comes then.
Answered(h, answer) ==
  /\ task[h].pc = "ask" /\ task[h].kind # "summary"
  /\ LET work == task[h]
     IN  \/ /\ work.kind = "message" /\ work.chat < 3 /\ Blank(answer.text)
            /\ task' = [task EXCEPT ![h] = [@ EXCEPT !.chat = 3, !.plain = FALSE]]
         \/ /\ work.kind = "digest" \/ work.chat = 3 \/ ~Blank(answer.text)
            /\ \E out \in (IF work.kind = "message" THEN LinkedInOutputs ELSE DigestOutputs)[answer] :
                 IF out.raised THEN Raise(h)
                 ELSE task' = [task EXCEPT ![h] =
                                 [@ EXCEPT !.pc = "save", !.title = out.title,
                                           !.texto = out.texto, !.extras = out.extras,
                                           !.chat = 1, !.plain = FALSE]]
  /\ UNCHANGED tables

\* The summary goes back to whoever asked for it; no table keeps it.
Summarised(h, answer) ==
  /\ task[h].pc = "ask" /\ task[h].kind = "summary"
  /\ Append1("caller", [post |-> task[h].post, text |-> SummaryOutputs[answer],
                        buttons |-> FALSE])
  /\ task' = [task EXCEPT ![h] = Idle]
  /\ UNCHANGED <<received, entries, drafts, requests>>

-----------------------------------------------------------------------------
(* CreateLinkedInDraft, GenerateLinkedInDraft and GenerateDailyDigest      *)
(* construct the draft, which refuses a blank title or text, and save it.  *)

\* A digest with no answer at all says so.
TextOf(work) ==
  IF work.kind = "digest" /\ work.texto = <<>> THEN <<"x">> ELSE work.texto

Save(h) ==
  /\ task[h].pc = "save"
  /\ LET texto == TextOf(task[h])
     IN  IF task[h].title /\ ~Blank(texto)
         THEN /\ drafts' = [drafts EXCEPT ![task[h].post] =
                              [digest |-> task[h].kind = "digest", texto |-> texto,
                               extras |-> task[h].extras]]
              /\ Goto(h, "request")
         ELSE Raise(h) /\ UNCHANGED drafts
  /\ UNCHANGED <<received, entries, requests, shown>>

Request(h) ==
  /\ task[h].pc = "request"
  /\ requests' = requests \cup {task[h].post}
  /\ Goto(h, "send")
  /\ UNCHANGED <<received, entries, drafts, shown>>

\* The messages that ask for the approval of a draft: of a digest they have the
\* text alone, of a conversation's draft all that is there, and on Telegram the
\* beginning of its text.
Layout(via, draft) ==
  IF via = "telegram" THEN <<Full(Truncate(draft.texto, Preview))>>
  ELSE ChunkMessages(IF draft.digest THEN draft.texto ELSE FormatBody(draft))

\* One message is sent; the last one carries the buttons.
Send(h) ==
  /\ task[h].pc = "send"
  /\ LET work == task[h]
         out == Layout(work.via, drafts[work.post])
         last == work.next = Len(out)
     IN  /\ Append1(PlaceOf(work.via),
                    [post |-> work.post, text |-> out[work.next], buttons |-> last])
         /\ task' = [task EXCEPT ![h] = IF last THEN Idle
                                        ELSE [work EXCEPT !.next = work.next + 1]]
  /\ UNCHANGED <<received, entries, drafts, requests>>

\* A download, a transcription, a command, a save or a message that fails.
CallFails(h) ==
  /\ task[h].pc \in {"download", "transcribe", "command", "journal", "save", "request", "send"}
  /\ Raise(h)
  /\ UNCHANGED tables

\* The error is told in the channel, or that fails too.
Tell(h) ==
  /\ task[h].pc = "notice"
  /\ task' = [task EXCEPT ![h] = Idle]
  /\ UNCHANGED shown \/ Append1("discord", Notice)
  /\ UNCHANGED <<received, entries, drafts, requests>>

-----------------------------------------------------------------------------

HandlerStep(h) ==
  \/ CallFails(h) \/ AskFails(h) \/ Refused(h) \/ Tell(h)
  \/ Download(h) \/ \E text \in Message \cup {<<>>} : Transcribe(h, text)
  \/ LinkedInCommand(h) \/ JournalSave(h)
  \/ \E answer \in Answer : Answered(h, answer) \/ Summarised(h, answer)
  \/ Save(h) \/ Request(h) \/ Send(h)

DraftingNext ==
  \E h \in Handler :
    \/ \E p \in Post :
         \/ \E via \in {"gateway", "rest", "telegram"} :
              \/ \E text \in Message \cup {<<>>} : Receive(h, p, via, text)
              \/ ReceiveAudio(h, p, via)
              \/ StartDigest(h, p, via)
         \/ StartSummary(h, p)
    \/ HandlerStep(h)

DraftingSpec == DraftingInit /\ [][DraftingNext]_draftingVars

\* Every call returns or raises: the clients have timeouts.
FairDraftingSpec ==
  DraftingSpec /\ \A h \in Handler : WF_draftingVars(HandlerStep(h))

-----------------------------------------------------------------------------
(* Properties.                                                             *)

\* A draft has a text, a request has a draft, and buttons have a request,
\* wherever a conversation or a digest was cut short: the order of saves and
\* sends in HandleInboundMessage.execute and SendDraftToChannel.execute.
ReviewInv ==
  /\ \A p \in Stored : ~Blank(drafts[p].texto)
  /\ requests \subseteq Stored
  /\ \A place \in {"discord", "telegram"} : \A i \in DOMAIN shown[place] :
       shown[place][i].post \in requests \cup {None}
  /\ \A h \in Handler :
       /\ task[h].pc = "request" => task[h].post \in Stored \ requests
       /\ task[h].pc = "send" => task[h].post \in requests

\* Handlers that have not saved a draft yet.
Early == {"download", "transcribe", "command", "journal", "ask", "save"}

\* What a handler drafts is its own: nobody else's handler saves, requests or
\* sends it, and it has no draft before the handler saves it.
WorkInv ==
  /\ entries \cup Stored \subseteq received
  /\ \A h \in Handler :
       /\ task[h].post \in received \cup {None}
       /\ task[h].pc \in Early => task[h].post \in received \ Stored
  /\ \A g, h \in Handler : g # h /\ task[g].post = task[h].post => task[g].post = None

\* The words of one draft in the messages of a place.
Read(messages, post) ==
  FlattenSeq([k \in DOMAIN messages |-> IF messages[k].post = post
                                        THEN Words(messages[k].text) ELSE <<>>])

\* Of a draft that is being sent, a place shows what its layout has before
\* the next message, and nothing twice; buttons are always a draft's.
SendInv ==
  /\ \A place \in {"discord", "telegram"} : \A i \in DOMAIN shown[place] :
       shown[place][i].buttons => shown[place][i].post # None
  /\ \A h \in Handler :
       LET work == task[h]
           out == Layout(work.via, drafts[work.post])
       IN  IF work.pc = "send"
           THEN /\ work.next \in DOMAIN out
                /\ Read(shown[PlaceOf(work.via)], work.post)
                     = FlattenSeq([k \in 1 .. work.next - 1 |-> Words(out[k])])
           ELSE work.next = 1

RequestInv == ReviewInv /\ WorkInv

\* All of it, whatever fails and whatever other handlers do in between.
DraftingInv == RequestInv /\ SendInv

\* Whoever sees the buttons of a conversation's draft on Discord has all of the
\* draft above them, in order: the text and the hashtags, which are what
\* approving posts, and the parts around them, although they were cut into
\* messages and other handlers sent theirs in between.  Of a digest it is the
\* text alone, whole; on Telegram it is the beginning of the text.  No message is
\* longer than Discord takes (_chunk_messages and send_approval_request of both
\* messengers), and what answers are read as, and texts cut into, is text again.
ReviewedIsWhole ==
  /\ DraftingTypeOK
  /\ \A place \in Place : \A i \in DOMAIN shown[place] :
       LET m == shown[place][i]
           draft == drafts[m.post]
           read == Read(SubSeq(shown[place], 1, i), m.post)
       IN  /\ place = "discord" => Len(m.text) <= MessageLimit
           /\ m.buttons /\ place = "discord" =>
                read = Words(Full(IF draft.digest THEN draft.texto ELSE FormatBody(draft)))
           /\ m.buttons /\ place = "telegram" =>
                Len(read) > 1 /\ IsPrefix(Tail(read), Words(draft.texto))

\* What is above the buttons on Discord has the hashtags that approving posts.
HashtagsAreReviewed ==
  \A i \in DOMAIN shown["discord"] :
    LET m == shown["discord"][i]
    IN  m.buttons /\ drafts[m.post].extras =>
          "tag" \in Range(Read(SubSeq(shown["discord"], 1, i), m.post))

\* Whatever surrounds the object that was asked for, a fence or prose that
\* closes its quotations, and however the line breaks in its text are
\* written, _extract_json_object finds it, and json_repair is not asked.
ExtractsTheObject ==
  received = {} /\ task = [h \in Handler |-> Idle] =>
    \A before \in Prose(MaxProse), inside \in Inside(MaxInside), after \in Afterwards :
      \A object \in {ObjectOf(inside), Fenced(ObjectOf(inside))} :
        Extract(before \o object \o after) = {Object(Meaning(inside))}

\* A conversation, a digest or a summary ends, whatever the provider answers
\* and however often a call of it fails: the second chats of
\* LinkedInAgent.execute, the second call of OpenAIProvider.chat and the loop
\* that cuts a text come to an end.
HandlersEnd == \A h \in Handler : task[h].pc # "idle" ~> task[h].pc = "idle"

=============================================================================
