------------------------------ MODULE Approval ------------------------------
(***************************************************************************)
(* The approval workflow: a message received by the bot becomes a journal  *)
(* entry, a draft and an approval request with two buttons; a click on a   *)
(* button queues and publishes the draft, or rejects it; the HTTP routes   *)
(* under /content/drafts do the same to the draft, past the bot.           *)
(*                                                                         *)
(* Every repository call of the code opens a session and commits by        *)
(* itself, so a handler is a sequence of small transactions with an await  *)
(* between any two, and other handlers run in between.  A task of this     *)
(* module is one such handler; its pc names the call it makes next.        *)
(* repository.save merges the WHOLE row: the status a handler computed     *)
(* from what it read replaces whatever the row holds by then.              *)
(*                                                                         *)
(* A request is always created for the draft its handler has just created, *)
(* so requests are indexed by draft.                                       *)
(***************************************************************************)
EXTENDS ContentDraft, Naturals

CONSTANTS
  Draft,      \* identities that content_drafts rows can take
  NoDraft,    \* what an idle task works on
  BotTask,    \* updates that the bot can be handling at once
  HttpTask,   \* /content/drafts requests that can be in progress at once
  HttpOps,    \* the routes in use, of {"enqueue", "publish", "reject"}
  Channel,    \* "discord" or "telegram": the bot in use
  Unconfigured, \* whether it may be started without LinkedIn's client id
  MaxPosts,   \* bound of the model: posts of a draft are counted up to here
  MaxStops    \* bound of the model: handlers cut short by an error or a crash

ASSUME ApprovalAssumption ==
  /\ NoDraft \notin Draft
  /\ BotTask \cap HttpTask = {}
  /\ HttpOps \subseteq {"enqueue", "publish", "reject"}
  /\ Channel \in {"discord", "telegram"}
  /\ Unconfigured \in BOOLEAN
  /\ MaxPosts \in Nat /\ MaxPosts >= 2
  /\ MaxStops \in Nat

VARIABLES
  journal,    \* messages whose journal entry is saved, named by their draft
  drafts,     \* content_drafts: status of each row
  items,      \* content_publication_queue: rows per draft
  requests,   \* discord_requests / telegram_requests: status per draft
  buttons,    \* drafts whose approval buttons are on the user's screen
  posts,      \* posts made on LinkedIn with the text of each draft
  unposted,   \* drafts taken on to be published where no publisher is configured
  task,       \* what each handler is doing
  stops       \* handlers cut short so far

vars == <<journal, drafts, items, requests, buttons, posts, unposted, task, stops>>

Task == BotTask \cup HttpTask

Ops == {"none", "inbound", "approve", "reject", "http"}

Calls == {"idle", "draftSave", "requestCreate", "sendButtons",
          "enqueueLoad", "enqueueSave", "itemSave",
          "publishLoad", "linkedin", "publishSave",
          "rejectLoad", "rejectSave", "requestSave"}

Handler == [op    : Ops,
            pc    : Calls,
            draft : Draft \cup {NoDraft},
            seen  : DraftStatus \cup {Absent},    \* the draft, as it was read
            req   : RequestStatus \cup {Absent}]  \* the request, as it was read

Idle == [op |-> "none", pc |-> "idle", draft |-> NoDraft,
         seen |-> Absent, req |-> Absent]

TypeOK ==
  /\ journal \subseteq Draft
  /\ drafts \in [Draft -> DraftStatus \cup {Absent}]
  /\ items \in [Draft -> Nat]
  /\ requests \in [Draft -> RequestStatus \cup {Absent}]
  /\ buttons \subseteq Draft
  /\ posts \in [Draft -> Nat]
  /\ unposted \subseteq Draft
  /\ task \in [Task -> Handler]
  /\ \A t \in Task : task[t].draft = NoDraft <=> task[t].pc = "idle"
  /\ stops \in Nat

Init ==
  /\ journal = {}
  /\ drafts = [d \in Draft |-> Absent]
  /\ items = [d \in Draft |-> 0]
  /\ requests = [d \in Draft |-> Absent]
  /\ buttons = {}
  /\ posts = [d \in Draft |-> 0]
  /\ unposted = {}
  /\ task = [t \in Task |-> Idle]
  /\ stops = 0

-----------------------------------------------------------------------------
(* The control of a handler.                                               *)

Start(t, op, call, d, req) ==
  /\ task[t].pc = "idle"
  /\ task' = [task EXCEPT ![t] = [op |-> op, pc |-> call, draft |-> d,
                                  seen |-> Absent, req |-> req]]

Goto(t, call) == task' = [task EXCEPT ![t].pc = call]

Finish(t) == task' = [task EXCEPT ![t] = Idle]

\* Go on with the next call, or raise when the aggregate refuses.
GotoIf(t, accepted, call) == IF accepted THEN Goto(t, call) ELSE Finish(t)

\* A button handler goes on to save its request, if the aggregate it read
\* accepts the decision; a route has no request to save.
DecideRequest(t) ==
  GotoIf(t, task[t].op \in {"approve", "reject"} /\ CanDecide(task[t].req),
         "requestSave")

-----------------------------------------------------------------------------
(* Actions below, each with a bug in it (see ContentDraft).                *)

\* A message delivered again gets the rows that it already has.
InboundMessage_Redelivered(t, d) ==
  /\ Start(t, "inbound", "draftSave", d, Absent)
  /\ journal' = journal \cup {d}
  /\ UNCHANGED <<drafts, items, requests, buttons, posts, unposted, stops>>

\* The buttons are sent before the request is stored.
DraftSave_ButtonsFirst(t) ==
  /\ task[t].pc = "draftSave"
  /\ drafts' = [drafts EXCEPT ![task[t].draft] = "pending_review"]
  /\ Goto(t, "sendButtons")
  /\ UNCHANGED <<journal, items, requests, buttons, posts, unposted, stops>>

\* The queued draft is not saved, only its item.
EnqueueLoad_DraftUnsaved(t) ==
  /\ task[t].pc = "enqueueLoad"
  /\ GotoIf(t, CanQueue(drafts[task[t].draft]), "itemSave")
  /\ UNCHANGED <<journal, drafts, items, requests, buttons, posts, unposted, stops>>

\* The item is not saved, only the queued draft.
EnqueueSave_NoItem(t) ==
  /\ task[t].pc = "enqueueSave"
  /\ drafts' = [drafts EXCEPT ![task[t].draft] = "queued"]
  /\ GotoIf(t, task[t].op = "approve", "publishLoad")
  /\ UNCHANGED <<journal, items, requests, buttons, posts, unposted, stops>>

\* Approving ends with the queueing of the draft.
ItemSave_NoPublish(t) ==
  /\ task[t].pc = "itemSave"
  /\ items' = [items EXCEPT ![task[t].draft] = @ + 1]
  /\ GotoIf(t, task[t].op = "approve", "requestSave")
  /\ UNCHANGED <<journal, drafts, requests, buttons, posts, unposted, stops>>

\* A publish that fails is taken for one that worked.
Post_Swallowed(t) ==
  /\ task[t].pc = "linkedin"
  /\ GotoIf(t, CanPublish(task[t].seen), "publishSave")
  /\ UNCHANGED <<journal, drafts, items, requests, buttons, posts, unposted, stops>>

\* The published draft is not saved.
Post_Unsaved(t) ==
  /\ task[t].pc = "linkedin"
  /\ posts' = [posts EXCEPT ![task[t].draft] = IF @ < MaxPosts THEN @ + 1 ELSE @]
  /\ Finish(t)
  /\ UNCHANGED <<journal, drafts, items, requests, buttons, unposted, stops>>

\* The status of the draft is written into the request.
RequestSave_DraftStatus(t) ==
  /\ task[t].pc = "requestSave"
  /\ requests' = [requests EXCEPT ![task[t].draft] = drafts[task[t].draft]]
  /\ Finish(t)
  /\ UNCHANGED <<journal, drafts, items, buttons, posts, unposted, stops>>

-----------------------------------------------------------------------------
(* HandleInboundMessage.                                                   *)

\* The message is turned into a journal entry, which is saved first.
InboundMessage(t, d) ==
  /\ d \notin journal
  /\ drafts[d] = Absent
  /\ Start(t, "inbound", "draftSave", d, Absent)
  /\ journal' = journal \cup {d}
  /\ UNCHANGED <<drafts, items, requests, buttons, posts, unposted, stops>>

\* CreateLinkedInDraft or GenerateLinkedInDraft.
DraftSave(t) ==
  /\ task[t].pc = "draftSave"
  /\ drafts' = [drafts EXCEPT ![task[t].draft] = "pending_review"]
  /\ Goto(t, "requestCreate")
  /\ UNCHANGED <<journal, items, requests, buttons, posts, unposted, stops>>

RequestCreate(t) ==
  /\ task[t].pc = "requestCreate"
  /\ requests' = [requests EXCEPT ![task[t].draft] = "pending"]
  /\ Goto(t, "sendButtons")
  /\ UNCHANGED <<journal, drafts, items, buttons, posts, unposted, stops>>

SendButtons(t) ==
  /\ task[t].pc = "sendButtons"
  /\ buttons' = buttons \cup {task[t].draft}
  /\ Finish(t)
  /\ UNCHANGED <<journal, drafts, items, requests, posts, unposted, stops>>

\* POST /content/linkedin and /content/linkedin/generate: a draft with no
\* request, one save.
HttpCreate(d) ==
  /\ HttpTask # {}
  /\ d \notin journal
  /\ drafts[d] = Absent
  /\ drafts' = [drafts EXCEPT ![d] = "pending_review"]
  /\ UNCHANGED <<journal, items, requests, buttons, posts, unposted, task, stops>>

-----------------------------------------------------------------------------
(* HandleApprovalReply: the handler loads the request, and only the Discord *)
(* one looks at its status before it acts.  A click that is answered with   *)
(* "Esse pedido ja foi ..." changes nothing and is not a step.              *)

ClickAccepted(req) == req # Absent /\ (Channel = "discord" => CanDecide(req))

Approve(t, d) ==
  /\ d \in buttons
  /\ ClickAccepted(requests[d])
  /\ Start(t, "approve", "enqueueLoad", d, requests[d])
  /\ UNCHANGED <<journal, drafts, items, requests, buttons, posts, unposted, stops>>

Reject(t, d) ==
  /\ d \in buttons
  /\ ClickAccepted(requests[d])
  /\ Start(t, "reject", "rejectLoad", d, requests[d])
  /\ UNCHANGED <<journal, drafts, items, requests, buttons, posts, unposted, stops>>

\* A route of /content/drafts/{draft_id}; an unknown draft is answered 404.
HttpCall(t, d, op) ==
  /\ drafts[d] # Absent
  /\ Start(t, "http", CASE op = "enqueue" -> "enqueueLoad"
                        [] op = "publish" -> "publishLoad"
                        [] op = "reject"  -> "rejectLoad", d, Absent)
  /\ UNCHANGED <<journal, drafts, items, requests, buttons, posts, unposted, stops>>

-----------------------------------------------------------------------------
(* EnqueueDraft: two transactions, the draft and then its queue item.      *)

EnqueueLoad(t) ==
  /\ task[t].pc = "enqueueLoad"
  /\ GotoIf(t, CanQueue(drafts[task[t].draft]), "enqueueSave")
  /\ UNCHANGED <<journal, drafts, items, requests, buttons, posts, unposted, stops>>

EnqueueSave(t) ==
  /\ task[t].pc = "enqueueSave"
  /\ drafts' = [drafts EXCEPT ![task[t].draft] = "queued"]
  /\ Goto(t, "itemSave")
  /\ UNCHANGED <<journal, items, requests, buttons, posts, unposted, stops>>

\* The bot publishes as soon as the item is saved; the route ends here.
ItemSave(t) ==
  /\ task[t].pc = "itemSave"
  /\ items' = [items EXCEPT ![task[t].draft] = @ + 1]
  /\ GotoIf(t, task[t].op = "approve", "publishLoad")
  /\ UNCHANGED <<journal, drafts, requests, buttons, posts, unposted, stops>>

-----------------------------------------------------------------------------
(* MarkPublished: the post goes out first, and the status that decides     *)
(* whether the draft may be published, read before, is looked at after.    *)

PublishLoad(t) ==
  /\ task[t].pc = "publishLoad"
  /\ task' = [task EXCEPT ![t].pc = "linkedin",
                          ![t].seen = drafts[task[t].draft]]
  /\ UNCHANGED <<journal, drafts, items, requests, buttons, posts, unposted, stops>>

\* LinkedInPostPublisher.publish succeeds, then ContentDraft.mark_published.
Post(t) ==
  /\ task[t].pc = "linkedin"
  /\ posts' = [posts EXCEPT ![task[t].draft] = IF @ < MaxPosts THEN @ + 1 ELSE @]
  /\ GotoIf(t, CanPublish(task[t].seen), "publishSave")
  /\ UNCHANGED <<journal, drafts, items, requests, buttons, unposted, stops>>

\* The client id and secret of LinkedIn are settings of the process: without
\* them MarkPublished has no publisher, and goes on without a post.
SkipPost(t) ==
  /\ Unconfigured
  /\ task[t].pc = "linkedin"
  /\ unposted' = IF CanPublish(task[t].seen)
                  THEN unposted \cup {task[t].draft} ELSE unposted
  /\ GotoIf(t, CanPublish(task[t].seen), "publishSave")
  /\ UNCHANGED <<journal, drafts, items, requests, buttons, posts, stops>>

PublishSave(t) ==
  /\ task[t].pc = "publishSave"
  /\ drafts' = [drafts EXCEPT ![task[t].draft] = "published"]
  /\ DecideRequest(t)
  /\ UNCHANGED <<journal, items, requests, buttons, posts, unposted, stops>>

-----------------------------------------------------------------------------
(* RejectDraft.                                                            *)

RejectLoad(t) ==
  /\ task[t].pc = "rejectLoad"
  /\ GotoIf(t, CanReject(drafts[task[t].draft]), "rejectSave")
  /\ UNCHANGED <<journal, drafts, items, requests, buttons, posts, unposted, stops>>

RejectSave(t) ==
  /\ task[t].pc = "rejectSave"
  /\ drafts' = [drafts EXCEPT ![task[t].draft] = "rejected"]
  /\ DecideRequest(t)
  /\ UNCHANGED <<journal, items, requests, buttons, posts, unposted, stops>>

\* request.approve() or request.reject() on the copy read at the click, and
\* requests.save.
RequestSave(t) ==
  /\ task[t].pc = "requestSave"
  /\ requests' = [requests EXCEPT ![task[t].draft] =
                    IF task[t].op = "approve" THEN "approved" ELSE "rejected"]
  /\ Finish(t)
  /\ UNCHANGED <<journal, drafts, items, buttons, posts, unposted, stops>>

-----------------------------------------------------------------------------
(* A handler ends early at any await: a database error, an LLM or          *)
(* validation error while the draft is generated, a publish that LinkedIn  *)
(* refuses, a process that stops.  Ending right after a call has taken     *)
(* effect is the same call reporting an error although it took effect: a   *)
(* commit whose answer is lost, a post created by a request that timed out *)
(* or that came back without its x-restli-id header.                       *)
Stop(t) ==
  /\ task[t].pc # "idle"
  /\ stops < MaxStops
  /\ stops' = stops + 1
  /\ Finish(t)
  /\ UNCHANGED <<journal, drafts, items, requests, buttons, posts, unposted>>

\* The use cases a handler runs, once started.
HandleInboundMessage(t) == DraftSave(t) \/ RequestCreate(t) \/ SendButtons(t)

EnqueueDraft(t) == EnqueueLoad(t) \/ EnqueueSave(t) \/ ItemSave(t)

MarkPublished(t) == PublishLoad(t) \/ Post(t) \/ SkipPost(t) \/ PublishSave(t)

RejectDraft(t) == RejectLoad(t) \/ RejectSave(t)

HandleApprovalReply(t) ==
  EnqueueDraft(t) \/ MarkPublished(t) \/ RejectDraft(t) \/ RequestSave(t)

Progress(t) == HandleInboundMessage(t) \/ HandleApprovalReply(t)

BotStart(t) ==
  \E d \in Draft : InboundMessage(t, d) \/ Approve(t, d) \/ Reject(t, d)

HttpStart(t) == \E d \in Draft, op \in HttpOps : HttpCall(t, d, op)

Next ==
  \/ \E t \in BotTask : BotStart(t)
  \/ \E t \in HttpTask : HttpStart(t)
  \/ \E d \in Draft : HttpCreate(d)
  \/ \E t \in Task : Progress(t) \/ Stop(t)

Spec == Init /\ [][Next]_vars

-----------------------------------------------------------------------------
(* What the workflow promises, however many handlers run at once.          *)

\* The text is out, or there was no publisher to send it with.
PostedOrSkipped(d) == posts[d] > 0 \/ d \in unposted

\* A draft is marked as published only after its text went to LinkedIn:
\* MarkPublished posts before it saves, wherever it has a publisher.
PublishedIsPosted == \A d \in Draft : drafts[d] = "published" => PostedOrSkipped(d)

\* A request is marked as approved only after the post it approved, or after
\* its handler found no publisher.
ApprovedIsPosted == \A d \in Draft : requests[d] = "approved" => PostedOrSkipped(d)

\* A draft that still shows as waiting for review has no queue item and no
\* decided request: whatever saves those saved the draft before them, and no
\* handler ever writes "pending_review" over a decision.
UnderReviewUntouched ==
  \A d \in Draft : drafts[d] \in {Absent, "pending_review"} =>
    items[d] = 0 /\ requests[d] \in {Absent, "pending"}

\* The user never sees buttons for a draft or a request that is not stored.
ButtonsBacked ==
  \A d \in buttons : /\ d \in journal
                     /\ drafts[d] # Absent
                     /\ requests[d] # Absent

(* What it promises when the bot handles one update at a time.             *)

\* No text goes to LinkedIn twice, crashes and repeated clicks included.
AtMostOnePost == \A d \in Draft : posts[d] <= 1

\* Nothing is posted that was not shown with its buttons and queued first.
PostedWasReviewed ==
  \A d \in Draft : posts[d] > 0 => d \in buttons /\ items[d] > 0

\* An approved request and its draft agree.
ApprovedIsPublished ==
  \A d \in Draft : requests[d] = "approved" => drafts[d] = "published"

\* "Ok, nao publiquei esse conteudo.": the request is saved as rejected right
\* before the user is told that nothing was published.  That is untrue only
\* after a handler was cut short.
RejectedNotPosted ==
  \A d \in Draft : requests[d] = "rejected" /\ posts[d] > 0 => stops > 0

\* "draft publicado nao pode ser rejeitado", nor queued again.
PublishedIsFinal ==
  [][\A d \in Draft : drafts[d] = "published" => drafts'[d] = "published"]_vars

\* "pedido ja processado": a decision on a request is never replaced.
DecidedOnce ==
  [][\A d \in Draft : requests[d] \in {"approved", "rejected"} =>
       requests'[d] = requests[d]]_vars

\* Publishing requires a queued draft: LinkedIn gets the text of no other.  No
\* run checks this: it holds where no publish route is used, and the route
\* posts the text of any draft before it looks at the status (README).
PublishRequiresQueued ==
  [][\A d \in Draft : posts'[d] # posts[d] => CanPublish(drafts[d])]_vars

\* One update at a time, and the routes left alone: what the handlers do to a
\* draft is the life its aggregate describes.
Lifecycle == INSTANCE DraftLifecycle WITH status <- drafts

ImplementsLifecycle == Lifecycle!LifeSpec

\* However many handlers and routes act on copies of it, this is left of that
\* life: only what was queued, and posted wherever there is a publisher,
\* becomes published, and nothing that was decided is under review again.
KeepsSharedLife == Lifecycle!SharedSpec

-----------------------------------------------------------------------------
(* Fairness.  The event loop runs every handler that can go on.  That the  *)
(* user keeps pressing a button that is still there, and the API's client  *)
(* keeps calling publish, is an assumption about them, used only to ask    *)
(* whether pressing again helps.                                           *)

HandlersRun == \A t \in Task : WF_vars(Progress(t))

UserRetries == \A t \in BotTask, d \in Draft : SF_vars(Approve(t, d))

ClientRetries == \A t \in HttpTask, d \in Draft : SF_vars(HttpCall(t, d, "publish"))

RetrySpec == Spec /\ HandlersRun /\ UserRetries /\ ClientRetries

\* "o draft permanece queued para retry": a queued draft is in the end
\* published (or rejected), if LinkedIn fails a finite number of times.
QueuedIsDecided ==
  \A d \in Draft :
    drafts[d] = "queued" ~> drafts[d] \in {"published", "rejected"}

-----------------------------------------------------------------------------
(* Why it holds: what each handler knows at each of its calls.             *)

UnderReview(d) == drafts[d] \in {Absent, "pending_review"}

Creating(t) == task[t].pc \in {"draftSave", "requestCreate"}

\* Facts about one handler, true whatever the others do.
HandlerInv(t) ==
  LET h == task[t]
      d == task[t].draft
  IN /\ h.pc = "draftSave" => d \in journal /\ drafts[d] = Absent
     /\ h.pc = "requestCreate" => d \in journal /\ requests[d] = Absent
     /\ h.pc = "sendButtons" => d \in journal /\ requests[d] # Absent
     /\ h.pc \notin {"idle", "draftSave"} => drafts[d] # Absent
     /\ h.op \in {"approve", "reject"} => d \in buttons
     /\ h.pc = "itemSave" => ~UnderReview(d)
     /\ h.pc \in {"rejectLoad", "rejectSave"} => h.op # "approve"
     /\ h.op = "approve" /\ h.pc \in {"publishLoad", "linkedin", "publishSave"}
          => ~UnderReview(d) /\ items[d] > 0
     /\ h.pc = "linkedin" /\ CanPublish(h.seen) => ~UnderReview(d)
     /\ h.pc = "publishSave" => ~UnderReview(d) /\ PostedOrSkipped(d)
     /\ h.pc = "requestSave" => h.op \in {"approve", "reject"} /\ ~UnderReview(d)
     /\ h.pc = "requestSave" /\ h.op = "approve" => PostedOrSkipped(d)

\* No two handlers create the rows of the same message.
OneCreator ==
  \A t, u \in Task :
    Creating(t) /\ Creating(u) /\ task[t].draft = task[u].draft => t = u

\* Inductive, for any number of handlers and routes.
WorkflowInv ==
  /\ TypeOK
  /\ \A t \in Task : HandlerInv(t)
  /\ OneCreator
  /\ PublishedIsPosted
  /\ ApprovedIsPosted
  /\ UnderReviewUntouched
  /\ ButtonsBacked
  /\ unposted # {} => Unconfigured
  /\ \A d \in Draft : requests[d] # Absent => drafts[d] # Absent

\* The bot handles one update at a time, as Telegram's polling loop does, and
\* nobody calls the publish route.
OneHandlerPublishes == (\A b, c \in BotTask : b = c) /\ "publish" \notin HttpOps

\* Nor the other two.
OneHandlerOnly == (\A b, c \in BotTask : b = c) /\ HttpOps = {}

\* With one bot handler that alone may publish: a handler that is still on
\* its way to LinkedIn finds nothing posted.
PostingInv ==
  /\ AtMostOnePost
  /\ PostedWasReviewed
  /\ \A d \in Draft : UnderReview(d) => posts[d] = 0
  /\ \A t \in HttpTask : task[t].op \in {"none", "http"}
  /\ \A t \in BotTask : task[t].op \in {"none", "inbound", "approve", "reject"}
  /\ \A t \in BotTask :
       task[t].op = "approve" /\ task[t].pc \in {"enqueueSave", "itemSave",
                                               "publishLoad", "linkedin"}
         => posts[task[t].draft] = 0
  /\ \A t \in Task : task[t].pc \in {"publishLoad", "linkedin", "publishSave"}
                       => task[t].op = "approve"

\* With one bot handler and no route: what it read is what the row holds.
SerialInv ==
  /\ \A t \in HttpTask : task[t] = Idle
  /\ \A t \in BotTask :
       LET d == task[t].draft IN
       /\ task[t].pc = "enqueueSave" => drafts[d] = "pending_review"
       /\ task[t].pc \in {"itemSave", "publishLoad", "linkedin", "publishSave"}
            => drafts[d] = "queued"
       /\ task[t].pc = "publishSave" => posts[d] = 1 \/ d \in unposted
       /\ task[t].pc = "rejectSave" => CanReject(drafts[d])

\* With one bot handler and no route: the request is as the handler read it, a
\* decided request agrees with its draft, and unless a handler was cut short
\* a text that is out is of a published draft, or about to be.
DecisionInv ==
  /\ \A t \in BotTask :
       LET d == task[t].draft IN
       /\ task[t].op \in {"approve", "reject"} => task[t].req = requests[d]
       /\ task[t].pc = "linkedin" => task[t].seen = drafts[d]
       /\ task[t].pc = "requestSave"
            => /\ CanDecide(requests[d])
               /\ drafts[d] = IF task[t].op = "approve" THEN "published" ELSE "rejected"
  /\ ApprovedIsPublished
  /\ \A d \in Draft : requests[d] = "rejected" => drafts[d] = "rejected"
  /\ \A d \in Draft : posts[d] > 0 /\ stops = 0 =>
       \/ drafts[d] = "published"
       \/ \E t \in BotTask : task[t].pc = "publishSave" /\ task[t].draft = d

=============================================================================
