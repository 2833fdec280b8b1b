--------------------------- MODULE ApprovalProofs ---------------------------
(***************************************************************************)
(* Theorems about the approval workflow, for every number of drafts,       *)
(* handlers and cut-short handlers, and about the polling loop that hands  *)
(* the Telegram bot the updates it works on.                               *)
(***************************************************************************)
EXTENDS Approval, TelegramPolling, TLAPS

\* The tables start within their domains.
LEMMA InitType == Init => TypeOK
  BY ApprovalAssumption
  DEF Init, TypeOK, Idle, Handler, Ops, Calls, DraftStatus, RequestStatus, Absent

\* Every step keeps every table within its domain.
LEMMA NextType == TypeOK /\ [Next]_vars => TypeOK'
<1> SUFFICES ASSUME TypeOK, [Next]_vars
             PROVE  TypeOK'
  OBVIOUS
<1> USE ApprovalAssumption
    DEF TypeOK, Handler, Ops, Calls, DraftStatus, RequestStatus, Absent, Idle, Task
<1>1. ASSUME NEW t \in Task, NEW d \in Draft, InboundMessage(t, d)
      PROVE  TypeOK'
  BY <1>1 DEF InboundMessage, Start
<1>2. ASSUME NEW t \in Task, NEW d \in Draft, Approve(t, d) \/ Reject(t, d)
      PROVE  TypeOK'
  BY <1>2 DEF Approve, Reject, Start
<1>3. ASSUME NEW t \in Task, NEW d \in Draft, NEW op \in HttpOps, HttpCall(t, d, op)
      PROVE  TypeOK'
  BY <1>3 DEF HttpCall, Start
<1>4. ASSUME NEW d \in Draft, HttpCreate(d)
      PROVE  TypeOK'
  BY <1>4 DEF HttpCreate
<1>5. ASSUME NEW t \in Task, DraftSave(t) \/ RequestCreate(t) \/ SendButtons(t)
      PROVE  TypeOK'
  BY <1>5 DEF DraftSave, RequestCreate, SendButtons, Goto, Finish
<1>6. ASSUME NEW t \in Task, EnqueueLoad(t) \/ EnqueueSave(t) \/ ItemSave(t)
      PROVE  TypeOK'
  BY <1>6 DEF EnqueueLoad, EnqueueSave, ItemSave, GotoIf, Goto, Finish
<1>7. ASSUME NEW t \in Task, PublishLoad(t) \/ Post(t) \/ SkipPost(t) \/ PublishSave(t)
      PROVE  TypeOK'
  BY <1>7 DEF PublishLoad, Post, SkipPost, PublishSave, DecideRequest, GotoIf, Goto, Finish
<1>8. ASSUME NEW t \in Task, RejectLoad(t) \/ RejectSave(t) \/ RequestSave(t)
      PROVE  TypeOK'
  BY <1>8 DEF RejectLoad, RejectSave, RequestSave, DecideRequest, GotoIf, Goto, Finish
<1>9. ASSUME NEW t \in Task, Stop(t)
      PROVE  TypeOK'
  BY <1>9 DEF Stop, Finish
<1>10. CASE UNCHANGED vars
  BY <1>10 DEF vars
<1>11. QED
  BY <1>1, <1>2, <1>3, <1>4, <1>5, <1>6, <1>7, <1>8, <1>9, <1>10
  DEF Next, BotStart, HttpStart, Progress, HandleInboundMessage, HandleApprovalReply,
      EnqueueDraft, MarkPublished, RejectDraft

-----------------------------------------------------------------------------
(* Any number of handlers and routes at once.                              *)

\* Nothing exists at first, so every clause of the invariant holds.
LEMMA InitWorkflow == Init => WorkflowInv
  BY InitType, ApprovalAssumption
  DEF Init, WorkflowInv, HandlerInv, OneCreator, Creating, UnderReview, Idle,
      PublishedIsPosted, ApprovedIsPosted, PostedOrSkipped, UnderReviewUntouched,
      ButtonsBacked, Absent

\* No step of any handler or route breaks the invariant, whatever the others
\* are in the middle of.
LEMMA NextWorkflow == WorkflowInv /\ [Next]_vars => WorkflowInv'
<1> SUFFICES ASSUME WorkflowInv, [Next]_vars
             PROVE  WorkflowInv'
  OBVIOUS
<1>0. TypeOK /\ TypeOK'
  BY NextType DEF WorkflowInv
<1> USE <1>0, ApprovalAssumption
    DEF WorkflowInv, TypeOK, Handler, Idle, Absent, HandlerInv, OneCreator, Creating,
        UnderReview, PublishedIsPosted, ApprovedIsPosted, PostedOrSkipped,
        UnderReviewUntouched, ButtonsBacked
<1>1. ASSUME NEW t \in Task, NEW d \in Draft, InboundMessage(t, d)
      PROVE  WorkflowInv'
  BY <1>1 DEF InboundMessage, Start
<1>2. ASSUME NEW t \in Task, NEW d \in Draft, Approve(t, d) \/ Reject(t, d)
      PROVE  WorkflowInv'
  <2>1. /\ d \in buttons /\ task'[t].draft = d
        /\ \/ task'[t].op = "approve" /\ task'[t].pc = "enqueueLoad"
           \/ task'[t].op = "reject" /\ task'[t].pc = "rejectLoad"
        /\ \A u \in Task \ {t} : task'[u] = task[u]
        /\ UNCHANGED <<journal, drafts, items, requests, buttons, posts, unposted, stops>>
    BY <1>2 DEF Approve, Reject, Start
  <2>2. HandlerInv(t)'
    BY <2>1
  <2>3. \A u \in Task \ {t} : HandlerInv(u)'
    BY <2>1
  <2>4. OneCreator'
    BY <2>1
  <2>5. QED
    BY <2>1, <2>2, <2>3, <2>4
<1>3. ASSUME NEW t \in Task, NEW d \in Draft, NEW op \in HttpOps, HttpCall(t, d, op)
      PROVE  WorkflowInv'
  BY <1>3 DEF HttpCall, Start
<1>4. ASSUME NEW d \in Draft, HttpCreate(d)
      PROVE  WorkflowInv'
  BY <1>4 DEF HttpCreate
<1>5. ASSUME NEW t \in Task, DraftSave(t)
      PROVE  WorkflowInv'
  <2> DEFINE new == task[t].draft
  <2>1. new \in Draft /\ new \in journal /\ drafts[new] = Absent
    BY <1>5 DEF DraftSave
  <2>2. \A u \in Task \ {t} : task[u].draft # new
    BY <1>5, <2>1 DEF DraftSave
  <2>3. /\ drafts' = [drafts EXCEPT ![new] = "pending_review"]
        /\ task'[t] = [task[t] EXCEPT !.pc = "requestCreate"]
        /\ \A u \in Task \ {t} : task'[u] = task[u]
        /\ UNCHANGED <<journal, items, requests, buttons, posts, unposted, stops>>
    BY <1>5 DEF DraftSave, Goto
  <2>4. HandlerInv(t)'
    BY <1>5, <2>1, <2>3 DEF DraftSave
  <2>5. \A u \in Task \ {t} : HandlerInv(u)'
    BY <2>2, <2>3
  <2>6. OneCreator'
    BY <2>2, <2>3
  <2>7. PublishedIsPosted' /\ ApprovedIsPosted' /\ UnderReviewUntouched' /\ ButtonsBacked'
    BY <2>1, <2>3
  <2>8. (\A d \in Draft : requests[d] # Absent => drafts[d] # Absent)'
    BY <2>1, <2>3
  <2>9. QED
    BY <2>3, <2>4, <2>5, <2>6, <2>7, <2>8
<1>6. ASSUME NEW t \in Task, RequestCreate(t)
      PROVE  WorkflowInv'
  BY <1>6 DEF RequestCreate, Goto
<1>7. ASSUME NEW t \in Task, SendButtons(t)
      PROVE  WorkflowInv'
  BY <1>7 DEF SendButtons, Finish
<1>8. ASSUME NEW t \in Task, EnqueueLoad(t)
      PROVE  WorkflowInv'
  <2>1. /\ \/ task'[t] = [task[t] EXCEPT !.pc = "enqueueSave"]
           \/ task'[t] = Idle
        /\ \A u \in Task \ {t} : task'[u] = task[u]
        /\ UNCHANGED <<journal, drafts, items, requests, buttons, posts, unposted, stops>>
    BY <1>8 DEF EnqueueLoad, GotoIf, Goto, Finish
  <2>2. HandlerInv(t)'
    BY <1>8, <2>1 DEF EnqueueLoad
  <2>3. \A u \in Task \ {t} : HandlerInv(u)'
    BY <2>1
  <2>4. OneCreator'
    BY <2>1
  <2>5. QED
    BY <2>1, <2>2, <2>3, <2>4
<1>9. ASSUME NEW t \in Task, EnqueueSave(t)
      PROVE  WorkflowInv'
  BY <1>9 DEF EnqueueSave, Goto
<1>10. ASSUME NEW t \in Task, ItemSave(t)
       PROVE  WorkflowInv'
  <2> DEFINE old == task[t].draft
  <2>1. old \in Draft /\ ~UnderReview(old)
    BY <1>10 DEF ItemSave
  <2>2. /\ items' = [items EXCEPT ![old] = @ + 1]
        /\ \/ task'[t] = [task[t] EXCEPT !.pc = "publishLoad"] /\ task[t].op = "approve"
           \/ task'[t] = Idle
        /\ \A u \in Task \ {t} : task'[u] = task[u]
        /\ UNCHANGED <<journal, drafts, requests, buttons, posts, unposted, stops>>
    BY <1>10, <2>1 DEF ItemSave, GotoIf, Goto, Finish
  <2>3. items'[old] > 0 /\ \A d \in Draft : items[d] > 0 => items'[d] > 0
    BY <2>1, <2>2
  <2>4. HandlerInv(t)'
    BY <1>10, <2>1, <2>2, <2>3 DEF ItemSave
  <2>5. \A u \in Task \ {t} : HandlerInv(u)'
    BY <2>1, <2>2, <2>3
  <2>6. OneCreator'
    BY <2>2
  <2>7. PublishedIsPosted' /\ ApprovedIsPosted' /\ UnderReviewUntouched' /\ ButtonsBacked'
    BY <2>1, <2>2
  <2>8. QED
    BY <2>2, <2>4, <2>5, <2>6, <2>7
<1>11. ASSUME NEW t \in Task, PublishLoad(t)
       PROVE  WorkflowInv'
  <2>1. /\ task'[t] = [task[t] EXCEPT !.pc = "linkedin", !.seen = drafts[task[t].draft]]
        /\ task'[t].pc = "linkedin"
        /\ \A u \in Task \ {t} : task'[u] = task[u]
        /\ UNCHANGED <<journal, drafts, items, requests, buttons, posts, unposted, stops>>
    BY <1>11 DEF PublishLoad
  <2>2. HandlerInv(t)'
    BY <1>11, <2>1 DEF PublishLoad, CanPublish
  <2>3. \A u \in Task \ {t} : HandlerInv(u)'
    BY <2>1
  <2>4. ~Creating(t)'
    BY <2>1
  <2>5. ASSUME NEW u \in Task, NEW v \in Task, Creating(u)', Creating(v)',
               task'[u].draft = task'[v].draft
        PROVE  u = v
    <3>1. u # t /\ v # t
      BY <2>4, <2>5
    <3>2. task'[u] = task[u] /\ task'[v] = task[v]
      BY <2>1, <3>1
    <3>3. QED
      BY <2>5, <3>2
  <2>6. OneCreator'
    BY <2>5
  <2>7. PublishedIsPosted' /\ ApprovedIsPosted' /\ UnderReviewUntouched' /\ ButtonsBacked'
    BY <2>1
  <2>8. (\A d \in Draft : requests[d] # Absent => drafts[d] # Absent)'
    BY <2>1
  <2> HIDE DEF HandlerInv, OneCreator, TypeOK
  <2>9. QED
    BY <2>1, <2>2, <2>3, <2>6, <2>7, <2>8
<1>12. ASSUME NEW t \in Task, Post(t)
       PROVE  WorkflowInv'
  <2> DEFINE old == task[t].draft
  <2>1. old \in Draft
    BY <1>12 DEF Post
  <2>2. /\ posts'[old] > 0
        /\ \A d \in Draft : posts[d] > 0 => posts'[d] > 0
        /\ \/ task'[t] = [task[t] EXCEPT !.pc = "publishSave"] /\ CanPublish(task[t].seen)
           \/ task'[t] = Idle
        /\ \A u \in Task \ {t} : task'[u] = task[u]
        /\ UNCHANGED <<journal, drafts, items, requests, buttons, unposted, stops>>
    BY <1>12, <2>1 DEF Post, GotoIf, Goto, Finish
  <2>3. HandlerInv(t)'
    BY <1>12, <2>1, <2>2 DEF Post
  <2>4. \A u \in Task \ {t} : HandlerInv(u)'
    BY <2>1, <2>2
  <2>5. OneCreator'
    BY <2>2
  <2>6. PublishedIsPosted' /\ ApprovedIsPosted' /\ UnderReviewUntouched' /\ ButtonsBacked'
    BY <2>1, <2>2
  <2>7. QED
    BY <2>2, <2>3, <2>4, <2>5, <2>6
<1>12a. ASSUME NEW t \in Task, SkipPost(t)
        PROVE  WorkflowInv'
  <2> DEFINE old == task[t].draft
  <2>1. old \in Draft /\ Unconfigured
    BY <1>12a DEF SkipPost
  <2>2. /\ unposted \subseteq unposted'
        /\ \/ /\ task'[t] = [task[t] EXCEPT !.pc = "publishSave"]
              /\ CanPublish(task[t].seen) /\ old \in unposted'
           \/ task'[t] = Idle
        /\ \A u \in Task \ {t} : task'[u] = task[u]
        /\ UNCHANGED <<journal, drafts, items, requests, buttons, posts, stops>>
    BY <1>12a, <2>1 DEF SkipPost, GotoIf, Goto, Finish
  <2>3. HandlerInv(t)'
    BY <1>12a, <2>1, <2>2 DEF SkipPost
  <2>4. \A u \in Task \ {t} : HandlerInv(u)'
    BY <2>1, <2>2
  <2>5. OneCreator'
    BY <2>2
  <2>6. PublishedIsPosted' /\ ApprovedIsPosted' /\ UnderReviewUntouched' /\ ButtonsBacked'
    BY <2>1, <2>2
  <2>7. QED
    BY <2>1, <2>2, <2>3, <2>4, <2>5, <2>6
<1>13. ASSUME NEW t \in Task, PublishSave(t)
       PROVE  WorkflowInv'
  <2> DEFINE old == task[t].draft
  <2>1. old \in Draft /\ PostedOrSkipped(old)
    BY <1>13 DEF PublishSave
  <2>2. /\ drafts' = [drafts EXCEPT ![old] = "published"]
        /\ \/ /\ task'[t] = [task[t] EXCEPT !.pc = "requestSave"]
              /\ task[t].op \in {"approve", "reject"}
           \/ task'[t] = Idle
        /\ \A u \in Task \ {t} : task'[u] = task[u]
        /\ UNCHANGED <<journal, items, requests, buttons, posts, unposted, stops>>
    BY <1>13, <2>1 DEF PublishSave, DecideRequest, GotoIf, Goto, Finish
  <2>3. HandlerInv(t)'
    BY <1>13, <2>1, <2>2 DEF PublishSave
  <2>4. drafts[old] # Absent
    BY <1>13 DEF PublishSave
  <2>5. \A u \in Task \ {t} : HandlerInv(u)'
    BY <2>1, <2>2, <2>4
  <2>6. OneCreator'
    BY <2>2
  <2>7. PublishedIsPosted' /\ ApprovedIsPosted' /\ UnderReviewUntouched' /\ ButtonsBacked'
    BY <2>1, <2>2
  <2>8. (\A d \in Draft : requests[d] # Absent => drafts[d] # Absent)'
    BY <2>1, <2>2
  <2>9. QED
    BY <2>2, <2>3, <2>5, <2>6, <2>7, <2>8
<1>14. ASSUME NEW t \in Task, RejectLoad(t)
       PROVE  WorkflowInv'
  <2>1. /\ \/ task'[t] = [task[t] EXCEPT !.pc = "rejectSave"]
           \/ task'[t] = Idle
        /\ \A u \in Task \ {t} : task'[u] = task[u]
        /\ UNCHANGED <<journal, drafts, items, requests, buttons, posts, unposted, stops>>
    BY <1>14 DEF RejectLoad, GotoIf, Goto, Finish
  <2>2. HandlerInv(t)'
    BY <1>14, <2>1 DEF RejectLoad
  <2>3. \A u \in Task \ {t} : HandlerInv(u)'
    BY <2>1
  <2>4. OneCreator'
    BY <2>1
  <2>5. QED
    BY <2>1, <2>2, <2>3, <2>4
<1>15. ASSUME NEW t \in Task, RejectSave(t)
       PROVE  WorkflowInv'
  <2> DEFINE old == task[t].draft
  <2>1. old \in Draft /\ drafts[old] # Absent /\ task[t].op # "approve"
    BY <1>15 DEF RejectSave
  <2>2. /\ drafts' = [drafts EXCEPT ![old] = "rejected"]
        /\ \/ task'[t] = [task[t] EXCEPT !.pc = "requestSave"] /\ task[t].op = "reject"
           \/ task'[t] = Idle
        /\ \A u \in Task \ {t} : task'[u] = task[u]
        /\ UNCHANGED <<journal, items, requests, buttons, posts, unposted, stops>>
    BY <1>15, <2>1 DEF RejectSave, DecideRequest, GotoIf, Goto, Finish
  <2>3. HandlerInv(t)'
    BY <1>15, <2>1, <2>2 DEF RejectSave
  <2>4. \A u \in Task \ {t} : HandlerInv(u)'
    BY <2>1, <2>2
  <2>5. OneCreator'
    BY <2>2
  <2>6. PublishedIsPosted' /\ ApprovedIsPosted' /\ UnderReviewUntouched' /\ ButtonsBacked'
    BY <2>1, <2>2
  <2>7. (\A d \in Draft : requests[d] # Absent => drafts[d] # Absent)'
    BY <2>1, <2>2
  <2>8. QED
    BY <2>2, <2>3, <2>4, <2>5, <2>6, <2>7
<1>16. ASSUME NEW t \in Task, RequestSave(t)
       PROVE  WorkflowInv'
  BY <1>16 DEF RequestSave, Finish
<1>17. ASSUME NEW t \in Task, Stop(t)
       PROVE  WorkflowInv'
  BY <1>17 DEF Stop, Finish
<1>18. CASE UNCHANGED vars
  BY <1>18 DEF vars
<1> HIDE DEF WorkflowInv, HandlerInv, OneCreator, TypeOK, Handler, Idle
<1>19. QED
  BY <1>1, <1>2, <1>3, <1>4, <1>5, <1>6, <1>7, <1>8, <1>9, <1>10, <1>11, <1>12,
     <1>12a, <1>13, <1>14, <1>15, <1>16, <1>17, <1>18
  DEF Next, BotStart, HttpStart, Progress, HandleInboundMessage, HandleApprovalReply,
      EnqueueDraft, MarkPublished, RejectDraft, Task

\* The workflow's invariant, for any number of handlers and routes.
THEOREM WorkflowCorrect == Spec => []WorkflowInv
<1>1. WorkflowInv /\ [Next]_vars => WorkflowInv'
  BY NextWorkflow
<1>2. QED
  BY InitWorkflow, <1>1, PTL DEF Spec

\* Every table stays within its domain.
THEOREM TypeCorrect == Spec => []TypeOK
<1>1. WorkflowInv => TypeOK
  BY DEF WorkflowInv
<1>2. QED
  BY WorkflowCorrect, <1>1, PTL

\* Whatever runs concurrently, a draft shown as published and the draft of a
\* request shown as approved were posted or met no publisher; where every
\* process has LinkedIn's client id and secret, they were posted.
THEOREM DecisionsAreBacked ==
  Spec => [](/\ PublishedIsPosted
             /\ ApprovedIsPosted
             /\ ~Unconfigured => \A d \in Draft :
                  drafts[d] = "published" \/ requests[d] = "approved" => posts[d] > 0)
<1>1. WorkflowInv =>
        /\ PublishedIsPosted
        /\ ApprovedIsPosted
        /\ ~Unconfigured => \A d \in Draft :
             drafts[d] = "published" \/ requests[d] = "approved" => posts[d] > 0
  BY DEF WorkflowInv, PublishedIsPosted, ApprovedIsPosted, PostedOrSkipped
<1>2. QED
  BY WorkflowCorrect, <1>1, PTL

\* Whatever runs concurrently, nothing is decided about a draft that waits for
\* review, and every button has its rows behind it.
THEOREM RowsAreBacked == Spec => [](UnderReviewUntouched /\ ButtonsBacked)
<1>1. WorkflowInv => UnderReviewUntouched /\ ButtonsBacked
  BY DEF WorkflowInv
<1>2. QED
  BY WorkflowCorrect, <1>1, PTL

-----------------------------------------------------------------------------
(* One bot handler, which alone publishes.                                 *)

\* Nothing is posted at first.
LEMMA InitPosting == Init => PostingInv
  BY ApprovalAssumption
  DEF Init, PostingInv, AtMostOnePost, PostedWasReviewed, UnderReview, Idle, Task, Absent

\* No step breaks what holds when one handler alone publishes.
LEMMA NextPosting ==
  ASSUME OneHandlerPublishes
  PROVE  WorkflowInv /\ PostingInv /\ [Next]_vars => PostingInv'
<1> SUFFICES ASSUME WorkflowInv, PostingInv, [Next]_vars
             PROVE  PostingInv'
  OBVIOUS
<1>0. /\ TypeOK /\ TypeOK'
      /\ \A t \in Task : HandlerInv(t)
      /\ UnderReviewUntouched
  BY NextType DEF WorkflowInv
<1> USE <1>0, ApprovalAssumption
    DEF OneHandlerPublishes, PostingInv, TypeOK, Handler, Idle, Absent, HandlerInv,
        UnderReview, AtMostOnePost, PostedWasReviewed, UnderReviewUntouched, Task
<1>1. ASSUME NEW t \in BotTask, NEW d \in Draft, InboundMessage(t, d)
      PROVE  PostingInv'
  BY <1>1 DEF InboundMessage, Start
<1>2. ASSUME NEW t \in BotTask, NEW d \in Draft, Approve(t, d) \/ Reject(t, d)
      PROVE  PostingInv'
  BY <1>2 DEF Approve, Reject, Start
<1>3. ASSUME NEW t \in HttpTask, NEW d \in Draft, NEW op \in HttpOps, HttpCall(t, d, op)
      PROVE  PostingInv'
  <2>1. op = "enqueue" \/ op = "reject"
    OBVIOUS
  <2>2. QED
    BY <1>3, <2>1 DEF HttpCall, Start
<1>4. ASSUME NEW d \in Draft, HttpCreate(d)
      PROVE  PostingInv'
  BY <1>4 DEF HttpCreate
<1>5. ASSUME NEW t \in Task, DraftSave(t)
      PROVE  PostingInv'
  BY <1>5 DEF DraftSave, Goto
<1>6. ASSUME NEW t \in Task, RequestCreate(t)
      PROVE  PostingInv'
  BY <1>6 DEF RequestCreate, Goto
<1>7. ASSUME NEW t \in Task, SendButtons(t)
      PROVE  PostingInv'
  BY <1>7 DEF SendButtons, Finish
<1>8. ASSUME NEW t \in Task, EnqueueLoad(t)
      PROVE  PostingInv'
  BY <1>8 DEF EnqueueLoad, GotoIf, Goto, Finish, CanQueue
<1>9. ASSUME NEW t \in Task, EnqueueSave(t)
      PROVE  PostingInv'
  BY <1>9 DEF EnqueueSave, Goto
<1>10. ASSUME NEW t \in Task, ItemSave(t)
       PROVE  PostingInv'
  BY <1>10 DEF ItemSave, GotoIf, Goto, Finish
<1>11. ASSUME NEW t \in Task, PublishLoad(t)
       PROVE  PostingInv'
  BY <1>11 DEF PublishLoad
<1>12. ASSUME NEW t \in Task, Post(t)
       PROVE  PostingInv'
  BY <1>12 DEF Post, GotoIf, Goto, Finish
<1>12a. ASSUME NEW t \in Task, SkipPost(t)
        PROVE  PostingInv'
  BY <1>12a DEF SkipPost, GotoIf, Goto, Finish
<1>13. ASSUME NEW t \in Task, PublishSave(t)
       PROVE  PostingInv'
  BY <1>13 DEF PublishSave, DecideRequest, GotoIf, Goto, Finish
<1>14. ASSUME NEW t \in Task, RejectLoad(t)
       PROVE  PostingInv'
  BY <1>14 DEF RejectLoad, GotoIf, Goto, Finish
<1>15. ASSUME NEW t \in Task, RejectSave(t)
       PROVE  PostingInv'
  BY <1>15 DEF RejectSave, DecideRequest, GotoIf, Goto, Finish
<1>16. ASSUME NEW t \in Task, RequestSave(t)
       PROVE  PostingInv'
  BY <1>16 DEF RequestSave, Finish
<1>17. ASSUME NEW t \in Task, Stop(t)
       PROVE  PostingInv'
  BY <1>17 DEF Stop, Finish
<1>18. CASE UNCHANGED vars
  BY <1>18 DEF vars
<1> HIDE <1>0 DEF PostingInv, HandlerInv, TypeOK, Handler, Idle
<1>19. QED
  BY <1>1, <1>2, <1>3, <1>4, <1>5, <1>6, <1>7, <1>8, <1>9, <1>10, <1>11, <1>12,
     <1>12a, <1>13, <1>14, <1>15, <1>16, <1>17, <1>18
  DEF Next, BotStart, HttpStart, Progress, HandleInboundMessage, HandleApprovalReply,
      EnqueueDraft, MarkPublished, RejectDraft, Task

\* When the bot takes one update at a time and alone publishes, no text is
\* posted twice, whatever the routes enqueue or reject meanwhile, however
\* often buttons are pressed again and wherever handlers are cut short.
THEOREM PostedAtMostOnce ==
  ASSUME OneHandlerPublishes
  PROVE  Spec => []AtMostOnePost
<1>1. Init => WorkflowInv /\ PostingInv
  BY InitWorkflow, InitPosting
<1>2. WorkflowInv /\ PostingInv /\ [Next]_vars => (WorkflowInv /\ PostingInv)'
  BY NextWorkflow, NextPosting
<1>3. PostingInv => AtMostOnePost
  BY DEF PostingInv
<1>4. QED
  BY <1>1, <1>2, <1>3, PTL DEF Spec

\* Under the same conditions everything posted was shown with its buttons and
\* queued before.
THEOREM PostedAfterReview ==
  ASSUME OneHandlerPublishes
  PROVE  Spec => []PostedWasReviewed
<1>1. Init => WorkflowInv /\ PostingInv
  BY InitWorkflow, InitPosting
<1>2. WorkflowInv /\ PostingInv /\ [Next]_vars => (WorkflowInv /\ PostingInv)'
  BY NextWorkflow, NextPosting
<1>3. PostingInv => PostedWasReviewed
  BY DEF PostingInv
<1>4. QED
  BY <1>1, <1>2, <1>3, PTL DEF Spec

-----------------------------------------------------------------------------
(* One handler at a time and nothing else: the life of a draft.            *)

\* No handler has read anything at first.
LEMMA InitSerial == Init => SerialInv
  BY ApprovalAssumption DEF Init, SerialInv, Idle, Task

\* When nothing runs beside it, what a handler read stays true until it saves.
LEMMA NextSerial ==
  ASSUME OneHandlerOnly
  PROVE  WorkflowInv /\ PostingInv /\ SerialInv /\ [Next]_vars => SerialInv'
<1> SUFFICES ASSUME WorkflowInv, PostingInv, SerialInv, [Next]_vars
             PROVE  SerialInv'
  OBVIOUS
<1>0. /\ TypeOK /\ TypeOK'
      /\ \A t \in Task : HandlerInv(t)
      /\ \A t \in BotTask :
           task[t].op = "approve" /\ task[t].pc = "linkedin" => posts[task[t].draft] = 0
      /\ \A t \in Task : task[t].pc \in {"publishLoad", "linkedin", "publishSave"}
                           => task[t].op = "approve"
  BY NextType DEF WorkflowInv, PostingInv
<1> USE <1>0, ApprovalAssumption
    DEF OneHandlerOnly, SerialInv, TypeOK, Handler, Idle, Absent, Task
<1>1. ASSUME NEW t \in BotTask, NEW d \in Draft, InboundMessage(t, d)
      PROVE  SerialInv'
  BY <1>1 DEF InboundMessage, Start
<1>2. ASSUME NEW t \in BotTask, NEW d \in Draft, Approve(t, d) \/ Reject(t, d)
      PROVE  SerialInv'
  BY <1>2 DEF Approve, Reject, Start
<1>3. ASSUME NEW d \in Draft, HttpCreate(d)
      PROVE  SerialInv'
  <2>1. \A t \in BotTask : task[t].pc \notin {"idle", "draftSave"} => task[t].draft # d
    BY <1>3 DEF HttpCreate, HandlerInv
  <2>2. QED
    BY <1>3, <2>1 DEF HttpCreate
<1>4. ASSUME NEW t \in Task, DraftSave(t) \/ RequestCreate(t) \/ SendButtons(t)
      PROVE  SerialInv'
  BY <1>4 DEF DraftSave, RequestCreate, SendButtons, Goto, Finish
<1>5. ASSUME NEW t \in Task, EnqueueLoad(t) \/ EnqueueSave(t) \/ ItemSave(t)
      PROVE  SerialInv'
  BY <1>5 DEF EnqueueLoad, EnqueueSave, ItemSave, GotoIf, Goto, Finish, CanQueue
<1>6. ASSUME NEW t \in Task, PublishLoad(t) \/ Post(t) \/ SkipPost(t)
      PROVE  SerialInv'
  BY <1>6 DEF PublishLoad, Post, SkipPost, GotoIf, Goto, Finish
<1>7. ASSUME NEW t \in Task, PublishSave(t)
      PROVE  SerialInv'
  BY <1>7 DEF PublishSave, DecideRequest, GotoIf, Goto, Finish
<1>8. ASSUME NEW t \in Task, RejectLoad(t) \/ RejectSave(t) \/ RequestSave(t)
      PROVE  SerialInv'
  BY <1>8 DEF RejectLoad, RejectSave, RequestSave, DecideRequest, GotoIf, Goto, Finish
<1>9. ASSUME NEW t \in Task, Stop(t)
      PROVE  SerialInv'
  BY <1>9 DEF Stop, Finish
<1>10. CASE UNCHANGED vars
  BY <1>10 DEF vars
<1> HIDE <1>0 DEF SerialInv, TypeOK, Handler, Idle
<1>11. QED
  BY <1>1, <1>2, <1>3, <1>4, <1>5, <1>6, <1>7, <1>8, <1>9, <1>10
  DEF Next, BotStart, HttpStart, Progress, HandleInboundMessage, HandleApprovalReply,
      EnqueueDraft, MarkPublished, RejectDraft, Task, OneHandlerOnly

\* Every step of a handler is a step in the life of its draft, or none.
LEMMA StepIsLifeStep ==
  ASSUME OneHandlerOnly
  PROVE  WorkflowInv /\ PostingInv /\ SerialInv /\ [Next]_vars
           => [Lifecycle!LifeNext]_<<drafts, posts, unposted>>
<1> SUFFICES ASSUME WorkflowInv, PostingInv, SerialInv, [Next]_vars
             PROVE  [Lifecycle!LifeNext]_<<drafts, posts, unposted>>
  OBVIOUS
<1> DEFINE Step == [Lifecycle!LifeNext]_<<drafts, posts, unposted>>
<1>0. /\ TypeOK
      /\ \A t \in Task : HandlerInv(t)
      /\ \A t \in BotTask :
           task[t].op = "approve" /\ task[t].pc = "linkedin" => posts[task[t].draft] = 0
      /\ \A t \in Task : task[t].pc \in {"publishLoad", "linkedin", "publishSave"}
                           => task[t].op = "approve"
  BY DEF WorkflowInv, PostingInv
<1> USE <1>0, ApprovalAssumption
    DEF TypeOK, Handler, SerialInv, Idle, Task, Absent, Lifecycle!Absent,
        CanQueue, Lifecycle!CanQueue, CanPublish, Lifecycle!CanPublish,
        CanReject, Lifecycle!CanReject, DraftStatus, Lifecycle!DraftStatus
<1>1. ASSUME NEW t \in Task, DraftSave(t)
      PROVE  Step
  <2>1. task[t].draft \in Draft /\ drafts[task[t].draft] = Absent
    BY <1>1 DEF DraftSave, HandlerInv
  <2>2. Lifecycle!Create(task[t].draft)
    BY <1>1, <2>1 DEF DraftSave, Lifecycle!Create, Lifecycle!Become
  <2>3. QED
    BY <2>1, <2>2 DEF Lifecycle!LifeNext
<1>2. ASSUME NEW d \in Draft, HttpCreate(d)
      PROVE  Step
  BY <1>2 DEF HttpCreate, Lifecycle!LifeNext, Lifecycle!Create, Lifecycle!Become
<1>3. ASSUME NEW t \in Task, EnqueueSave(t)
      PROVE  Step
  <2>1. task[t].draft \in Draft /\ CanQueue(drafts[task[t].draft])
    BY <1>3 DEF EnqueueSave
  <2>2. Lifecycle!Queue(task[t].draft)
    BY <1>3, <2>1 DEF EnqueueSave, Lifecycle!Queue, Lifecycle!Become
  <2>3. QED
    BY <2>1, <2>2 DEF Lifecycle!LifeNext
<1>4. ASSUME NEW t \in Task, Post(t)
      PROVE  Step
  <2>1. /\ task[t].draft \in Draft
        /\ posts[task[t].draft] = 0
        /\ CanPublish(drafts[task[t].draft])
    BY <1>4 DEF Post
  <2>2. Lifecycle!PostOnce(task[t].draft)
    <3>0. (IF posts[task[t].draft] < MaxPosts
           THEN posts[task[t].draft] + 1 ELSE posts[task[t].draft]) = 1
      BY <2>1
    <3>1. posts' = [posts EXCEPT ![task[t].draft] = 1] /\ UNCHANGED <<drafts, unposted>>
      BY <1>4, <2>1, <3>0 DEF Post
    <3>2. QED
      BY <2>1, <3>1 DEF Lifecycle!PostOnce
  <2>3. QED
    BY <2>1, <2>2 DEF Lifecycle!LifeNext
<1>4a. ASSUME NEW t \in Task, SkipPost(t)
       PROVE  Step
  <2>1. task[t].draft \in Draft /\ CanPublish(drafts[task[t].draft])
    BY <1>4a DEF SkipPost
  <2>2. CASE CanPublish(task[t].seen)
    <3>1. Lifecycle!GoUnposted(task[t].draft)
      BY <1>4a, <2>1, <2>2 DEF SkipPost, Lifecycle!GoUnposted
    <3>2. QED
      BY <2>1, <3>1 DEF Lifecycle!LifeNext
  <2>3. CASE ~CanPublish(task[t].seen)
    BY <1>4a, <2>3 DEF SkipPost
  <2>4. QED
    BY <2>2, <2>3
<1>5. ASSUME NEW t \in Task, PublishSave(t)
      PROVE  Step
  <2>1. /\ task[t].draft \in Draft
        /\ posts[task[t].draft] = 1 \/ task[t].draft \in unposted
        /\ CanPublish(drafts[task[t].draft])
    BY <1>5 DEF PublishSave
  <2>2. Lifecycle!Publish(task[t].draft)
    BY <1>5, <2>1 DEF PublishSave, Lifecycle!Publish, Lifecycle!Become
  <2>3. QED
    BY <2>1, <2>2 DEF Lifecycle!LifeNext
<1>6. ASSUME NEW t \in Task, RejectSave(t)
      PROVE  Step
  <2>1. task[t].draft \in Draft /\ CanReject(drafts[task[t].draft])
    BY <1>6 DEF RejectSave
  <2>2. Lifecycle!RejectIt(task[t].draft)
    BY <1>6, <2>1 DEF RejectSave, Lifecycle!RejectIt, Lifecycle!Become
  <2>3. QED
    BY <2>1, <2>2 DEF Lifecycle!LifeNext
<1>7. ASSUME UNCHANGED <<drafts, posts, unposted>>
      PROVE  Step
  BY <1>7
<1> HIDE <1>0 DEF Step, TypeOK, Handler, SerialInv, Idle
<1>8. ASSUME NEW t \in Task, Progress(t) \/ Stop(t)
      PROVE  Step
  BY <1>8, <1>1, <1>3, <1>4, <1>4a, <1>5, <1>6, <1>7
  DEF Progress, HandleInboundMessage, HandleApprovalReply,
      EnqueueDraft, MarkPublished, RejectDraft,
      RequestCreate, SendButtons, EnqueueLoad, ItemSave, PublishLoad,
      RejectLoad, RequestSave, Stop
<1>9. ASSUME NEW t \in Task, NEW d \in Draft, InboundMessage(t, d) \/ Approve(t, d) \/ Reject(t, d)
      PROVE  Step
  BY <1>9, <1>7 DEF InboundMessage, Approve, Reject
<1>10. CASE UNCHANGED vars
  BY <1>10, <1>7 DEF vars
<1>11. ASSUME NEW t \in HttpTask
       PROVE  ~HttpStart(t)
  BY DEF HttpStart, OneHandlerOnly
<1>12. ASSUME Next
       PROVE  Step
  <2>1. CASE \E t \in BotTask : BotStart(t)
    BY <2>1, <1>9 DEF BotStart, Task
  <2>2. CASE \E t \in HttpTask : HttpStart(t)
    BY <2>2, <1>11
  <2>3. CASE \E d \in Draft : HttpCreate(d)
    BY <2>3, <1>2
  <2>4. CASE \E t \in Task : Progress(t) \/ Stop(t)
    BY <2>4, <1>8
  <2>5. QED
    BY <1>12, <2>1, <2>2, <2>3, <2>4 DEF Next
<1>13. QED
  BY <1>10, <1>12 DEF Step, vars

\* With one handler at a time and the routes left alone, the whole workflow,
\* its copies, retries and cut-short handlers included, implements the life
\* of a draft: queued once, posted once and only while queued, published only
\* once posted or where no publisher is configured, never rejected after it
\* was published.
THEOREM WorkflowImplementsLifecycle ==
  ASSUME OneHandlerOnly
  PROVE  Spec => ImplementsLifecycle
<1> DEFINE Inv == WorkflowInv /\ PostingInv /\ SerialInv
<1>1. Init => Inv
  BY InitWorkflow, InitPosting, InitSerial
<1>2. Inv /\ [Next]_vars => Inv'
  BY NextWorkflow, NextPosting, NextSerial DEF OneHandlerOnly, OneHandlerPublishes
<1>3. Init => Lifecycle!LifeInit
  BY DEF Init, Lifecycle!LifeInit, Absent, Lifecycle!Absent
<1>4. Inv /\ [Next]_vars => [Lifecycle!LifeNext]_<<drafts, posts, unposted>>
  BY StepIsLifeStep
<1>5. QED
  BY <1>1, <1>2, <1>3, <1>4, PTL
  DEF Spec, ImplementsLifecycle, Lifecycle!LifeSpec, Lifecycle!lifeVars

-----------------------------------------------------------------------------
(* The life that is left of a draft when many handle it.                   *)

\* Every step of any handler or route, whatever the others are in the middle
\* of, is a step of the shared life of one draft, or none.
LEMMA StepIsSharedStep ==
  WorkflowInv /\ [Next]_vars => [Lifecycle!SharedNext]_<<drafts, posts, unposted>>
<1> SUFFICES ASSUME WorkflowInv, [Next]_vars
             PROVE  [Lifecycle!SharedNext]_<<drafts, posts, unposted>>
  OBVIOUS
<1> DEFINE Step == [Lifecycle!SharedNext]_<<drafts, posts, unposted>>
<1>0. /\ TypeOK
      /\ \A t \in Task : HandlerInv(t)
  BY DEF WorkflowInv
<1> USE <1>0, ApprovalAssumption
    DEF TypeOK, Handler, Absent, Lifecycle!Absent
<1>1. ASSUME NEW t \in Task, DraftSave(t)
      PROVE  Step
  <2>1. task[t].draft \in Draft /\ drafts[task[t].draft] = Absent
    BY <1>1 DEF DraftSave, HandlerInv
  <2>2. Lifecycle!Create(task[t].draft)
    BY <1>1, <2>1 DEF DraftSave, Lifecycle!Create, Lifecycle!Become
  <2>3. QED
    BY <2>1, <2>2 DEF Lifecycle!SharedNext
<1>2. ASSUME NEW d \in Draft, HttpCreate(d)
      PROVE  Step
  BY <1>2 DEF HttpCreate, Lifecycle!SharedNext, Lifecycle!Create, Lifecycle!Become
<1>3. ASSUME NEW t \in Task, EnqueueSave(t)
      PROVE  Step
  <2>1. task[t].draft \in Draft /\ drafts[task[t].draft] # Absent
    BY <1>3 DEF EnqueueSave, HandlerInv
  <2>2. Lifecycle!OverwriteWith(task[t].draft, "queued")
    BY <1>3, <2>1 DEF EnqueueSave, Lifecycle!OverwriteWith, Lifecycle!Become
  <2>3. QED
    BY <2>1, <2>2 DEF Lifecycle!SharedNext
<1>4. ASSUME NEW t \in Task, Post(t)
      PROVE  Step
  <2>1. task[t].draft \in Draft /\ drafts[task[t].draft] # Absent
    BY <1>4 DEF Post, HandlerInv
  <2>2. CASE posts[task[t].draft] < MaxPosts
    <3>1. /\ posts' = [posts EXCEPT ![task[t].draft] = @ + 1]
          /\ UNCHANGED <<drafts, unposted>>
      BY <1>4, <2>2 DEF Post
    <3>2. Lifecycle!PostAgain(task[t].draft)
      BY <2>1, <3>1 DEF Lifecycle!PostAgain
    <3>3. QED
      BY <2>1, <3>2 DEF Lifecycle!SharedNext
  <2>3. CASE ~(posts[task[t].draft] < MaxPosts)
    <3>1. UNCHANGED <<drafts, posts, unposted>>
      BY <1>4, <2>1, <2>3 DEF Post
    <3>2. QED
      BY <3>1
  <2>4. QED
    BY <2>2, <2>3
<1>4a. ASSUME NEW t \in Task, SkipPost(t)
       PROVE  Step
  <2>1. task[t].draft \in Draft
    BY <1>4a DEF SkipPost
  <2>2. CASE CanPublish(task[t].seen)
    <3>1. drafts[task[t].draft] \in DraftStatus \ {"pending_review"}
      BY <1>4a, <2>2 DEF SkipPost, HandlerInv, UnderReview
    <3>2. Lifecycle!GoUnpostedAgain(task[t].draft)
      BY <1>4a, <2>2, <3>1 DEF SkipPost, Lifecycle!GoUnpostedAgain,
                               DraftStatus, Lifecycle!DraftStatus
    <3>3. QED
      BY <2>1, <3>2 DEF Lifecycle!SharedNext
  <2>3. CASE ~CanPublish(task[t].seen)
    BY <1>4a, <2>3 DEF SkipPost
  <2>4. QED
    BY <2>2, <2>3
<1>5. ASSUME NEW t \in Task, PublishSave(t)
      PROVE  Step
  <2>1. /\ task[t].draft \in Draft
        /\ drafts[task[t].draft] \in DraftStatus \ {"pending_review"}
        /\ posts[task[t].draft] > 0 \/ task[t].draft \in unposted
    BY <1>5 DEF PublishSave, HandlerInv, UnderReview, PostedOrSkipped
  <2>2. Lifecycle!PublishPosted(task[t].draft)
    BY <1>5, <2>1 DEF PublishSave, Lifecycle!PublishPosted, Lifecycle!Become,
                      DraftStatus, Lifecycle!DraftStatus
  <2>3. QED
    BY <2>1, <2>2 DEF Lifecycle!SharedNext
<1>6. ASSUME NEW t \in Task, RejectSave(t)
      PROVE  Step
  <2>1. task[t].draft \in Draft /\ drafts[task[t].draft] # Absent
    BY <1>6 DEF RejectSave, HandlerInv
  <2>2. Lifecycle!OverwriteWith(task[t].draft, "rejected")
    BY <1>6, <2>1 DEF RejectSave, Lifecycle!OverwriteWith, Lifecycle!Become
  <2>3. QED
    BY <2>1, <2>2 DEF Lifecycle!SharedNext
<1>7. ASSUME UNCHANGED <<drafts, posts, unposted>>
      PROVE  Step
  BY <1>7
<1> HIDE <1>0 DEF Step, TypeOK, Handler
<1>8. ASSUME NEW t \in Task, Progress(t) \/ Stop(t)
      PROVE  Step
  BY <1>8, <1>1, <1>3, <1>4, <1>4a, <1>5, <1>6, <1>7
  DEF Progress, HandleInboundMessage, HandleApprovalReply,
      EnqueueDraft, MarkPublished, RejectDraft,
      RequestCreate, SendButtons, EnqueueLoad, ItemSave, PublishLoad,
      RejectLoad, RequestSave, Stop
<1>9. ASSUME NEW t \in Task, NEW d \in Draft, InboundMessage(t, d) \/ Approve(t, d) \/ Reject(t, d)
      PROVE  Step
  BY <1>9, <1>7 DEF InboundMessage, Approve, Reject
<1>10. ASSUME NEW t \in Task, NEW d \in Draft, NEW op \in HttpOps, HttpCall(t, d, op)
       PROVE  Step
  BY <1>10, <1>7 DEF HttpCall
<1>11. CASE UNCHANGED vars
  BY <1>11, <1>7 DEF vars
<1>12. ASSUME Next
       PROVE  Step
  <2>1. CASE \E t \in BotTask : BotStart(t)
    BY <2>1, <1>9 DEF BotStart, Task
  <2>2. CASE \E t \in HttpTask : HttpStart(t)
    BY <2>2, <1>10 DEF HttpStart, Task
  <2>3. CASE \E d \in Draft : HttpCreate(d)
    BY <2>3, <1>2
  <2>4. CASE \E t \in Task : Progress(t) \/ Stop(t)
    BY <2>4, <1>8
  <2>5. QED
    BY <1>12, <2>1, <2>2, <2>3, <2>4 DEF Next
<1>13. QED
  BY <1>11, <1>12 DEF Step, vars

\* However many updates and requests are handled at once, each from a copy of
\* the row that may be stale when it is saved: what becomes published was
\* queued, and posted unless its handler had no publisher, and what was
\* decided is never under review again.
THEOREM WorkflowKeepsSharedLife == Spec => KeepsSharedLife
<1>1. Init => WorkflowInv
  BY InitWorkflow
<1>2. WorkflowInv /\ [Next]_vars => WorkflowInv'
  BY NextWorkflow
<1>3. Init => Lifecycle!LifeInit
  BY DEF Init, Lifecycle!LifeInit, Absent, Lifecycle!Absent
<1>4. WorkflowInv /\ [Next]_vars => [Lifecycle!SharedNext]_<<drafts, posts, unposted>>
  BY StepIsSharedStep
<1>5. QED
  BY <1>1, <1>2, <1>3, <1>4, PTL
  DEF Spec, KeepsSharedLife, Lifecycle!SharedSpec, Lifecycle!lifeVars

-----------------------------------------------------------------------------
(* The decisions of that one handler.                                      *)

\* Nothing is decided at first.
LEMMA InitDecision == Init => DecisionInv
  BY ApprovalAssumption
  DEF Init, DecisionInv, ApprovedIsPublished, Idle, Task, Absent

\* When nothing runs beside it, the request a handler read is still the stored
\* one when it saves its decision, and so is the draft it decided about.
LEMMA NextDecision ==
  ASSUME OneHandlerOnly
  PROVE  WorkflowInv /\ PostingInv /\ SerialInv /\ DecisionInv /\ [Next]_vars
           => DecisionInv'
<1> SUFFICES ASSUME WorkflowInv, PostingInv, SerialInv, DecisionInv, [Next]_vars
             PROVE  DecisionInv'
  OBVIOUS
<1>0. /\ TypeOK /\ TypeOK'
      /\ \A t \in Task : HandlerInv(t)
      /\ \A t \in Task : task[t].pc \in {"publishLoad", "linkedin", "publishSave"}
                           => task[t].op = "approve"
      /\ \A t \in BotTask : task[t].op \in {"none", "inbound", "approve", "reject"}
      /\ \A d \in Draft : requests[d] \in {"approved", "rejected"} => ~UnderReview(d)
      /\ \A d \in Draft : UnderReview(d) => posts[d] = 0
  BY NextType DEF WorkflowInv, PostingInv, UnderReviewUntouched, UnderReview, Absent
<1> USE <1>0, ApprovalAssumption
    DEF OneHandlerOnly, SerialInv, DecisionInv, TypeOK, Handler, Idle, Absent, Task,
        ApprovedIsPublished, UnderReview
<1>1. ASSUME NEW t \in BotTask, NEW d \in Draft, InboundMessage(t, d)
      PROVE  DecisionInv'
  BY <1>1 DEF InboundMessage, Start
<1>2. ASSUME NEW t \in BotTask, NEW d \in Draft, Approve(t, d) \/ Reject(t, d)
      PROVE  DecisionInv'
  BY <1>2 DEF Approve, Reject, Start
<1>3. ASSUME NEW d \in Draft, HttpCreate(d)
      PROVE  DecisionInv'
  BY <1>3 DEF HttpCreate
<1>4. ASSUME NEW t \in Task, DraftSave(t)
      PROVE  DecisionInv'
  BY <1>4 DEF DraftSave, Goto, HandlerInv
<1>5. ASSUME NEW t \in Task, RequestCreate(t)
      PROVE  DecisionInv'
  <2>1. task[t].op \notin {"approve", "reject"}
    BY <1>5 DEF RequestCreate, HandlerInv, WorkflowInv, ButtonsBacked
  <2>2. QED
    BY <1>5, <2>1 DEF RequestCreate, Goto, HandlerInv
<1>6. ASSUME NEW t \in Task, SendButtons(t)
      PROVE  DecisionInv'
  BY <1>6 DEF SendButtons, Finish
<1>7. ASSUME NEW t \in Task, EnqueueLoad(t)
      PROVE  DecisionInv'
  BY <1>7 DEF EnqueueLoad, GotoIf, Goto, Finish
<1>8. ASSUME NEW t \in Task, EnqueueSave(t)
      PROVE  DecisionInv'
  BY <1>8 DEF EnqueueSave, Goto
<1>9. ASSUME NEW t \in Task, ItemSave(t)
      PROVE  DecisionInv'
  BY <1>9 DEF ItemSave, GotoIf, Goto, Finish
<1>10. ASSUME NEW t \in Task, PublishLoad(t)
       PROVE  DecisionInv'
  BY <1>10 DEF PublishLoad
<1>11. ASSUME NEW t \in Task, Post(t)
       PROVE  DecisionInv'
  BY <1>11 DEF Post, GotoIf, Goto, Finish, CanPublish
<1>11a. ASSUME NEW t \in Task, SkipPost(t)
        PROVE  DecisionInv'
  BY <1>11a DEF SkipPost, GotoIf, Goto, Finish, CanPublish
<1>12. ASSUME NEW t \in Task, PublishSave(t)
       PROVE  DecisionInv'
  BY <1>12 DEF PublishSave, DecideRequest, GotoIf, Goto, Finish
<1>13. ASSUME NEW t \in Task, RejectLoad(t)
       PROVE  DecisionInv'
  BY <1>13 DEF RejectLoad, GotoIf, Goto, Finish
<1>14. ASSUME NEW t \in Task, RejectSave(t)
       PROVE  DecisionInv'
  BY <1>14 DEF RejectSave, DecideRequest, GotoIf, Goto, Finish, HandlerInv, CanReject
<1>15. ASSUME NEW t \in Task, RequestSave(t)
       PROVE  DecisionInv'
  BY <1>15 DEF RequestSave, Finish, HandlerInv
<1>16. ASSUME NEW t \in Task, Stop(t)
       PROVE  DecisionInv'
  BY <1>16 DEF Stop, Finish
<1>17. CASE UNCHANGED vars
  BY <1>17 DEF vars
<1> HIDE <1>0 DEF SerialInv, DecisionInv, TypeOK, Handler, Idle
<1>18. QED
  BY <1>1, <1>2, <1>3, <1>4, <1>5, <1>6, <1>7, <1>8, <1>9, <1>10, <1>11, <1>12,
     <1>11a, <1>13, <1>14, <1>15, <1>16, <1>17
  DEF Next, BotStart, HttpStart, Progress, HandleInboundMessage, HandleApprovalReply,
      EnqueueDraft, MarkPublished, RejectDraft, Task, OneHandlerOnly

\* All that one handler, with nothing beside it, may rely on.
AloneInv == WorkflowInv /\ PostingInv /\ SerialInv /\ DecisionInv

LEMMA AloneCorrect ==
  ASSUME OneHandlerOnly
  PROVE  Spec => []AloneInv
<1>1. Init => AloneInv
  BY InitWorkflow, InitPosting, InitSerial, InitDecision DEF AloneInv
<1>2. AloneInv /\ [Next]_vars => AloneInv'
  BY NextWorkflow, NextPosting, NextSerial, NextDecision
  DEF AloneInv, OneHandlerOnly, OneHandlerPublishes
<1>3. QED
  BY <1>1, <1>2, PTL DEF Spec

\* With one handler at a time, pressing buttons again, in any order, and being
\* cut short anywhere never make a request say "approved" of a draft that is
\* not published.
THEOREM ApprovalsArePublished ==
  ASSUME OneHandlerOnly
  PROVE  Spec => []ApprovedIsPublished
<1>1. AloneInv => ApprovedIsPublished
  BY DEF AloneInv, DecisionInv
<1>2. QED
  BY <1>1, AloneCorrect, PTL

\* With one handler at a time, a user who is told that a text was not
\* published is told the truth, unless a handler was cut short: between the
\* post and the save of its draft, as the code has it.
THEOREM RejectionsAreTrue ==
  ASSUME OneHandlerOnly
  PROVE  Spec => []RejectedNotPosted
<1>1. AloneInv => RejectedNotPosted
  <2> SUFFICES ASSUME AloneInv,
                      NEW d \in Draft, requests[d] = "rejected", posts[d] > 0, stops = 0
               PROVE  FALSE
    BY DEF RejectedNotPosted, AloneInv, WorkflowInv, TypeOK
  <2>1. drafts[d] = "rejected"
    BY DEF AloneInv, DecisionInv
  <2>2. PICK t \in BotTask : task[t].pc = "publishSave" /\ task[t].draft = d
    BY <2>1 DEF AloneInv, DecisionInv
  <2>3. drafts[d] = "queued"
    BY <2>2 DEF AloneInv, SerialInv
  <2>4. QED
    BY <2>1, <2>3
<1>2. QED
  BY <1>1, AloneCorrect, PTL

\* What a step of that handler may do to one draft: nothing to a published one,
\* a decision only where none was made.
LEMMA AloneStep ==
  ASSUME OneHandlerOnly
  PROVE  AloneInv /\ [Next]_vars =>
           \A d \in Draft :
             /\ drafts[d] = "published" => drafts'[d] = "published"
             /\ requests[d] \in {"approved", "rejected"} => requests'[d] = requests[d]
<1> DEFINE Kept == \A d \in Draft :
             /\ drafts[d] = "published" => drafts'[d] = "published"
             /\ requests[d] \in {"approved", "rejected"} => requests'[d] = requests[d]
<1> SUFFICES ASSUME AloneInv, [Next]_vars
             PROVE  Kept
  OBVIOUS
<1>0. /\ TypeOK
      /\ \A t \in Task : HandlerInv(t)
      /\ \A t \in Task : task[t].pc \in {"publishLoad", "linkedin", "publishSave"}
                           => task[t].op = "approve"
      /\ SerialInv /\ DecisionInv
  BY DEF AloneInv, WorkflowInv, PostingInv
<1> USE <1>0, ApprovalAssumption
    DEF TypeOK, Handler, SerialInv, DecisionInv, Idle, Absent, Task, HandlerInv, CanReject,
        CanDecide
<1>1. ASSUME UNCHANGED <<drafts, requests>>
      PROVE  Kept
  BY <1>1
<1>2. ASSUME NEW d \in Draft, HttpCreate(d)
      PROVE  Kept
  BY <1>2 DEF HttpCreate
<1>3. ASSUME NEW t \in Task, DraftSave(t) \/ EnqueueSave(t) \/ PublishSave(t) \/ RejectSave(t)
      PROVE  Kept
  BY <1>3 DEF DraftSave, EnqueueSave, PublishSave, RejectSave
<1>4. ASSUME NEW t \in Task, RequestCreate(t) \/ RequestSave(t)
      PROVE  Kept
  BY <1>4 DEF RequestCreate, RequestSave
<1> HIDE <1>0 DEF Kept, TypeOK, Handler, SerialInv, DecisionInv, Idle, HandlerInv
<1>6. ASSUME NEW t \in Task, Progress(t) \/ Stop(t)
      PROVE  Kept
  BY <1>6, <1>1, <1>3, <1>4
  DEF Progress, HandleInboundMessage, HandleApprovalReply,
      EnqueueDraft, MarkPublished, RejectDraft, Post, SkipPost,
      SendButtons, EnqueueLoad, ItemSave, PublishLoad, RejectLoad, Stop
<1>7. ASSUME NEW t \in Task, NEW d \in Draft,
             InboundMessage(t, d) \/ Approve(t, d) \/ Reject(t, d)
      PROVE  Kept
  BY <1>7, <1>1 DEF InboundMessage, Approve, Reject
<1>8. CASE UNCHANGED vars
  BY <1>8, <1>1 DEF vars
<1>9. QED
  BY <1>2, <1>6, <1>7, <1>8 DEF Next, BotStart, HttpStart, OneHandlerOnly, Task

\* "draft publicado nao pode ser rejeitado": with one handler at a time, its
\* save finds the draft as its load did.
THEOREM PublishedStays ==
  ASSUME OneHandlerOnly
  PROVE  Spec => PublishedIsFinal
<1>1. AloneInv /\ [Next]_vars
        => [\A d \in Draft : drafts[d] = "published" => drafts'[d] = "published"]_vars
  BY AloneStep
<1>2. QED
  BY <1>1, AloneCorrect, PTL DEF Spec, PublishedIsFinal

\* "pedido ja processado": with one handler at a time, a decision stands.
THEOREM DecisionsStand ==
  ASSUME OneHandlerOnly
  PROVE  Spec => DecidedOnce
<1>1. AloneInv /\ [Next]_vars
        => [\A d \in Draft : requests[d] \in {"approved", "rejected"} =>
              requests'[d] = requests[d]]_vars
  BY AloneStep
<1>2. QED
  BY <1>1, AloneCorrect, PTL DEF Spec, DecidedOnce

-----------------------------------------------------------------------------
(* What the polling loop of the Telegram bot promises, proved for every    *)
(* number of updates, of updates in an answer, of failed calls and of      *)
(* restarts.                                                               *)

\* Nothing was sent and nothing handled at first.
LEMMA InitPolling == PollInit => PollingInv
  BY PollingAssumption
  DEF PollInit, PollingInv, PollTypeOK, ConfirmedIsFinished, TakenInOrder, Update

\* What getUpdates confirms lies behind the offset, and so is finished.
LEMMA Confirming ==
  ASSUME PollingInv, pc = "poll"
  PROVE  /\ ConfirmedBy(offset) \in confirmed .. sent
         /\ ConfirmedBy(offset) + 1 >= offset
         /\ 1 .. ConfirmedBy(offset) \subseteq finished
<1>1. CASE offset > confirmed + 1
  <2>1. 1 .. (offset - 1) \subseteq finished /\ offset \in Nat
    BY <1>1 DEF PollingInv, PollTypeOK
  <2>2. offset - 1 \in 1 .. sent
    BY <1>1, <2>1 DEF PollingInv, PollTypeOK
  <2>3. QED
    BY <1>1, <2>1, <2>2 DEF ConfirmedBy, PollingInv, PollTypeOK
<1>2. CASE ~(offset > confirmed + 1)
  BY <1>2 DEF ConfirmedBy, PollingInv, PollTypeOK, ConfirmedIsFinished
<1>3. QED
  BY <1>1, <1>2

\* An answer that starts with an update that was sent ends with one.
LEMMA LastInAnswer ==
  ASSUME sent \in Nat, NEW c \in Nat, c < sent
  PROVE  LastOf(c + 1) \in (c + 1) .. sent
<1>1. c + 1 <= sent /\ c + 1 + Limit - 1 >= c + 1 /\ c + 1 + Limit - 1 \in Nat
  BY PollingAssumption
<1>2. QED
  BY <1>1 DEF LastOf

\* Every step of the loop, of the user and of the process keeps the invariant.
LEMMA NextPolling == PollingInv /\ [PollNext]_pollVars => PollingInv'
<1> SUFFICES ASSUME PollingInv, [PollNext]_pollVars
             PROVE  PollingInv'
  OBVIOUS
<1> USE PollingAssumption DEF PollTypeOK, Update
<1>1. CASE Send
  BY <1>1 DEF Send, PollingInv, ConfirmedIsFinished, TakenInOrder, Behind
<1>2. CASE GetUpdates
  <2>1. PICK c \in Nat : c = ConfirmedBy(offset)
    BY <1>2, Confirming DEF GetUpdates, PollingInv
  <2>2. /\ c \in confirmed .. sent
        /\ c + 1 >= offset
        /\ 1 .. c \subseteq finished
    BY <1>2, <2>1, Confirming DEF GetUpdates
  <2>3. CASE c < sent
    <3>1. LastOf(c + 1) \in (c + 1) .. sent
      BY <2>3, LastInAnswer DEF PollingInv
    <3>2. /\ confirmed' = c /\ next' = c + 1 /\ last' = LastOf(c + 1) /\ pc' = "next"
          /\ UNCHANGED <<sent, offset, attempts, finished, errors, restarts>>
      BY <1>2, <2>1, <2>3 DEF GetUpdates
    <3>3. PollTypeOK'
      BY <2>2, <3>1, <3>2 DEF PollingInv
    <3>4. Behind' /\ next' >= 1 /\ next' <= last' /\ offset' <= next'
      BY <2>2, <3>1, <3>2 DEF PollingInv, Behind
    <3>5. QED
      BY <2>2, <3>2, <3>3, <3>4 DEF PollingInv, ConfirmedIsFinished, TakenInOrder
  <2>4. CASE ~(c < sent)
    BY <1>2, <2>1, <2>2, <2>4
    DEF GetUpdates, PollingInv, ConfirmedIsFinished, TakenInOrder, Behind
  <2>5. QED
    BY <2>3, <2>4
<1>3. CASE GetUpdatesFails
  <2>1. /\ confirmed' \in confirmed .. sent
        /\ 1 .. confirmed' \subseteq finished
    BY <1>3, Confirming DEF GetUpdatesFails, PollingInv, ConfirmedIsFinished
  <2>2. QED
    BY <1>3, <2>1
    DEF GetUpdatesFails, PollingInv, ConfirmedIsFinished, TakenInOrder, Behind
<1>4. CASE HandleNext
  <2>1. /\ next \in Update
        /\ attempts[next] <= restarts
        /\ \A u \in 1 .. (next - 1) : attempts[u] > 0
    BY <1>4 DEF HandleNext, PollingInv, Behind
  <2>2. PollTypeOK'
    BY <1>4, <2>1 DEF HandleNext, OffsetAfter, PollingInv
  <2>3. /\ attempts'[next] = attempts[next] + 1
        /\ \A u \in Update \ {next} : attempts'[u] = attempts[u]
    BY <1>4, <2>1 DEF HandleNext, PollingInv
  <2>4. TakenInOrder'
    <3>1. SUFFICES ASSUME NEW u \in Update, attempts'[u] > 0, NEW v \in 1 .. u
                   PROVE  attempts'[v] > 0
      BY DEF TakenInOrder
    <3>2. v \in Update /\ attempts[v] \in Nat
      BY DEF PollingInv
    <3>3. CASE u = next
      BY <2>1, <2>3, <3>2, <3>3 DEF PollingInv
    <3>4. CASE u # next
      BY <2>1, <2>3, <3>1, <3>2, <3>4 DEF PollingInv, TakenInOrder
    <3>5. QED
      BY <3>3, <3>4
  <2>5. \A u \in Update : attempts'[u] <= restarts' + (IF u < offset' THEN 1 ELSE 0)
    <3>1. SUFFICES ASSUME NEW u \in Update
                   PROVE  attempts'[u] <= restarts + (IF u < next + 1 THEN 1 ELSE 0)
      BY <1>4 DEF HandleNext, OffsetAfter
    <3>2. CASE u = next
      BY <2>1, <2>3, <3>2 DEF PollingInv
    <3>3. CASE u # next
      BY <1>4, <2>1, <2>3, <3>3 DEF HandleNext, PollingInv
    <3>4. QED
      BY <3>2, <3>3
  <2>6. \A u \in finished' : attempts'[u] > 0
    BY <1>4, <2>1, <2>3 DEF HandleNext, PollingInv
  <2>7. QED
    BY <1>4, <2>1, <2>2, <2>3, <2>4, <2>5, <2>6
    DEF HandleNext, OffsetAfter, PollingInv, ConfirmedIsFinished, Behind
<1>5. CASE HandlerEnds
  <2>1. /\ next \in 1 .. sent
        /\ finished' = finished \cup {next}
        /\ 1 .. next \subseteq finished'
    BY <1>5 DEF HandlerEnds, PollingInv, Behind
  <2>2. PollTypeOK'
    BY <1>5, <2>1 DEF HandlerEnds, PollingInv
  <2>3. \A u \in finished' : attempts'[u] > 0
    BY <1>5, <2>1 DEF HandlerEnds, PollingInv
  <2>4. ConfirmedIsFinished' /\ TakenInOrder'
    BY <1>5, <2>1 DEF HandlerEnds, PollingInv, ConfirmedIsFinished, TakenInOrder
  <2>5. CASE next < last
    BY <1>5, <2>1, <2>2, <2>3, <2>4, <2>5 DEF HandlerEnds, PollingInv, Behind
  <2>6. CASE ~(next < last)
    BY <1>5, <2>1, <2>2, <2>3, <2>4, <2>6 DEF HandlerEnds, PollingInv, Behind
  <2>7. QED
    BY <2>5, <2>6
<1>6. CASE ProcessEnds
  BY <1>6 DEF ProcessEnds, PollingInv, ConfirmedIsFinished, TakenInOrder, Behind
<1>7. CASE ProcessStarts
  BY <1>7 DEF ProcessStarts, PollingInv, ConfirmedIsFinished, TakenInOrder, Behind
<1>8. CASE UNCHANGED pollVars
  BY <1>8 DEF pollVars, PollingInv, ConfirmedIsFinished, TakenInOrder, Behind
<1>9. QED
  BY <1>1, <1>2, <1>3, <1>4, <1>5, <1>6, <1>7, <1>8 DEF PollNext, LoopStep

\* The invariant behind the three theorems below.
THEOREM PollingCorrect == PollSpec => []PollingInv
  BY InitPolling, NextPolling, PTL DEF PollSpec

\* Telegram never forgets an update that the loop is not done with, wherever
\* calls fail and the process ends.
THEOREM NoUpdateLost == PollSpec => []ConfirmedIsFinished
<1>1. PollingInv => ConfirmedIsFinished
  BY DEF PollingInv
<1>2. QED
  BY <1>1, PollingCorrect, PTL

\* Updates are taken up in the order they were made, redelivery included.
THEOREM UpdatesInOrder == PollSpec => []TakenInOrder
<1>1. PollingInv => TakenInOrder
  BY DEF PollingInv
<1>2. QED
  BY <1>1, PollingCorrect, PTL

\* One life of the process handles an update at most once.
THEOREM OnceInALife == PollSpec => []OncePerLife
<1>1. PollingInv => OncePerLife
  BY DEF PollingInv, OncePerLife, PollTypeOK, Update
<1>2. QED
  BY <1>1, PollingCorrect, PTL

=============================================================================
