-------------------------------- MODULE News --------------------------------
(***************************************************************************)
(* FetchDailyNews and GenerateDailyDigest, run by arq's cron, by GitHub    *)
(* Actions (run_news: a digest there fetches first) and by POST /news/...  *)
(* A fetch asks one source after the other and stores each item by its     *)
(* URL, once per tenant; a digest makes a draft of the newest stories in a *)
(* window of time and asks for its approval on Discord.                    *)
(*                                                                         *)
(* Cron jobs work for the configured news tenant, a route for the tenant   *)
(* of the token; approvals are always the Discord bot's tenant's.          *)
(***************************************************************************)
EXTENDS NewsSources, RowSecurity

CONSTANTS
  Tenant,         \* tenants that use the routes
  NewsTenant,     \* NEWS_TENANT_ID
  DiscordTenant,  \* DISCORD_TENANT_ID
  Notifier,       \* whether Discord is configured
  Sources,        \* the kinds of the sources, in the order they are asked
  Sample,         \* entries that a fetcher looks at
  Story,          \* stories that are published
  Window,         \* window_hours of the digest
  MaxItems,       \* stories of one digest
  Job,            \* jobs and requests in progress at once
  DraftId,        \* ids that can be drawn for drafts
  MaxTime,        \* bound of the model: ticks of the clock
  MaxFailures     \* bound of the model: calls that fail

ASSUME NewsAssumption ==
  /\ {NewsTenant, DiscordTenant} \subseteq Tenant
  /\ Notifier \in BOOLEAN
  /\ Sources \in Seq(Kind) /\ Sources # <<>>
  /\ Sample \in [Kind -> Nat]
  /\ Window \in Nat /\ MaxTime \in Nat /\ MaxFailures \in Nat
  /\ MaxItems \in Nat \ {0}
  /\ IsFiniteSet(Job) /\ IsFiniteSet(DraftId) /\ IsFiniteSet(Story)
  /\ "none" \notin Tenant \cup DraftId

VARIABLES
  published,  \* the date that each story bears in its feed, or Missing
  rows,       \* news_items: the published_at of each story a tenant has
  drafts,     \* content_drafts made by digests
  requests,   \* drafts with a row in discord_requests
  buttons,    \* drafts shown with buttons in the channel
  task,       \* what each job is doing
  now,
  failures

newsVars == <<published, rows, drafts, requests, buttons, task, now, failures>>

outcome == <<drafts, requests, buttons>>

None == "none"
Missing == MaxTime + 1
Time == 0 .. MaxTime

Item == [story : Story, fit : BOOLEAN, date : Time]
\* A digest: its stories, the time it listed them at and, kept for the
\* properties, those that were dated ahead of that time.
Draft == [tenant : Tenant, stories : SUBSET Story, asOf : Time, ahead : SUBSET Story]
NoDraft == [tenant |-> None, stories |-> {}, asOf |-> 0, ahead |-> {}]

Work == [pc       : {"idle", "fetch", "save", "list", "agent", "draftSave",
                     "requestSave", "buttons"},
         mode     : {"fetch", "digest", "both"},
         tenant   : Tenant \cup {None},   \* the context variable, too
         source   : 1 .. Len(Sources),
         items    : Seq(Item),
         selected : SUBSET Story,
         asOf     : Time,
         ahead    : SUBSET Story,
         draft    : DraftId \cup {None}]

Idle == [pc |-> "idle", mode |-> "fetch", tenant |-> None, source |-> 1,
         items |-> <<>>, selected |-> {}, asOf |-> 0,
         ahead |-> {}, draft |-> None]

NewsTypeOK ==
  /\ published \in [Story -> Time \cup {Missing}]
  /\ rows \in [Tenant -> [Story -> Time \cup {Missing}]]
  /\ drafts \in [DraftId -> Draft \cup {NoDraft}]
  /\ requests \subseteq DraftId
  /\ buttons \subseteq DraftId
  /\ task \in [Job -> Work]
  /\ now \in Time
  /\ failures \in 0 .. MaxFailures

NewsInit ==
  /\ published = [s \in Story |-> Missing]
  /\ rows = [t \in Tenant |-> [s \in Story |-> Missing]]
  /\ drafts = [d \in DraftId |-> NoDraft]
  /\ requests = {}
  /\ buttons = {}
  /\ task = [j \in Job |-> Idle]
  /\ now = 0
  /\ failures = 0

-----------------------------------------------------------------------------

Goto(j, pc) == task' = [task EXCEPT ![j].pc = pc]
Finish(j) == task' = [task EXCEPT ![j] = Idle]

Stored == {d \in DraftId : drafts[d] # NoDraft}

\* The stories that a query for a tenant's items of the window returns.
InWindow(t) == {s \in Story : rows[t][s] # Missing /\ rows[t][s] + Window >= now}

\* The first MaxItems of them by date; stories of one date come in any order.
Newest(selected, stories, t) ==
  /\ selected \subseteq stories
  /\ \/ selected = stories /\ Cardinality(stories) <= MaxItems
     \/ Cardinality(stories) > MaxItems /\ Cardinality(selected) = MaxItems
  /\ \A s \in selected, u \in stories \ selected : rows[t][s] >= rows[t][u]

\* After the last source the fetch is done; run_news goes on to the digest.
NextSource(work) ==
  IF work.source < Len(Sources)
  THEN [work EXCEPT !.pc = "fetch", !.source = @ + 1, !.items = <<>>]
  ELSE IF work.mode = "both" THEN [work EXCEPT !.pc = "list", !.items = <<>>]
  ELSE Idle

Tick ==
  /\ now < MaxTime
  /\ now' = now + 1
  /\ UNCHANGED <<published, rows, outcome, task, failures>>

\* A feed may date a story back, or ahead.
Publish(s) ==
  /\ published[s] = Missing
  /\ \E date \in Time : published' = [published EXCEPT ![s] = date]
  /\ UNCHANGED <<rows, outcome, task, now, failures>>

-----------------------------------------------------------------------------
(* Operators below, each with a bug in it: they stand in for their         *)
(* originals when the properties are tested.                               *)

\* A source that raises ends the fetch.
SourceRaises_Ends(j) ==
  /\ task[j].pc = "fetch"
  /\ Finish(j)
  /\ UNCHANGED <<published, rows, outcome, now, failures>>

\* ON CONFLICT DO UPDATE.
SaveItem_Upsert(j) ==
  LET work == task[j] IN
  /\ work.pc = "save"
  /\ IF Head(work.items).fit
     THEN /\ rows' = [rows EXCEPT ![work.tenant] =
                                       [@ EXCEPT ![Head(work.items).story] = Head(work.items).date]]
          /\ task' = [task EXCEPT ![j] = IF Tail(work.items) = <<>> THEN NextSource(work)
                                         ELSE [work EXCEPT !.items = Tail(work.items)]]
     ELSE Finish(j) /\ UNCHANGED rows
  /\ UNCHANGED <<published, outcome, now, failures>>

\* The approval is asked for before the draft is saved.
Agent_AsksFirst(j) ==
  /\ task[j].pc = "agent"
  /\ \/ \E d \in DraftId \ (Stored \cup {task[i].draft : i \in Job}) :
          task' = [task EXCEPT ![j] = [@ EXCEPT !.pc = "requestSave", !.draft = d]]
     \/ Finish(j)
  /\ UNCHANGED <<published, rows, outcome, now, failures>>

\* A digest whose stories are in a draft already is not announced again.
DraftSave_Once(j) ==
  /\ task[j].pc = "draftSave"
  /\ \E d \in DraftId \ Stored :
       /\ drafts' = [drafts EXCEPT ![d] = [tenant |-> task[j].tenant, stories |-> task[j].selected,
                                           asOf |-> task[j].asOf, ahead |-> task[j].ahead]]
       /\ IF \E e \in Stored : drafts[e].stories = task[j].selected THEN Finish(j)
          ELSE task' = [task EXCEPT ![j] = [@ EXCEPT !.pc = "requestSave", !.draft = d]]
  /\ UNCHANGED <<published, rows, requests, buttons, now, failures>>

-----------------------------------------------------------------------------
(* The jobs.                                                               *)

Start(j, mode, t) ==
  /\ task[j].pc = "idle"
  /\ task' = [task EXCEPT ![j] = [@ EXCEPT !.mode = mode, !.tenant = SetContext(t),
                                          !.pc = IF mode = "digest" THEN "list" ELSE "fetch"]]
  /\ UNCHANGED <<published, rows, outcome, now, failures>>

\* news_fetch_job and news_digest_job of the worker, and run_news.
CronJob(j) == \E mode \in {"fetch", "digest", "both"} : Start(j, mode, NewsTenant)

\* POST /news/fetch and POST /news/digest.
NewsRoute(j) == \E mode \in {"fetch", "digest"}, t \in Tenant : Start(j, mode, t)

\* A source that cannot be reached, or answers with 400 or above, has no items.
FetchSource(j) ==
  LET work == task[j]
      kind == Sources[work.source] IN
  /\ work.pc = "fetch"
  /\ \E entries \in Answers({s \in Story : published[s] # Missing}, kind, Sample[kind]) :
       LET items == ItemsOf(kind, entries, published, now) IN
       task' = [task EXCEPT ![j] = IF items = <<>> THEN NextSource(work)
                                   ELSE [work EXCEPT !.pc = "save", !.items = items]]
  /\ UNCHANGED <<published, rows, outcome, now, failures>>

\* What a fetcher raises (feedparser runs outside its try block) is counted.
SourceRaises(j) ==
  /\ task[j].pc = "fetch"
  /\ task' = [task EXCEPT ![j] = NextSource(task[j])]
  /\ UNCHANGED <<published, rows, outcome, now, failures>>

\* INSERT ... ON CONFLICT DO NOTHING.  What the constructor of NewsItem raises
\* is caught nowhere: it ends the job.
SaveItem(j) ==
  LET work == task[j]
      item == Head(work.items) IN
  /\ work.pc = "save"
  /\ IF item.fit
     THEN /\ rows' = IF rows[work.tenant][item.story] = Missing
                     THEN [rows EXCEPT ![work.tenant] = [@ EXCEPT ![item.story] = item.date]]
                     ELSE rows
          /\ task' = [task EXCEPT ![j] = IF Tail(work.items) = <<>> THEN NextSource(work)
                                         ELSE [work EXCEPT !.items = Tail(work.items)]]
     ELSE Finish(j) /\ UNCHANGED rows
  /\ UNCHANGED <<published, outcome, now, failures>>

\* A ValidationError if the window is empty.
ListSince(j) ==
  LET stories == InWindow(task[j].tenant) IN
  /\ task[j].pc = "list"
  /\ IF stories = {} THEN Finish(j)
     ELSE \E selected \in SUBSET stories :
            /\ Newest(selected, stories, task[j].tenant)
            /\ task' = [task EXCEPT ![j] = [@ EXCEPT !.pc = "agent", !.selected = selected,
                                                    !.asOf = now,
                              !.ahead = {s \in selected : rows[task[j].tenant][s] > now}]]
  /\ UNCHANGED <<published, rows, outcome, now, failures>>

\* The agent fails, or a hashtag of its answer is refused: a ValidationError.
Agent(j) ==
  /\ task[j].pc = "agent"
  /\ Goto(j, "draftSave") \/ Finish(j)
  /\ UNCHANGED <<published, rows, outcome, now, failures>>

\* Draft ids are UUIDs: a new one is nobody's.  (At the bound of the model the
\* digest is given up.)
DraftSave(j) ==
  /\ task[j].pc = "draftSave"
  /\ \/ \E d \in DraftId \ Stored :
          /\ drafts' = [drafts EXCEPT ![d] = [tenant |-> task[j].tenant,
                                              stories |-> task[j].selected,
                                              asOf |-> task[j].asOf,
                                              ahead |-> task[j].ahead]]
          /\ IF Notifier
             THEN task' = [task EXCEPT ![j] = [@ EXCEPT !.pc = "requestSave", !.draft = d]]
             ELSE Finish(j)
     \/ Stored = DraftId /\ Finish(j) /\ UNCHANGED drafts
  /\ UNCHANGED <<published, rows, requests, buttons, now, failures>>

\* SendDraftToChannel saves the request for the tenant of the bot, in the
\* context of the tenant of the job.  What it raises is logged.
RequestSave(j) ==
  /\ task[j].pc = "requestSave"
  /\ IF Admits(task[j].tenant, DiscordTenant)
     THEN requests' = requests \cup {task[j].draft} /\ Goto(j, "buttons")
     ELSE Finish(j) /\ UNCHANGED requests
  /\ UNCHANGED <<published, rows, drafts, buttons, now, failures>>

SendButtons(j) ==
  /\ task[j].pc = "buttons"
  /\ buttons' = buttons \cup {task[j].draft}
  /\ Finish(j)
  /\ UNCHANGED <<published, rows, drafts, requests, now, failures>>

\* A call to a table or to Discord fails, or the process ends.
Fail(j) ==
  /\ task[j].pc # "idle"
  /\ failures < MaxFailures
  /\ failures' = failures + 1
  /\ Finish(j)
  /\ UNCHANGED <<published, rows, outcome, now>>

JobStep(j) ==
  \/ FetchSource(j) \/ SourceRaises(j) \/ SaveItem(j)
  \/ ListSince(j) \/ Agent(j) \/ DraftSave(j) \/ RequestSave(j) \/ SendButtons(j)

NewsNext ==
  \/ Tick
  \/ \E s \in Story : Publish(s)
  \/ \E j \in Job : CronJob(j) \/ NewsRoute(j) \/ JobStep(j) \/ Fail(j)

NewsSpec == NewsInit /\ [][NewsNext]_newsVars

-----------------------------------------------------------------------------

\* A story is news once: however often it is fetched again, by whichever
\* source and with whatever date, two digests of a tenant that both have it are
\* at most the window apart, unless the earlier one took it ahead of its date.
DigestsMoveOn ==
  \A d, e \in Stored :
    /\ drafts[d].tenant = drafts[e].tenant
    /\ (drafts[d].stories \cap drafts[e].stories) \ drafts[e].ahead # {}
    => drafts[d].asOf <= drafts[e].asOf + Window

\* "list_since(now - window)": a digest has stories of the window before it.
\* The query has no upper bound, so this fails of a story dated ahead (README).
DigestsLookBack == \A d \in Stored : drafts[d].ahead = {}

\* A fetch leaves out the sources that are left only when a call to the table
\* fails or NewsItem refuses an item, never because of a source.
SourcesAreContained ==
  [][\A j \in Job :
       /\ task[j].pc \in {"fetch", "save"}
       /\ task[j].source < Len(Sources)
       /\ task'[j].pc \in {"idle", "list"}
       => \/ failures' # failures
          \/ task[j].pc = "save" /\ ~Head(task[j].items).fit]_newsVars

\* A button has its request and its draft behind it.  With the policy enforced
\* the draft is the bot's tenant's, so that the bot finds it.
ButtonsAreBacked ==
  /\ buttons \subseteq requests
  /\ requests \subseteq Stored
  /\ RlsEnforced => \A d \in requests : drafts[d].tenant = DiscordTenant

\* The drafts that nobody is or will be asked about.
Unasked ==
  {d \in Stored : d \notin buttons /\ ~\E j \in Job : task[j].draft = d}

\* Of the digests for the bot's tenant, each of them is paid for by a failure.
UnaskedIsPaidFor ==
  Notifier => Cardinality({d \in Unasked : drafts[d].tenant = DiscordTenant}) <= failures

\* "o clique nos botoes approva/rejeita chega ao bot da API e o fluxo de
\* enqueue/publish roda la": the bot looks for the draft of its own tenant.
ButtonsFindTheirDraft == \A d \in buttons : drafts[d].tenant = DiscordTenant

\* "Cada fetcher e defensivo: erros viram errors no resultado, nao derrubam
\* o job."
FetchGoesOn ==
  [][\A j \in Job :
       task[j].pc \in {"fetch", "save"} /\ task'[j].pc = "idle"
       => \/ failures' # failures
          \/ task[j].source = Len(Sources) /\ task[j].mode = "fetch"]_newsVars

-----------------------------------------------------------------------------
(* Why they hold.                                                          *)

InHand(work) ==
  /\ work.pc # "idle" => work.tenant \in Tenant
  /\ work.pc = "save" => work.items # <<>>
  /\ work.pc \in {"agent", "draftSave"}
       => /\ work.asOf <= now
          /\ \A s \in work.selected :
               rows[work.tenant][s] # Missing /\ rows[work.tenant][s] + Window >= work.asOf
  /\ work.draft # None <=> work.pc \in {"requestSave", "buttons"}
  /\ work.pc \in {"requestSave", "buttons"}
       => /\ work.draft \in Stored
          /\ drafts[work.draft].tenant = work.tenant
  /\ work.pc = "buttons" => work.draft \in requests /\ Admits(work.tenant, DiscordTenant)

\* A story in a digest was stored, and in the window, when it was listed.
NewsInv ==
  /\ NewsTypeOK
  /\ \A j \in Job : InHand(task[j])
  /\ \A d \in Stored :
       /\ drafts[d].asOf <= now
       /\ \A s \in drafts[d].stories :
            /\ rows[drafts[d].tenant][s] # Missing
            /\ rows[drafts[d].tenant][s] + Window >= drafts[d].asOf
  /\ ButtonsAreBacked

\* What DigestsMoveOn needs besides: no fetch dates a story anew, once a digest
\* took it.
DigestInv ==
  /\ \A j \in Job : task[j].pc \in {"agent", "draftSave"} =>
       \A s \in task[j].selected \ task[j].ahead :
         rows[task[j].tenant][s] <= task[j].asOf
  /\ \A d \in Stored : \A s \in drafts[d].stories \ drafts[d].ahead :
       rows[drafts[d].tenant][s] <= drafts[d].asOf

=============================================================================
