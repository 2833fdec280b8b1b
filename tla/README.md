# Formal models of Developer Brain AI

TLA+ specifications of the stateful parts of this repository, the TLC
configurations that check them on small instances, and TLAPS proofs of what
holds on every instance. Paths below are relative to the repository; `content/…`
stands for `packages/content/src/developer_brain_ai_content/…`, and so on.

Run everything from this directory:

    tlc -workers 2 -config approval_polling.cfg MCApproval.tla
    tlapm ApprovalProofs.tla

`PROJECT.json` lists the runs, the source lines behind each definition, the
hazards, the findings and the theorems.

## 1. The system

A multi-tenant second brain. A developer writes journal entries, by HTTP or by
talking to a Telegram or Discord bot. A language model turns entries into
LinkedIn drafts; a person approves or rejects a draft by a button; an approved
draft is posted with the tenant's OAuth tokens. An arq worker runs a pipeline
over all tenants once a day, and fetches and digests news.

Every repository method opens its own session, commits and closes it, so a use
case is a sequence of small transactions with an `await` between any two.
`save` is `session.merge` of the whole aggregate as it was read earlier. Nothing
is locked and no version is compared. That is where most hazards come from.

| Component | State | Operations | Hard behaviours | Correct means |
|---|---|---|---|---|
| content (`content/`) | `content_drafts` (status), `content_publication_queue` | create, generate, enqueue, publish, reject | load / call / save with other handlers in between; LinkedIn called before the status check, or not at all where no client id is configured; two transactions in one use case | no text posted twice; nothing posted that was not reviewed; published is final |
| discord, telegram bots | `*_requests` (status), the messages and buttons in the channel | message or audio → entry, draft, request, messages, buttons; LinkedIn commands; click → decide | Discord handles updates concurrently, Telegram's loop one at a time; handlers end anywhere; a text takes several messages | a decision is made once and agrees with the draft; buttons have rows and the whole text behind them |
| telegram polling | the loop's local `offset`; Telegram's confirmed offset | getUpdates, handle_update | process restarts, failed or half-done getUpdates, redelivery | no update lost, none out of order, once per life of the process |
| daily pipeline (`automation/`, `apps/worker`) | `pipeline_runs` under (tenant, date, step) | per tenant: summary step, LinkedIn step | a step fails half-way, the job is killed, run again or twice at once | idempotence; one tenant's failure is its own; success means a queued draft |
| linkedin integration (`integrations/`) | `linkedin_tokens`, one row per tenant | connect, disconnect, publish with refresh | read, wait for LinkedIn, write back; tokens expire | posts in the name of the token's owner; disconnected stays so; connect and disconnect work |
| news (`news/`, two worker jobs, GitHub Actions, two routes) | `news_items` under (tenant, hash), digest drafts, their requests | fetch from six sources, digest, notify | schedulers and routes at once; flawed entries and dates to come; a source, an insert or a notification fails; two settings name two tenants | a story is news once; a source's failure is its own; every digest has its request |
| journal | entries, tags, their join | create, update, delete, list | statements of two saves interleave under row locks and a unique index; lists that are cut into pages | a tag once per tenant; no link to nothing; saves end; an entry is on one page; what is stored can be read |
| identity | tenants, users, api keys; JWTs outside | register, login, refresh, keys | check, check, save, save in four transactions; a context that is reset too early | a registered tenant has its user; tokens and keys are a registered user's |
| shared | tenant context variable, RLS setting of a transaction | set, reset, begin | context reset by callees; a policy that the role may or may not be subject to | a transaction sees its own tenant's rows |
| ai | prompts and calls of a model | generate, digest, summarise | blank, cut off, surrounded or ill-typed answers; calls that fail and are made again | what was asked for is found in the answer; the calls end |
| api, worker wiring | background tasks | lifespan, startup | cancellation at shutdown | as for what they run |
| library, projects, rag, roadmap, studies | none | none | none | empty packages |

Components call each other in-process: bots → content use cases → the
`LinkedInPostPublisher` port, which integrations implements; pipeline → journal,
ai and content through adapters in `apps/worker/app/main.py`. API and worker are
separate processes that share only the database and Redis.

## 2. The modules

| Module | Models | Lines to compare |
|---|---|---|
| `ContentDraft` | the statuses and the aggregates' guards | `content/domain/aggregates.py`, `discord/domain/aggregates.py` |
| `DraftLifecycle` | abstract: what the life of one draft may be, and what is left of it when several handlers share the draft | the same guards and `MarkPublished`'s contract, `ContentDraftRepository.save` |
| `Approval` | bots, routes and content use cases | `content/application/use_cases.py`, `discord/` and `telegram/application/use_cases.py` |
| `TelegramPolling` | `telegram_poll_loop` against Telegram's getUpdates | `telegram/presentation/routers.py` |
| `DailyPipeline` | `RunDailyPipeline` and the job that runs it | `automation/application/use_cases.py` |
| `LinkedInTokens` | connect, disconnect, publish with refresh | `integrations/` |
| `RowSecurity` | the tenant context and the row level policy, as operators | `shared/persistence/`, `src/migrations/versions/0001_identity.py` |
| `Identity` | register, login, refresh, API keys | `identity/application/use_cases/`, `shared/auth/jwt.py` |
| `NewsSources` | what the fetchers make of a source's entries | `news/infrastructure/rss_fetchers.py` |
| `News` | the fetch, the digest and its notifier | `news/application/use_cases.py`, `apps/worker/app/` |
| `Journal` | saves and deletions statement by statement; list | `journal/infrastructure/repositories.py`, `journal/domain/entry.py` |
| `Answers` | what the agents make of an answer | `ai/application/use_cases/` |
| `Chunks` | how a text is cut into messages | `discord/infrastructure/discord_client.py`, `rest_messenger.py` |
| `Drafting` | from a message, an audio or the news to a draft under review | `discord/`, `telegram/`, `ai/application/use_cases/` |
| `MC*` | symmetry sets for TLC | |
| `TextProofs` | theorems about `Answers` and `Chunks` | |
| `*Proofs` | theorems about the module of that name; `ApprovalProofs` also has those about `TelegramPolling` | |

**Approval.** A `task` is a handler: a bot update or an HTTP request. Its `pc`
names the repository or network call it makes next, `seen` and `req` hold the
copies it read, so the staleness of a copy is the staleness in the code. Actions
have the names of the calls: `EnqueueLoad`, `EnqueueSave` and `ItemSave` are the
three of `EnqueueDraft`; `PublishLoad`, `Post`, `PublishSave` those of
`MarkPublished`, with `SkipPost` where there is no publisher; `RejectLoad`, `RejectSave` of `RejectDraft`; `RequestSave` ends
a click. `InboundMessage`, `DraftSave`, `RequestCreate`, `SendButtons` are a
message. `Progress` groups them by use case. `Stop` ends a handler at any call: an exception, a lost answer or the
end of the process, whose visible effect is the same (bots log errors and drop
the update). `Channel` is the one difference that matters between the bots:
Discord's reply checks the request's status before it does anything, Telegram's
finds out at its end, when the aggregate refuses. Discord handlers overlap
(`BotTask` has two members); Telegram's polling loop has one.

**TelegramPolling.** `pc` is the place in the loop; `offset` its variable;
`confirmed` is Telegram's. The handler is one step with an end, because
`handle_update` lets nothing but a cancellation out. `HandledOnce` fails,
`OncePerLife` holds (see the findings): this is why `Approval` lets a user's click be handled again
(`Approve` and `Reject` may start as often as the buttons are there). A message
that is handled again is, in `Approval`, one more `InboundMessage` with rows of
its own, as in the code, which gives it new ids.

**DailyPipeline.** `job[j]` is an execution: tenants left, tenant, step, and the
call it is at. Calls inside `_run_step`'s `try` (`HandlerCalls`) and around it
(`RowCalls`) fail differently, and `FailingCalls` says which may. `existing`
decides whether a save is an UPDATE or an INSERT that the unique key may refuse.
The counters `made`, `queued`, `items` follow the drafts of one LinkedIn step.

**LinkedInTokens.** A `grant` is one answer of LinkedIn's token endpoint; a row
keeps the id of the grant its connection began with, which tells an UPDATE from
an INSERT in `merge`. Time is two actions that expire a grant's tokens.
`Constructible` is `__post_init__`, which runs for every row that is read.

**RowSecurity** has no state of its own: `Identity` and `News` extend it and
keep the context variable in their tasks. `RlsEnforced` is a constant because
the role the program connects with decides it, and that is the deployment's
(`docs/adr/`, ADR-0001, wants a role that is subject to it).

**Identity.** A user is named by its tenant, since a registration makes exactly
one. Each action is one transaction of `RegisterTenant` or `LoginUser`; a pair of
JWTs is its user and the time it was issued, and `AccessWorks`, `RefreshWorks`
are the two comparisons of the code, which differ at the second of the expiry.

**News.** A `task` is a job or a request; `mode` says what it runs: the cron's
fetch, the cron's digest, or `run_news`, which does both. `Answers` of
`NewsSources` are sequences of entries with at most one thing wrong with each;
`ItemsOf` is what the fetcher of that kind hands on, with `fit` saying whether
the constructor of `NewsItem` will take it.

**Journal.** `pc` is the statement a save is at: merge's SELECT (`Merge`), its
UPDATE or INSERT (`Flush`), the tags there are (`SelectTags`), one INSERT per
missing tag, the commit. `WritersOf` and `InsertersOf` are PostgreSQL's row locks
and the wait on a unique index for a key another transaction inserted;
`Deadlock` ends one of a circle of waiting saves. The values of an entry's fields
are chosen at the commit, which is when others first see them.

**Answers, Chunks, Drafting.** Here text is sequences of characters, because the
properties are about what happens to it: `Sanitize`, `Unfence`, `BalancedEnd`,
`Extract` are the scans of `_extract_json_object`, as folds; `Pieces` is the loop
of `_chunk_messages`. The constants `MessageLimit`, `BodyLimit` and `Preview`
stand for 2000, 1900 and 1000. `Drafting`'s actions are the awaited calls of
`HandleInboundMessage.execute`, `GenerateDailyDigest.execute` and
`SummaryAgent.execute`, each with `CallFails` or `AskFails` beside it.

**Composition.** `Approval` instantiates `DraftLifecycle` as its abstract
specification and extends `ContentDraft`; the guards are thus the same formulas
on both sides, and what the refinement (of `LifeSpec`) adds is that handlers
apply them to rows that still hold what was read. Under full concurrency they do
not, and `Approval` implements `SharedSpec` instead: a save may overwrite any
status of a stored draft, and a text may be posted again and at any time, as
`double_click` shows; but `published` is only ever written over a draft that was
decided and whose text is out, or that went on where there was no publisher, and
`pending_review` only once. `Approval`'s `Post` is `LinkedInTokens`'s
`Publish` … `Post`: the first sees it succeed or fail, the second says when.
`Drafting` is what `Approval`'s `InboundMessage` … `SendButtons` do with the text,
and what `News`'s `Agent` … `SendButtons` do with it; it extends `Chunks`, which
extends `Answers`. `News` extends `NewsSources` and `RowSecurity`.

**Seeded variants.** An operator `X_Something` next to `X` has a plausible bug
in it. Nothing uses it; replacing `X` by it must make a property fail, which
shows the property is about the code. `PROJECT.json` pairs them (`mutants`).

### Abstractions, all modules

- A text, a name, a date or an id is a model value or left out, except in
  `Answers`, `Chunks` and `Drafting`. One tenant, except in the pipeline, where
  tenants follow one another, in `Identity` and in `News`.
- `merge` is one atomic write of the columns modelled, except in `Journal`. It is
  a SELECT and an UPDATE of the columns that differ, in one transaction; the
  window between the two only repeats the race the models already have at
  `await`s.
- Row level security and the tenant filter of each read are in `Identity` and
  `News`, where a handler works across tenants or without one. In the other
  modules every id used is of the tenant at work.
- LinkedIn's publisher is there if the process has a client id and secret
  (`api/app/main.py:272`). `Unconfigured` says whether it may have none; then
  each `MarkPublished` posts or does not, as the process may be started again
  with other settings, and `unposted` keeps the drafts that went on without a
  post. Discord's user is told so; Telegram's is told "Publicado".
- A LinkedIn command of the channel is one reply or one failure; the calls behind
  it are `LinkedInTokens`'.
- Of the object a model answers with, `texto` is read character by character,
  and its other fields are one value: there, missing, or of the wrong type. What
  `json_repair` finds in what is not JSON is any member of `Repaired`. Hashtags
  are a character of their own, as they are the one other part that is posted.
- A story is its URL. Its date may be ahead of the fetch, as a feed gives it; a
  date that cannot be read is the time of the fetch.
- A refreshed grant does not revoke earlier ones; `exchange_code` and
  `get_userinfo` are one step; at the bound on grants the endpoint refuses.
- Telegram's update ids are consecutive and it confirms exactly what
  the offset says.

## 3. What is checked

Every bound is a constant: `MaxPosts`, `MaxStops`, `MaxFailures`, `MaxDeaths`,
`MaxUpdates`, `MaxErrors`, `MaxRestarts`, `MaxGrants`, `MaxTime`, `MaxDay`,
`MaxProse`, `MaxInside`, and the sizes of the sets of ids.

| Run | Question and bounds | Result |
|---|---|---|
| `approval_polling` | one handler, three drafts, two stops, with and without a publisher: at most one post, only of what was reviewed; decisions made once and final; a rejected text is public only after a stop; `Approval` implements `DraftLifecycle` | holds |
| `approval_concurrent` | two Discord handlers and every route, one draft, two stops, with and without a publisher: `Approval` implements the shared life of `DraftLifecycle` under full concurrency; nothing is decided or queued while the draft shows as under review; liveness: a queued draft is decided if the publish route is called again | holds |
| `pipeline_failures` | one execution at a time, two tenants, two failing calls of any kind, one death: each duplicate has a cause, success is final; liveness: every tenant with entries gets both steps | holds |
| `pipeline_overlap` | two executions, any call may fail, one death: success means a queued draft; only a call on a `pipeline_runs` row ends an execution before its last tenant | holds |
| `polling_restarts` | four updates, two per answer, two errors, two restarts: none lost, in order, once per life; liveness: all finished | holds |
| `tokens_concurrent` | two publishers, a request, two accounts, three grants, one failure: author owns token, tokens that left the table are never stored again | holds |
| `identity_requests` | two requests, three tenants and slugs, two emails, a key, one tick, one failure, no policy: an email is registered at most twice, a tenant without a user is paid for by a failure, tokens and keys are registered users' | holds |
| `news_jobs` | two jobs, two tenants, three sources with one entry each, one story, two drafts, two ticks, one failure, policy enforced, stories dated at any time: two digests of a story are at most the window apart unless the earlier one took it ahead of its date, a source's failure ends no fetch, a draft nobody is asked about is paid for | holds |
| `journal_saves` | two requests, two entries, two tags, two days: tags and links are consistent, an entry whose day fits into a page is on that page alone and is shown unless the page has an unreadable row; liveness: every request ends | holds |
| `drafting` | two handlers, two drafts, six kinds of answer, messages of seven characters, prose of three and strings of two characters: drafts are not blank and requests are backed, the review on Discord has exactly the text, the other parts and the hashtags of a conversation's draft, or the text of a digest; the object is found; liveness: every handler ends | holds |

**Why these bounds.** The races need two handlers of one row and no third: each
handler has one load and one save of a row. A second draft or tenant shows that
nothing leaks from one to the next; a third adds an order of decisions only.
`approval_concurrent` has one draft because requests are indexed by it and no
action looks at two.
One stop makes a half-done use case, a second one the half-done repair. Two
updates per answer of four updates give an answer cut off by `Limit` and one
that spans a restart. Three grants are a connection, its refresh, and a
connection of the other account in between. `MaxPosts` is two because
the question is whether there is a second one. Two registrations of one email,
with a third tenant for the one that comes after. A window of one tick in three
points of time is a story inside it, at its edge and past it; one source of each
kind, because the four feeds differ in nothing. Two tags inserted in either order
are a deadlock. A text of ten characters over a body limit of five is cut at a
line break and in the middle of a line; a string of two pieces has every escape
next to every other; three characters of prose are a quotation and a line break.
The safety properties of every run that passes are proved without these bounds;
for liveness the bounds are the claim.

`approval_*` and `drafting` say `CHECK_DEADLOCK FALSE`: the identities in
`Draft` and `Post` are finite, so the model stops where the system would wait
for its next message.

**Fairness.** `HandlersRun`, `PollFairSpec`, `FairDraftingSpec` and the fairness
of steps in `RerunSpec` and `DisconnectSpec` are the event loop: a task whose
await is over goes on, and the clients of the provider, Discord and Telegram have
timeouts. `PollFairSpec` also restarts a dead process, as `restart:
unless-stopped` in `infra/docker-compose.yml` does. `FairJournalSpec` is strong
fairness because a save that waits for a row or a tag may find it free and taken
again by turns: PostgreSQL queues those who wait for a lock. That a user presses
a button again (`UserRetries`), a client calls a route again (`ClientRetries`),
the job is run again (`StartJob`) or a user asks again to be disconnected is no
promise of the code: it is assumed in order to ask whether it would help.
Failures are finite in number, by the bounds: the liveness properties say that
the system recovers once failures end. `RequestsEnd` and `HandlersEnd` need no
such bound; a failure ends the request.

### Findings

Runs that violate what a comment, a test or a document says of the program:

| Run | The code | Against |
|---|---|---|
| `double_click` | two handlers of one Discord button both post | "draft ja em fila/publicado/rejeitado" |
| `journal_unreadable` | an update stores a blank technology; the entry, and every list with it, cannot be read any more | "tecnologia nao pode ser string vazia" |

Further disagreements, each a property of a module that TLC finds violated in
the instance described, and that no `.cfg` here keeps:

| Property | Instance | The code | Against |
|---|---|---|---|
| `PublishRequiresQueued` | `approval_polling.cfg` with the publish route | the route posts, then checks the status | `test_publish_requires_queued`, `content/tests/test_use_cases.py:135` |
| `QueuedIsDecided` | `RetrySpec`, one bot handler, one stop | after one failure of LinkedIn the button cannot publish any more | "permanece ``queued`` para retry", `content/application/use_cases.py:214` |
| `DecidedOnce` | `double_click.cfg`'s constants | both buttons at once: a decision is replaced | "pedido ja processado", `discord/domain/aggregates.py:43` |
| `PublishedIsFinal` | one bot handler, the reject route | the route overwrites a published row | "draft publicado nao pode ser rejeitado", `content/domain/aggregates.py:71` |
| `NoDuplicates` | one tenant, one execution, one failure | a retried step makes a second draft | "re-rodar o job no mesmo dia não duplica", `docs/architecture.md:150` |
| `TenantsAreNotDropped` | `pipeline_overlap.cfg`'s `FailingCalls`, one job | an error on a `pipeline_runs` row ends the job for the tenants that follow | "Um step que falha nao derruba os demais tenants", `automation/application/use_cases.py:47` |
| `HandledOnce` | one update, one restart | an update is handled again after a restart | "para nao processar duas vezes", `telegram/presentation/routers.py:6` |
| `StaysDisconnected` | one publisher, one request, two grants | a publisher's refresh undoes a disconnect | "desconecta (remove token)", `integrations/presentation/routers.py:6` |
| `DisconnectWorks` | `DisconnectSpec`, one request, one grant | with an expired refresh token the row can be neither read nor deleted | the same |
| `ConnectConnects` | one request, two grants | a connected tenant cannot connect again: the unique index refuses the new row | "persiste o LinkedInToken do tenant", `integrations/application/use_cases.py:75` |
| `RegisterIsAtomic` | one request, one failure | the tenant is saved and its user is not | "Operacao atomica: ambos persistidos ou nenhum", `identity/application/use_cases/register_tenant.py:3` |
| `ButtonsFindTheirDraft` | `news_jobs.cfg` with `RlsEnforced = FALSE` | the digest of another tenant gets buttons whose draft the bot does not find | "o clique nos botoes approva/rejeita chega ao bot da API", `apps/worker/app/main.py:357` |
| `DigestsLookBack` | `news_jobs.cfg` | a story that its feed dates ahead is in every digest until a window after its date: `list_since` has no upper bound | "Lista top N itens publicados nas ultimas ``window_hours``", `news/application/use_cases.py:149` |
| `FetchGoesOn` | `news_jobs.cfg` | an item with a blank title or link ends the fetch | "erros viram ``errors`` no resultado, nao derrubam o job", `news/application/use_cases.py:61` |
| `ListInWindow` | `journal_saves.cfg` | `until` is ignored where `since` is given | the filter of `journal/tests`' repository, and every caller that gives both |
| `PagesAreDisjoint` | `journal_saves.cfg` | entries of one day come in any order, page by page | `journal/tests/test_use_cases.py:197` |
| `HashtagsAreReviewed` | `drafting.cfg` | a digest's request shows its text only, and approving posts the hashtags too | the review before publishing, `news/application/use_cases.py:151`; `integrations/infrastructure/adapters.py:58` |
| `DeletedStaysDeleted` | `journal_saves.cfg` | an update that was under way inserts a deleted entry again | DELETE /journals/{id} |

Read in the code, without a property: the summary of a story, which the fetchers
make, is never passed on by `FetchDailyNews`. `news/infrastructure/orm.py:5` says
the hash is of URL and date; it is of the URL. `_DIRECT_POST_PREFIXES` has
"poste " before "poste isso", so "isso" stays in the text. A model's object with
a `texto` and no title is refused by the draft's constructor, and an ill-typed
field by pydantic, outside `LinkedInAgent`'s care: the answer is lost; the
other agents fall back. The second call for a blank answer is not protected as
the first one is. Telegram's request shows the first 1000 characters of what will
be posted whole; Discord's shows an opening, a conclusion, a question and a call
to action that will not be posted. "desconectar linkedin" answers "LinkedIn nao
estava conectado" to every error. Where the row level policy applies, no
registration can store its user (`PolicyRefusesUsers`, proved), and a login's
save, made after the context is reset, cannot find its row.

`RejectedNotPosted` shows where one more bites: a handler that ends between the
post and the save of the published draft leaves a draft that can be rejected,
and the user is told "nao publiquei esse conteudo" of a public text.

`DisconnectWorks` and `ConnectConnects` together leave a tenant whose refresh
token expired without a way back through the API: status, publish and disconnect
raise on reading the row, and connect is refused because the row is there.

## 4. What is proved

All theorems are for any sets of drafts, handlers, tenants, executions,
publishers and accounts, and any bounds, from the assumption each module names
(`ApprovalAssumption`, …): disjoint sets, known routes and channels, numbers in
`Nat`, and finitely many entries, jobs, stories and digests where they are
counted. What a theorem needs beyond that
about concurrency or failures is an `ASSUME` of its own.

*Approval.* Three invariants, each on top of the one before.
`WorkflowInv` holds under any concurrency. The properties are not inductive by
themselves: that `publishSave` may mark a draft as published needs that this
handler has posted, or found no publisher, that `requestSave` may approve needs the same, and that no
handler writes "pending_review" over a decision needs that a row is created by
one handler only (`OneCreator`). `HandlerInv` states these for each call, and
all of it is monotone (posts, items and buttons only grow; a draft never returns
to review), which is why other handlers cannot disturb it. From it:
`DecisionsAreBacked` (with a publisher, published and approved means posted),
`RowsAreBacked`, `TypeCorrect`, and
`WorkflowKeepsSharedLife`: each action, whatever the others are in the middle
of, is a step of `SharedSpec` or leaves its variables alone. For this
`HandlerInv` has to say of a copy that may be published, read before the post,
that its row is not under review and never will be again. Where `MaxPosts` is
reached the count stays, which is a stutter.
`PostingInv` adds one bot handler and no publish route (`OneHandlerPublishes`):
an approving handler on its way to LinkedIn has seen `pending_review`, and a
draft under review has no post. From it `PostedAtMostOnce` and
`PostedAfterReview`, with the other routes running and handlers cut short.
`SerialInv` adds that no route is in use: what a handler read is what the row
holds. From it `WorkflowImplementsLifecycle`: each action is a step of
`DraftLifecycle` or leaves its variables alone. `DecisionInv` adds, under the
same condition, that a click's copy of its request is the row, that a decided
request agrees with its draft, and that a text that is out is of a published
draft or of a handler about to say so, as long as no handler was cut short. From
it `ApprovalsArePublished`, `RejectionsAreTrue`, `PublishedStays` and
`DecisionsStand`. The conditions on concurrency are needed: `double_click`
is the counterexample to the first, and section 3 lists those to the others. No
run repeats `PostingInv` with the routes beside the handler, as the theorem
covers it.

*DailyPipeline.* `PipelineInv` says what an execution knows at each call
(`Knows`), and nothing made is ever unmade, so overlapping executions, failures
and deaths cannot falsify it: `SucceededStepsAreQueued`. With one execution at a
time (`OneExecution`) `SoleInv` adds that a row of `pipeline_runs` is as it was
read, and counts: each draft beyond a tenant's first (`ExtraDrafts`), and each
draft of a step that failed or died before it was recorded and will be made
again (`Abandoned`), is paid for by a failure or a death of its own. Only the
sum of the two is bounded step by step, as an abandoned draft turns into an
extra one without a further failure. From it `DuplicatesArePaidFor` and
`SuccessStays`. `FailuresAreContained` needs
none of this: each action leaves an execution with tenants to go, or is a call
on a row that raised or was refused, however many executions there are.

*TelegramPolling.* `PollingInv`: all updates behind the loop's position are
finished, and at `poll` all below the offset are, which is what the next
getUpdates confirms. That gives `NoUpdateLost`. The counts of attempts below and
above the offset give `OnceInALife`, and that the loop takes up the first
unconfirmed update gives `UpdatesInOrder`.

*LinkedInTokens.* `TokenInv`: every token in hand, and the row, is of the
account its grant was issued for. A refresh keeps the member it was read with
and is answered for the same account, and rows are replaced whole: `TokensCorrect`,
`AuthorsOwnTheirTokens`. `SavingInv`: a grant that waits to be saved is not in
the row, has never been there and is in no other hands that wait to save, as
LinkedIn gives each grant once; so a save, whether it updates the row or inserts
it again after a disconnect, stores nothing that had left the table:
`RemovedTokensStayOut`. The row itself may be back (`StaysDisconnected` fails).

*Identity.* `IdInv`: what a request knows at each of its calls (`InHand`), that
ids that were drawn are nobody else's (`Drawn`), and that an email's users and
the registrations on their way to save it are together no more than the requests
there can be (`Claims`); the check for the email adds a claim only where no user
has it. From it `EmailsAreBounded`, `SessionsBacked` and `PolicyStopsRegistration`.
`HalvesPaid` counts: a tenant becomes a half only by a failure between the two
saves, since `IdInv` rules out that the second save is refused.

*Journal.* `JournalInv`: locks exclude each other, so that a tag that is being
inserted is in no table and in no other save's hands, and what a save wants is
stored, inserted or still to do. Hence every link is to a stored tag when it
commits. Tags are never deleted, and links go with their entry. `DaysStayTogether` is
about any two orders the database may give a list in: the place of an entry is
after those of later days and not after the last of its own (`PlaceInList`),
whichever order it is, and each place is on one page (`PlacesOfPages`). Entries
of a day that a border of pages cuts are what it cannot promise: TLC shows one on
two pages (`PagesAreDisjoint`).

*News.* `NewsInv` says what a job has in hand: items its source gave, of whatever
date (`FetchedAreItems`, for any answer), and a selection no older than the
window. That `Without` returns entries of the answer is a count: the
n-th entry that is left is the one with n of them up to it (`Counting`).
`DigestInv` adds that a story was not news to come when a digest took it, except
those the digest is marked with (`ahead`), and no fetch dates it anew; two
digests of a story are then both within the window from its date:
`DigestsLetGo`. `UnaskedArePaidFor` counts the digests that no job has
in hand any more against the failures, and `FetchGoesThroughSources` is the
action property.

*Drafting.* `RequestInv` is `ReviewInv`, what a reader of the channel relies on,
and `WorkInv`, which makes it inductive: what a handler drafts is its own, and
without a draft until it saves one. That part needs nothing of what the answers
are read as or the texts cut into; texts are not even typed in its proof
(`Shape`). `SendInv` adds what is between two messages: what a place shows of a
draft that is being sent is what its messages so far say (`Sends`), and buttons
are of a draft. `ReviewedIsWhole` is not inductive without it: that the words up
to the buttons are the whole text says something of all the messages before. Its
proof is the invariant `Whole`: with `SendInv`, every message of a place fits
the draft that is stored now (`Fits`), which a draft saved later cannot disturb,
because it is saved under an id that has no request yet. At the last message
`Sofar` is all of the layout (`LayoutIs`), so the words are all there. From it
`DraftingCorrect`, `DraftingTyped` and `ReviewsWhole`.

*Answers, Chunks.* `TextProofs` says what the operators on texts do, for every
text. `Pieces` is a recursive function, and `InString`, `Sanitize`, `BalancedEnd`
and `FlattenSeq` are recursions of the community modules: a `CHOOSE` of which
nothing is known until a function that obeys the recursion is shown to exist
(`Recursion`, from well-founded sets; `FlatteningExists`, `FoldedExists`).
Induction is on sets of numbers and of sequences (`Induction`, `SeqInduction`)
by way of the least one left out, which needs no operator as a parameter.
`MessagesFit`: a cut leaves less than there was (`WhatIsLeft`), so the pieces
fit, and stripping, cutting and marking take no word away.
`ObjectsAreFound` follows an object through `_extract_json_object`, with prose
before it and anything at all after it. Each piece of the string, as a model
writes it, is sanitized into something that is read as what was meant and that
neither ends the string nor changes the count of braces (`Turns`); prose whose
quotations are closed leaves the sanitizer outside strings (`ProseIsBare`), so
the object is sanitized as if it stood alone (`ObjectSanitized`). What precedes
it has no brace and what it starts and ends with is not blank, so stripping and
taking off a fence leave it whole (`UnfenceAround`); what is not the object alone
has a line break where JSON allows none, so it does not load (`LoadsAround`); and
the first brace is the object's, whose last one closes it (`BracesAround`).
Nothing is said of what follows the object: the first value found is returned.
`PostsAreRead` takes this to the draft that `LinkedInAgent` makes. The digest and
the summary go to `json.loads` as they are answered: `AnswersAreRead` is about
strings whose line breaks are escaped (`Escaped`), which is what JSON asks for,
and an answer with nothing around the object.

The proofs say what `ChunksAssumption` has to ask of the limits. `Preview > 1` is
in it because of them: with `Preview = 1` Telegram's request shows the ellipsis and
no word of the text. The code has 1000.

Only model-checked: the liveness properties (`QueuedIsDecided`,
`EntriesAreProcessed`, `SentIsFinished`, `RequestsEnd`, `HandlersEnd`), as
fairness and `ENABLED` are out of the prover's reach.

## 5. Not modelled, and what is left

Not modelled: Telegram's delivery through the webhook (what a repeated update
does is modelled; when it is repeated is up to Telegram); the signature of the
OAuth state, password hashes and the signatures of JWTs (functions of a key);
prompt templates; `embed`, `chat_stream` and the agents' memory, which nothing
calls, and their runs, which are saved to repositories that do nothing;
`UnitOfWork` and `EventDispatcher`, which nothing calls; who may write in a
channel; HTTP error mapping, logging, configuration, the rest of the migrations,
deployment scripts, empty packages. Whether Discord accepts the REST messenger's
multipart request under its explicit `Content-Type` depends on httpx and Discord
and is not settled here.

Left, in this order:

1. The webhook as a second way of delivery in `TelegramPolling`, and its
   composition with `Approval`.
2. Revocation of refresh tokens on use in `LinkedInTokens`, if LinkedIn does it.
