--------------------------- MODULE DailyPipeline ----------------------------
(***************************************************************************)
(* RunDailyPipeline for one pipeline_date: for each tenant the summary     *)
(* step and then the LinkedIn step, each recorded in one row of            *)
(* pipeline_runs under the unique key (tenant, date, step).  The job may   *)
(* be run again on the same day, after it ended, after it died, or while   *)
(* another execution of it is still going on.                              *)
(*                                                                         *)
(* A draft made by the LinkedIn step has no approval request, so nothing   *)
(* else touches it between its creation and its queueing; the three        *)
(* counters follow what the step did for a tenant.                         *)
(***************************************************************************)
EXTENDS Naturals, FiniteSets

CONSTANTS
  Tenant,        \* tenants that list_active returns
  Job,           \* executions of daily_pipeline that can be going on at once
  FailingCalls,  \* calls that may raise
  MaxFailures,   \* bound of the model: calls that raised
  MaxDeaths      \* bound of the model: jobs that crashed or timed out

Step == {"summary", "linkedin"}

\* The awaited calls of a step handler, inside the try block of _run_step ...
HandlerCalls == {"listEntries", "summarise", "createDraft", "queueSave", "itemSave"}

\* ... and the two repository calls around it, outside the block.
RowCalls == {"getByKey", "saveSucceeded", "saveFailed"}

ASSUME PipelineAssumption ==
  /\ "none" \notin Tenant
  /\ FailingCalls \subseteq HandlerCalls \cup RowCalls
  /\ MaxFailures \in Nat
  /\ MaxDeaths \in Nat

VARIABLES
  entries,   \* tenants with a journal entry on the day
  runs,      \* pipeline_runs: the row of each (tenant, step)
  made,      \* drafts that the LinkedIn step saved, per tenant
  queued,    \* drafts that it marked as queued
  items,     \* publication queue items that it saved
  job,       \* what each execution is doing
  failures,  \* calls that raised so far
  deaths     \* executions that died so far

pipeVars == <<entries, runs, made, queued, items, job, failures, deaths>>

Row == {"absent", "succeeded", "failed"}

NoTenant == "none"

\* "existing" is what get_by_key returned: a row to update, or none, in which
\* case the run gets a new id and its save is an INSERT.
Execution == [pc       : {"idle"} \cup HandlerCalls \cup RowCalls,
              todo     : SUBSET Tenant,
              tenant   : Tenant \cup {NoTenant},
              step     : Step,
              existing : BOOLEAN]

Ended == [pc |-> "idle", todo |-> {}, tenant |-> NoTenant,
          step |-> "summary", existing |-> FALSE]

PipeTypeOK ==
  /\ entries \subseteq Tenant
  /\ runs \in [Tenant -> [Step -> Row]]
  /\ made \in [Tenant -> Nat]
  /\ queued \in [Tenant -> Nat]
  /\ items \in [Tenant -> Nat]
  /\ job \in [Job -> Execution]
  /\ \A j \in Job : job[j].tenant = NoTenant <=> job[j].pc = "idle"
  /\ failures \in Nat
  /\ deaths \in Nat

PipeInit ==
  /\ entries = {}
  /\ runs = [t \in Tenant |-> [s \in Step |-> "absent"]]
  /\ made = [t \in Tenant |-> 0]
  /\ queued = [t \in Tenant |-> 0]
  /\ items = [t \in Tenant |-> 0]
  /\ job = [j \in Job |-> Ended]
  /\ failures = 0
  /\ deaths = 0

-----------------------------------------------------------------------------

\* The author writes the day's first journal entry.
WriteEntry(t) ==
  /\ t \notin entries
  /\ entries' = entries \cup {t}
  /\ UNCHANGED <<runs, made, queued, items, job, failures, deaths>>

\* Take up the next tenant, in the order the query happened to return, or end.
NextTenant(j, todo) ==
  \/ \E t \in todo :
       job' = [job EXCEPT ![j] = [pc |-> "getByKey", todo |-> todo \ {t}, tenant |-> t,
                                  step |-> "summary", existing |-> FALSE]]
  \/ todo = {} /\ job' = [job EXCEPT ![j] = Ended]

\* _run_step has returned.
NextStep(j) ==
  \/ /\ job[j].step = "summary"
     /\ job' = [job EXCEPT ![j].step = "linkedin", ![j].pc = "getByKey",
                           ![j].existing = FALSE]
  \/ /\ job[j].step = "linkedin"
     /\ NextTenant(j, job[j].todo)

Call(j, c) == job' = [job EXCEPT ![j].pc = c]

-----------------------------------------------------------------------------
(* Operators below, each with a bug in it: they stand in for their originals *)
(* when the properties are tested for what they would catch.               *)

AlreadyDone_Never(row) == FALSE
AlreadyDone_AnyRow(row) == row # "absent"

\* A day without entries is summarised like any other.
ListEntries_NoSkip(j) ==
  /\ job[j].pc = "listEntries"
  /\ Call(j, IF job[j].step = "summary" THEN "summarise" ELSE "createDraft")
  /\ UNCHANGED <<entries, runs, made, queued, items, failures, deaths>>

\* The draft is made and not queued.
CreateDraft_Unqueued(j) ==
  /\ job[j].pc = "createDraft"
  /\ made' = [made EXCEPT ![job[j].tenant] = @ + 1]
  /\ Call(j, "saveSucceeded")
  /\ UNCHANGED <<entries, runs, queued, items, failures, deaths>>

\* A step's exception leaves the job.
CallFails_Escapes(j) ==
  /\ job[j].pc \in FailingCalls
  /\ failures < MaxFailures
  /\ failures' = failures + 1
  /\ job' = [job EXCEPT ![j] = Ended]
  /\ UNCHANGED <<entries, runs, made, queued, items, deaths>>

\* A step that failed is recorded as one that succeeded.
CallFails_Swallowed(j) ==
  /\ job[j].pc \in FailingCalls
  /\ failures < MaxFailures
  /\ failures' = failures + 1
  /\ IF job[j].pc \in HandlerCalls
     THEN Call(j, "saveSucceeded")
     ELSE job' = [job EXCEPT ![j] = Ended]
  /\ UNCHANGED <<entries, runs, made, queued, items, deaths>>

-----------------------------------------------------------------------------

StartJob(j) ==
  /\ job[j].pc = "idle"
  /\ Tenant # {}
  /\ NextTenant(j, Tenant)
  /\ UNCHANGED <<entries, runs, made, queued, items, failures, deaths>>

AlreadyDone(row) == row = "succeeded"

\* A step that succeeded is not done again; run.start() changes only the copy.
GetByKey(j) ==
  LET row == runs[job[j].tenant][job[j].step] IN
  /\ job[j].pc = "getByKey"
  /\ \/ AlreadyDone(row) /\ NextStep(j)
     \/ /\ ~AlreadyDone(row)
        /\ job' = [job EXCEPT ![j].pc = "listEntries", ![j].existing = (row # "absent")]
  /\ UNCHANGED <<entries, runs, made, queued, items, failures, deaths>>

\* StepSkipped leaves no row behind.
ListEntries(j) ==
  /\ job[j].pc = "listEntries"
  /\ \/ job[j].tenant \notin entries /\ NextStep(j)
     \/ /\ job[j].tenant \in entries
        /\ Call(j, IF job[j].step = "summary" THEN "summarise" ELSE "createDraft")
  /\ UNCHANGED <<entries, runs, made, queued, items, failures, deaths>>

\* The summary is kept only as the text of its row.
Summarise(j) ==
  /\ job[j].pc = "summarise"
  /\ Call(j, "saveSucceeded")
  /\ UNCHANGED <<entries, runs, made, queued, items, failures, deaths>>

CreateDraft(j) ==
  /\ job[j].pc = "createDraft"
  /\ made' = [made EXCEPT ![job[j].tenant] = @ + 1]
  /\ Call(j, "queueSave")
  /\ UNCHANGED <<entries, runs, queued, items, failures, deaths>>

\* EnqueueDraft on the draft just made.
QueueSave(j) ==
  /\ job[j].pc = "queueSave"
  /\ queued' = [queued EXCEPT ![job[j].tenant] = @ + 1]
  /\ Call(j, "itemSave")
  /\ UNCHANGED <<entries, runs, made, items, failures, deaths>>

ItemSave(j) ==
  /\ job[j].pc = "itemSave"
  /\ items' = [items EXCEPT ![job[j].tenant] = @ + 1]
  /\ Call(j, "saveSucceeded")
  /\ UNCHANGED <<entries, runs, made, queued, failures, deaths>>

\* merge by id and commit: a run with a new id cannot be inserted next to the
\* row that another execution inserted meanwhile, and the IntegrityError ends
\* the job.
SaveRun(j) ==
  LET t == job[j].tenant
      s == job[j].step
  IN
  /\ job[j].pc \in {"saveSucceeded", "saveFailed"}
  /\ \/ /\ job[j].existing \/ runs[t][s] = "absent"
        /\ runs' = [runs EXCEPT ![t][s] = IF job[j].pc = "saveSucceeded"
                                          THEN "succeeded" ELSE "failed"]
        /\ NextStep(j)
     \/ /\ ~job[j].existing /\ runs[t][s] # "absent"
        /\ job' = [job EXCEPT ![j] = Ended]
        /\ UNCHANGED runs
  /\ UNCHANGED <<entries, made, queued, items, failures, deaths>>

\* A call raises: inside the handler the step becomes a failed row, around it
\* the exception leaves execute and ends the job.
CallFails(j) ==
  /\ job[j].pc \in FailingCalls
  /\ failures < MaxFailures
  /\ failures' = failures + 1
  /\ IF job[j].pc \in HandlerCalls
     THEN Call(j, "saveFailed")
     ELSE job' = [job EXCEPT ![j] = Ended]
  /\ UNCHANGED <<entries, runs, made, queued, items, deaths>>

\* The worker crashes, or job_timeout cancels the job: CancelledError is not
\* an Exception, so no row is written.
JobDies(j) ==
  /\ job[j].pc # "idle"
  /\ deaths < MaxDeaths
  /\ deaths' = deaths + 1
  /\ job' = [job EXCEPT ![j] = Ended]
  /\ UNCHANGED <<entries, runs, made, queued, items, failures>>

JobStep(j) ==
  \/ GetByKey(j) \/ ListEntries(j) \/ Summarise(j) \/ CreateDraft(j)
  \/ QueueSave(j) \/ ItemSave(j) \/ SaveRun(j)

PipeNext ==
  \/ \E t \in Tenant : WriteEntry(t)
  \/ \E j \in Job : StartJob(j) \/ JobStep(j) \/ CallFails(j) \/ JobDies(j)

PipeSpec == PipeInit /\ [][PipeNext]_pipeVars

-----------------------------------------------------------------------------

\* A LinkedIn step is recorded as succeeded only when a draft of the day was
\* made, queued and given its queue item, however executions overlap or die.
SucceededIsQueued ==
  \A t \in Tenant :
    runs[t]["linkedin"] = "succeeded" => made[t] > 0 /\ queued[t] > 0 /\ items[t] > 0

\* "Tenant sem entries no dia eh SKIPPED (nada persiste)": no draft, and no
\* row but that of a step which could not even read the entries.
SkippedLeavesNothing ==
  \A t \in Tenant \ entries :
    /\ made[t] = 0
    /\ \A s \in Step : \/ runs[t][s] = "absent"
                       \/ runs[t][s] = "failed" /\ "listEntries" \in FailingCalls

\* "re-rodar o job no mesmo dia nao duplica": at most one draft and one queue
\* item per tenant and day.
NoDuplicates == \A t \in Tenant : made[t] <= 1 /\ items[t] <= 1

\* The drafts of the day beyond the first, of every tenant.
ExtraDrafts == UNION {{t} \X (2 .. made[t]) : t \in Tenant}

\* How far that goes when calls fail and jobs die: each draft of the day but
\* the first was made because an execution failed or died before, and one
\* failure never costs two drafts.
DuplicatesHaveACause == Cardinality(ExtraDrafts) <= failures + deaths

\* A step that succeeded stays so: no later run of the job overwrites its row.
SucceededIsFinal ==
  [][\A t \in Tenant, s \in Step :
       runs[t][s] = "succeeded" => runs'[t][s] = "succeeded"]_pipeVars

\* An execution that is not killed and ends before every tenant has had both
\* steps: "Um step que falha nao derruba os demais tenants".
EndsEarly(j) ==
  /\ job[j].pc # "idle" /\ job'[j].pc = "idle" /\ deaths' = deaths
  /\ ~(job[j].todo = {} /\ job[j].step = "linkedin")

\* What happens in a step never ends an execution early: only a call on the row
\* of its step does, outside the try block of _run_step, which raises or is
\* refused because another execution inserted that row.
FailureIsContained ==
  [][\A j \in Job : EndsEarly(j) =>
       /\ job[j].pc \in RowCalls
       /\ \/ failures' # failures
          \/ ~job[j].existing /\ runs[job[j].tenant][job[j].step] # "absent"]_pipeVars

\* Nothing does.
TenantsAreNotDropped == [][\A j \in Job : ~EndsEarly(j)]_pipeVars

\* An execution goes on while its worker lives, and the job is run again: by
\* arq after a crash, by the author after a failure.
RerunSpec ==
  /\ PipeSpec
  /\ \A j \in Job : WF_pipeVars(JobStep(j)) /\ WF_pipeVars(StartJob(j))

\* If the job is run again and failures come to an end, every tenant with
\* entries gets its summary and its queued draft.
EntriesAreProcessed ==
  \A t \in Tenant :
    t \in entries ~> \A s \in Step : runs[t][s] = "succeeded"

-----------------------------------------------------------------------------
(* Why SucceededIsQueued holds: what an execution knows at each call, true  *)
(* whatever the other executions do, since nothing made is ever unmade.     *)

Knows(x, made0, queued0, items0) ==
  /\ x.pc = "summarise" => x.step = "summary"
  /\ x.pc \in {"createDraft", "queueSave", "itemSave"} => x.step = "linkedin"
  /\ x.pc = "queueSave" => made0[x.tenant] > 0
  /\ x.pc = "itemSave" => made0[x.tenant] > 0 /\ queued0[x.tenant] > 0
  /\ x.pc = "saveSucceeded" /\ x.step = "linkedin"
       => made0[x.tenant] > 0 /\ queued0[x.tenant] > 0 /\ items0[x.tenant] > 0

PipelineInv ==
  /\ PipeTypeOK
  /\ \A j \in Job : Knows(job[j], made, queued, items)
  /\ SucceededIsQueued

\* One execution at a time: the job is run again only after it ended.
OneExecution == \A j, k \in Job : j = k

\* An execution that made a draft and goes on to have its step recorded.
Tends(x, t) ==
  /\ x.tenant = t
  /\ x.step = "linkedin"
  /\ x.pc \in {"queueSave", "itemSave", "saveSucceeded"}

\* Tenants that have a draft which no step is or will be recorded for: the next
\* execution makes another one.
Abandoned ==
  {t \in Tenant : /\ made[t] > 0
                  /\ runs[t]["linkedin"] # "succeeded"
                  /\ ~\E j \in Job : Tends(job[j], t)}

\* With one execution at a time, the row is as get_by_key found it.
RowsAreAsRead ==
  \A j \in Job :
    LET row == runs[job[j].tenant][job[j].step] IN
    job[j].pc \notin {"idle", "getByKey"}
      => ~AlreadyDone(row) /\ (job[j].existing <=> row # "absent")

\* Then each extra draft, and each one that was abandoned and will be made
\* again, is paid for by a failure or a death of its own.
DraftsArePaidFor ==
  /\ IsFiniteSet(ExtraDrafts) /\ IsFiniteSet(Abandoned)
  /\ Cardinality(ExtraDrafts) + Cardinality(Abandoned) <= failures + deaths

SoleInv == RowsAreAsRead /\ DraftsArePaidFor

=============================================================================
