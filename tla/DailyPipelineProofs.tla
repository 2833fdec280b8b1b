------------------------ MODULE DailyPipelineProofs ------------------------
(***************************************************************************)
(* Theorems about the daily pipeline, for every number of tenants, of      *)
(* failing calls and of deaths: the first for overlapping executions, the  *)
(* others for one execution at a time.                                     *)
(***************************************************************************)
EXTENDS DailyPipeline, FiniteSetTheorems, TLAPS

\* No row, draft or execution exists at first.
LEMMA InitPipeline == PipeInit => PipelineInv
  BY PipelineAssumption
  DEF PipeInit, PipelineInv, PipeTypeOK, Knows, SucceededIsQueued,
      Execution, Ended, HandlerCalls, RowCalls, Step, Row, NoTenant

\* Nothing that was made is unmade.
Kept ==
  /\ entries' = entries /\ failures' \in Nat /\ deaths' \in Nat
  /\ runs' \in [Tenant -> [Step -> Row]]
  /\ made' \in [Tenant -> Nat]   /\ \A t \in Tenant : made'[t] >= made[t]
  /\ queued' \in [Tenant -> Nat] /\ \A t \in Tenant : queued'[t] >= queued[t]
  /\ items' \in [Tenant -> Nat]  /\ \A t \in Tenant : items'[t] >= items[t]

\* An execution that goes on with a well-formed record x it knows enough for
\* keeps the invariant, if nothing was unmade and the rows are backed.
LEMMA Going ==
  ASSUME PipelineInv, NEW j \in Job, NEW x \in Execution,
         x.tenant = NoTenant <=> x.pc = "idle",
         job' = [job EXCEPT ![j] = x],
         Kept, Knows(x, made', queued', items'), SucceededIsQueued'
  PROVE  PipelineInv'
<1>1. job' \in [Job -> Execution]
  BY DEF PipelineInv, PipeTypeOK
<1>2. job'[j] = x /\ \A k \in Job \ {j} : job'[k] = job[k]
  BY DEF PipelineInv, PipeTypeOK
<1>3. \A k \in Job : job'[k].tenant = NoTenant <=> job'[k].pc = "idle"
  BY <1>2 DEF PipelineInv, PipeTypeOK
<1>4. ASSUME NEW k \in Job \ {j}
      PROVE  Knows(job'[k], made', queued', items')
  <2>1. job[k].tenant \in Tenant \/ job[k].pc = "idle"
    BY DEF PipelineInv, PipeTypeOK, Execution
  <2>2. Knows(job[k], made, queued, items)
    BY DEF PipelineInv
  <2>3. job'[k] = job[k]
    BY <1>2
  <2>4. \A t \in Tenant : /\ made[t] > 0 => made'[t] > 0
                          /\ queued[t] > 0 => queued'[t] > 0
                          /\ items[t] > 0 => items'[t] > 0
    BY DEF Kept, PipelineInv, PipeTypeOK
  <2>5. QED
    BY <2>1, <2>2, <2>3, <2>4 DEF Knows, Kept, PipelineInv, PipeTypeOK
<1>5. Knows(job'[j], made', queued', items')
  BY <1>2 DEF Knows
<1>6. PipeTypeOK'
  BY <1>1, <1>3 DEF Kept, PipelineInv, PipeTypeOK
<1>7. QED
  BY <1>4, <1>5, <1>6 DEF PipelineInv

\* Taking up another tenant or step keeps the table of executions well formed
\* and leaves the execution ended or about to read the row of that step.
LEMMA MovingOn ==
  ASSUME PipeTypeOK, NEW j \in Job, NEW todo \in SUBSET Tenant,
         NextTenant(j, todo) \/ (job[j].pc # "idle" /\ NextStep(j))
  PROVE  \E x \in Execution :
           /\ x.tenant = NoTenant <=> x.pc = "idle"
           /\ x.pc \in {"idle", "getByKey"}
           /\ job' = [job EXCEPT ![j] = x]
<1> DEFINE Moved == \E x \in Execution :
                      /\ x.tenant = NoTenant <=> x.pc = "idle"
                      /\ x.pc \in {"idle", "getByKey"}
                      /\ job' = [job EXCEPT ![j] = x]
<1> USE PipelineAssumption DEF Execution, RowCalls, Step, NoTenant
<1>1. ASSUME NEW rest \in SUBSET Tenant, NextTenant(j, rest)
      PROVE  Moved
  <2>1. ASSUME NEW t \in rest,
               job' = [job EXCEPT ![j] = [pc |-> "getByKey", todo |-> rest \ {t},
                                          tenant |-> t, step |-> "summary",
                                          existing |-> FALSE]]
        PROVE  Moved
    <3> DEFINE x == [pc |-> "getByKey", todo |-> rest \ {t}, tenant |-> t,
                     step |-> "summary", existing |-> FALSE]
    <3>1. x \in Execution
      OBVIOUS
    <3>2. x.tenant # NoTenant /\ x.pc = "getByKey"
      OBVIOUS
    <3>3. QED
      BY <2>1, <3>1, <3>2
  <2>2. ASSUME job' = [job EXCEPT ![j] = Ended]
        PROVE  Moved
    <3>1. Ended \in Execution /\ Ended.tenant = NoTenant /\ Ended.pc = "idle"
      BY DEF Ended
    <3>2. QED
      BY <2>2, <3>1
  <2>3. QED
    BY <1>1, <2>1, <2>2 DEF NextTenant
<1>2. ASSUME job[j].pc # "idle", NextStep(j)
      PROVE  Moved
  <2>1. job[j] \in Execution /\ job[j].tenant # NoTenant
    BY <1>2 DEF PipeTypeOK
  <2>2. CASE job[j].step = "linkedin" /\ NextTenant(j, job[j].todo)
    BY <1>1, <2>1, <2>2
  <2>3. CASE job' = [job EXCEPT ![j].step = "linkedin", ![j].pc = "getByKey",
                                ![j].existing = FALSE]
    <3> DEFINE x == [job[j] EXCEPT !.step = "linkedin", !.pc = "getByKey",
                                   !.existing = FALSE]
    <3>1. x \in Execution /\ x.tenant # NoTenant /\ x.pc = "getByKey"
      BY <2>1
    <3>2. job' = [job EXCEPT ![j] = x]
      BY <2>3 DEF PipeTypeOK
    <3>3. QED
      BY <3>1, <3>2
  <2>4. QED
    BY <1>2, <2>2, <2>3 DEF NextStep
<1>3. QED
  BY <1>1, <1>2

\* No step of any execution breaks the invariant, whatever the others do.
LEMMA NextPipeline == PipelineInv /\ [PipeNext]_pipeVars => PipelineInv'
<1> SUFFICES ASSUME PipelineInv, [PipeNext]_pipeVars
             PROVE  PipelineInv'
  OBVIOUS
<1>0. /\ PipeTypeOK
      /\ \A j \in Job : job[j] \in Execution /\ Knows(job[j], made, queued, items)
      /\ \A j \in Job : job[j].pc # "idle" => job[j].tenant \in Tenant
      /\ SucceededIsQueued
  BY DEF PipelineInv, PipeTypeOK, Execution
<1>a. UNCHANGED <<entries, runs, made, queued, items>>
        /\ failures' \in Nat /\ deaths' \in Nat => Kept
  BY <1>0 DEF Kept, PipeTypeOK
<1>1. ASSUME NEW t \in Tenant, WriteEntry(t)
      PROVE  PipelineInv'
  BY <1>0, <1>1 DEF WriteEntry, PipelineInv, PipeTypeOK, Knows, SucceededIsQueued
<1>2. ASSUME NEW j \in Job, NEW c \in HandlerCalls \cup RowCalls, Call(j, c),
             job[j].pc # "idle"
      PROVE  \E x \in Execution :
               /\ x = [job[j] EXCEPT !.pc = c]
               /\ x.tenant # NoTenant /\ x.pc # "idle"
               /\ job' = [job EXCEPT ![j] = x]
  <2> DEFINE x == [job[j] EXCEPT !.pc = c]
  <2>1. x \in Execution /\ x.pc # "idle"
    BY <1>0 DEF Execution, HandlerCalls, RowCalls
  <2>2. x.tenant # NoTenant
    BY <1>0, <1>2, PipelineAssumption DEF NoTenant, Execution
  <2>3. job' = [job EXCEPT ![j] = x]
    BY <1>2, <1>0 DEF Call, PipeTypeOK
  <2>4. QED
    BY <2>1, <2>2, <2>3
<1>3. ASSUME NEW j \in Job, NEW todo \in SUBSET Tenant,
             UNCHANGED <<entries, runs, made, queued, items, failures, deaths>>,
             NextTenant(j, todo) \/ (job[j].pc # "idle" /\ NextStep(j))
      PROVE  PipelineInv'
  <2>1. PICK x \in Execution : /\ x.tenant = NoTenant <=> x.pc = "idle"
                               /\ x.pc \in {"idle", "getByKey"}
                               /\ job' = [job EXCEPT ![j] = x]
    BY <1>0, <1>3, MovingOn
  <2>2. Knows(x, made', queued', items') /\ SucceededIsQueued'
    BY <1>0, <1>3, <2>1 DEF Knows, SucceededIsQueued
  <2>3. Kept
    BY <1>0, <1>a, <1>3 DEF PipeTypeOK
  <2>4. QED
    BY <1>3, <2>1, <2>2, <2>3, Going
<1>4. ASSUME NEW j \in Job, GetByKey(j)
      PROVE  PipelineInv'
  <2>1. /\ job[j].pc # "idle"
        /\ UNCHANGED <<entries, runs, made, queued, items, failures, deaths>>
    BY <1>4 DEF GetByKey
  <2>2. CASE NextStep(j)
    BY <1>3, <2>1, <2>2
  <2>3. ASSUME NEW e \in BOOLEAN,
               job' = [job EXCEPT ![j].pc = "listEntries", ![j].existing = e]
        PROVE  PipelineInv'
    <3> DEFINE x == [job[j] EXCEPT !.pc = "listEntries", !.existing = e]
    <3>1. x \in Execution /\ x.tenant # NoTenant /\ x.pc = "listEntries"
      BY <1>0, <2>1, PipelineAssumption DEF Execution, HandlerCalls, NoTenant
    <3>2. job' = [job EXCEPT ![j] = x]
      BY <1>0, <2>3 DEF PipeTypeOK
    <3>3. Knows(x, made', queued', items') /\ SucceededIsQueued'
      BY <1>0, <2>1, <3>1 DEF Knows, SucceededIsQueued
    <3>4. Kept
      BY <1>0, <1>a, <2>1 DEF PipeTypeOK
    <3>5. QED
      BY <2>1, <3>1, <3>2, <3>3, <3>4, Going
  <2>4. QED
    BY <1>4, <2>2, <2>3 DEF GetByKey
<1>5. ASSUME NEW j \in Job, ListEntries(j)
      PROVE  PipelineInv'
  <2>1. /\ job[j].pc # "idle"
        /\ UNCHANGED <<entries, runs, made, queued, items, failures, deaths>>
    BY <1>5 DEF ListEntries
  <2>2. CASE NextStep(j)
    BY <1>3, <2>1, <2>2
  <2>3. CASE Call(j, IF job[j].step = "summary" THEN "summarise" ELSE "createDraft")
    <3> DEFINE c == IF job[j].step = "summary" THEN "summarise" ELSE "createDraft"
    <3>1. c \in HandlerCalls \cup RowCalls
      BY DEF HandlerCalls
    <3>2. PICK x \in Execution : /\ x = [job[j] EXCEPT !.pc = c]
                                 /\ x.tenant # NoTenant /\ x.pc # "idle"
                                 /\ job' = [job EXCEPT ![j] = x]
      BY <1>2, <2>1, <2>3, <3>1
    <3>3. Knows(x, made', queued', items') /\ SucceededIsQueued'
      BY <1>0, <2>1, <3>2 DEF Knows, SucceededIsQueued, Execution, Step
    <3>4. Kept
      BY <1>0, <1>a, <2>1 DEF PipeTypeOK
    <3>5. QED
      BY <2>1, <3>2, <3>3, <3>4, Going
  <2>4. QED
    BY <1>5, <2>2, <2>3 DEF ListEntries
<1>6. ASSUME NEW j \in Job, Summarise(j)
      PROVE  PipelineInv'
  <2>1. /\ job[j].pc = "summarise" /\ Call(j, "saveSucceeded")
        /\ UNCHANGED <<entries, runs, made, queued, items, failures, deaths>>
    BY <1>6 DEF Summarise
  <2>2. PICK x \in Execution : /\ x = [job[j] EXCEPT !.pc = "saveSucceeded"]
                               /\ x.tenant # NoTenant /\ x.pc # "idle"
                               /\ job' = [job EXCEPT ![j] = x]
    BY <1>2, <2>1 DEF RowCalls
  <2>3. x.step = "summary" /\ x.pc = "saveSucceeded"
    BY <1>0, <2>1, <2>2 DEF Knows, Execution, Step
  <2>4. Knows(x, made', queued', items') /\ SucceededIsQueued'
    BY <1>0, <2>1, <2>3 DEF Knows, SucceededIsQueued
  <2>5. Kept
    BY <1>0, <1>a, <2>1 DEF PipeTypeOK
  <2>6. QED
    BY <2>1, <2>2, <2>4, <2>5, Going
<1>7. ASSUME NEW j \in Job, NEW c \in {"queueSave", "itemSave", "saveSucceeded"},
             Call(j, c), job[j].pc # "idle", Kept, runs' = runs,
             ASSUME NEW x \in Execution, x = [job[j] EXCEPT !.pc = c]
             PROVE  Knows(x, made', queued', items')
      PROVE  PipelineInv'
  <2>1. PICK x \in Execution : /\ x = [job[j] EXCEPT !.pc = c]
                               /\ x.tenant # NoTenant /\ x.pc # "idle"
                               /\ job' = [job EXCEPT ![j] = x]
    BY <1>2, <1>7 DEF HandlerCalls, RowCalls
  <2>2. SucceededIsQueued'
    BY <1>0, <1>7 DEF Kept, SucceededIsQueued, PipeTypeOK
  <2>3. QED
    BY <1>7, <2>1, <2>2, Going
<1>7a. ASSUME NEW j \in Job, CreateDraft(j)
       PROVE  PipelineInv'
  <2>1. Kept
    BY <1>0, <1>7a DEF CreateDraft, Kept, PipeTypeOK
  <2>2. ASSUME NEW x \in Execution, x = [job[j] EXCEPT !.pc = "queueSave"]
        PROVE  Knows(x, made', queued', items')
    <3>1. x.tenant = job[j].tenant /\ x.pc = "queueSave" /\ x.step = "linkedin"
      BY <1>0, <1>7a, <2>2 DEF CreateDraft, Knows, Execution
    <3>2. made'[job[j].tenant] > 0
      BY <1>0, <1>7a DEF CreateDraft, PipeTypeOK
    <3>3. QED
      BY <3>1, <3>2 DEF Knows
  <2>3. QED
    BY <1>7, <1>7a, <2>1, <2>2 DEF CreateDraft
<1>7b. ASSUME NEW j \in Job, QueueSave(j)
       PROVE  PipelineInv'
  <2>1. Kept
    BY <1>0, <1>7b DEF QueueSave, Kept, PipeTypeOK
  <2>2. ASSUME NEW x \in Execution, x = [job[j] EXCEPT !.pc = "itemSave"]
        PROVE  Knows(x, made', queued', items')
    <3>1. x.tenant = job[j].tenant /\ x.pc = "itemSave" /\ x.step = "linkedin"
      BY <1>0, <1>7b, <2>2 DEF QueueSave, Knows, Execution
    <3>2. made'[job[j].tenant] > 0 /\ queued'[job[j].tenant] > 0
      BY <1>0, <1>7b DEF QueueSave, Knows, PipeTypeOK
    <3>3. QED
      BY <3>1, <3>2 DEF Knows
  <2>3. QED
    BY <1>7, <1>7b, <2>1, <2>2 DEF QueueSave
<1>7c. ASSUME NEW j \in Job, ItemSave(j)
       PROVE  PipelineInv'
  <2>1. Kept
    BY <1>0, <1>7c DEF ItemSave, Kept, PipeTypeOK
  <2>2. ASSUME NEW x \in Execution, x = [job[j] EXCEPT !.pc = "saveSucceeded"]
        PROVE  Knows(x, made', queued', items')
    <3>1. x.tenant = job[j].tenant /\ x.pc = "saveSucceeded"
      BY <1>0, <1>7c, <2>2 DEF ItemSave, Execution
    <3>2. /\ made'[job[j].tenant] > 0 /\ queued'[job[j].tenant] > 0
          /\ items'[job[j].tenant] > 0
      BY <1>0, <1>7c DEF ItemSave, Knows, PipeTypeOK
    <3>3. QED
      BY <3>1, <3>2 DEF Knows
  <2>3. QED
    BY <1>7, <1>7c, <2>1, <2>2 DEF ItemSave
<1>8. ASSUME NEW j \in Job, SaveRun(j)
      PROVE  PipelineInv'
  <2> DEFINE t == job[j].tenant
             s == job[j].step
  <2>1. /\ UNCHANGED <<entries, made, queued, items, failures, deaths>>
        /\ job[j].pc \in {"saveSucceeded", "saveFailed"}
        /\ t \in Tenant /\ s \in Step
    BY <1>0, <1>8 DEF SaveRun, Execution
  <2>2. CASE /\ runs' = [runs EXCEPT ![t][s] = IF job[j].pc = "saveSucceeded"
                                              THEN "succeeded" ELSE "failed"]
             /\ NextStep(j)
    <3>1. PICK x \in Execution : /\ x.tenant = NoTenant <=> x.pc = "idle"
                                 /\ x.pc \in {"idle", "getByKey"}
                                 /\ job' = [job EXCEPT ![j] = x]
      BY <1>0, <2>1, <2>2, MovingOn
    <3>2. runs' \in [Tenant -> [Step -> Row]]
      BY <1>0, <2>1, <2>2 DEF PipeTypeOK, Row
    <3>3. \A u \in Tenant :
            runs'[u]["linkedin"] = "succeeded" =>
              \/ runs[u]["linkedin"] = "succeeded"
              \/ u = t /\ s = "linkedin" /\ job[j].pc = "saveSucceeded"
      BY <1>0, <2>1, <2>2 DEF PipeTypeOK, Step
    <3>4. SucceededIsQueued'
      BY <1>0, <2>1, <3>3 DEF SucceededIsQueued, Knows
    <3>5. Knows(x, made', queued', items')
      BY <3>1 DEF Knows
    <3>6. Kept
      BY <1>0, <2>1, <3>2 DEF Kept, PipeTypeOK
    <3>7. QED
      BY <2>1, <3>1, <3>2, <3>4, <3>5, <3>6, Going
  <2>3. CASE job' = [job EXCEPT ![j] = Ended] /\ UNCHANGED runs
    <3>1. Ended \in Execution /\ Ended.tenant = NoTenant /\ Ended.pc = "idle"
      BY DEF Ended, Execution, Step
    <3>2. Knows(Ended, made', queued', items') /\ SucceededIsQueued'
      BY <1>0, <2>1, <2>3, <3>1 DEF Knows, SucceededIsQueued
    <3>3. Kept
      BY <1>0, <1>a, <2>1, <2>3 DEF PipeTypeOK
    <3>4. QED
      BY <2>1, <2>3, <3>1, <3>2, <3>3, Going
  <2>4. QED
    BY <1>8, <2>2, <2>3 DEF SaveRun
<1>9. ASSUME NEW j \in Job, CallFails(j) \/ JobDies(j)
      PROVE  PipelineInv'
  <2>1. /\ UNCHANGED <<entries, runs, made, queued, items>>
        /\ failures' \in Nat /\ deaths' \in Nat
        /\ job[j].pc # "idle"
        /\ Call(j, "saveFailed") \/ job' = [job EXCEPT ![j] = Ended]
    BY <1>0, <1>9, PipelineAssumption
    DEF CallFails, JobDies, PipeTypeOK, HandlerCalls, RowCalls
  <2>2. CASE Call(j, "saveFailed")
    <3>1. PICK x \in Execution : /\ x = [job[j] EXCEPT !.pc = "saveFailed"]
                                 /\ x.tenant # NoTenant /\ x.pc # "idle"
                                 /\ job' = [job EXCEPT ![j] = x]
      BY <1>2, <2>1, <2>2 DEF RowCalls
    <3>2. x.pc = "saveFailed"
      BY <1>0, <3>1 DEF Execution
    <3>3. Knows(x, made', queued', items') /\ SucceededIsQueued'
      BY <1>0, <2>1, <3>2 DEF Knows, SucceededIsQueued
    <3>4. Kept
      BY <1>0, <1>a, <2>1 DEF PipeTypeOK
    <3>5. QED
      BY <2>1, <3>1, <3>3, <3>4, Going
  <2>3. CASE job' = [job EXCEPT ![j] = Ended]
    <3>1. Ended \in Execution /\ Ended.tenant = NoTenant /\ Ended.pc = "idle"
      BY DEF Ended, Execution, Step
    <3>2. Knows(Ended, made', queued', items') /\ SucceededIsQueued'
      BY <1>0, <2>1, <3>1 DEF Knows, SucceededIsQueued
    <3>3. Kept
      BY <1>0, <1>a, <2>1, <2>3 DEF PipeTypeOK
    <3>4. QED
      BY <2>1, <2>3, <3>1, <3>2, <3>3, Going
  <2>4. QED
    BY <2>1, <2>2, <2>3
<1>10. ASSUME NEW j \in Job, StartJob(j)
       PROVE  PipelineInv'
  BY <1>3, <1>10 DEF StartJob
<1>11. CASE UNCHANGED pipeVars
  BY <1>11 DEF pipeVars, PipelineInv, PipeTypeOK, Knows, SucceededIsQueued
<1>12. QED
  BY <1>1, <1>4, <1>5, <1>6, <1>7a, <1>7b, <1>7c, <1>8, <1>9, <1>10, <1>11
  DEF PipeNext, JobStep

\* However many executions overlap, fail and die, a LinkedIn step is recorded
\* as succeeded only when a draft of the day was made, queued and given its
\* queue item.
THEOREM SucceededStepsAreQueued == PipeSpec => []SucceededIsQueued
<1>1. PipelineInv => SucceededIsQueued
  BY DEF PipelineInv
<1>2. QED
  BY InitPipeline, NextPipeline, <1>1, PTL DEF PipeSpec

-----------------------------------------------------------------------------
(* One execution at a time.                                                *)

\* What the steps of an execution do to its record, where the next tenant or
\* step is taken up.
LEMMA TakesUp ==
  ASSUME PipeTypeOK, NEW j \in Job, NEW todo \in SUBSET Tenant,
         NextTenant(j, todo) \/ (job[j].pc # "idle" /\ NextStep(j))
  PROVE  job'[j].pc \in {"idle", "getByKey"}
<1>1. PICK x \in Execution : x.pc \in {"idle", "getByKey"} /\ job' = [job EXCEPT ![j] = x]
  BY MovingOn
<1>2. QED
  BY <1>1 DEF PipeTypeOK

\* No execution has read a row at first.
LEMMA InitSole == PipeInit => SoleInv
<1> SUFFICES ASSUME PipeInit PROVE SoleInv
  OBVIOUS
<1>1. RowsAreAsRead
  BY DEF PipeInit, RowsAreAsRead, Ended
<1>2. ExtraDrafts = {} /\ Abandoned = {}
  BY DEF PipeInit, ExtraDrafts, Abandoned
<1>3. QED
  BY <1>1, <1>2, FS_EmptySet DEF SoleInv, DraftsArePaidFor, PipeInit

\* The row an execution works on stays as it read it, until it takes up another.
LEMMA NextRows ==
  ASSUME OneExecution
  PROVE  PipelineInv /\ SoleInv /\ [PipeNext]_pipeVars => RowsAreAsRead'
<1> SUFFICES ASSUME PipelineInv, RowsAreAsRead, [PipeNext]_pipeVars
             PROVE  RowsAreAsRead'
  BY DEF SoleInv
<1>0. PipeTypeOK /\ job \in [Job -> Execution]
  BY DEF PipelineInv, PipeTypeOK
<1>1. ASSUME NEW j \in Job, job'[j].pc \in {"idle", "getByKey"}
      PROVE  RowsAreAsRead'
  BY <1>1 DEF OneExecution, RowsAreAsRead
<1>2. ASSUME NEW j \in Job, NEW c \in HandlerCalls \cup RowCalls, Call(j, c), runs' = runs,
             job[j].pc \notin {"idle", "getByKey"}
      PROVE  RowsAreAsRead'
  <2>1. /\ job'[j].tenant = job[j].tenant /\ job'[j].step = job[j].step
        /\ job'[j].existing = job[j].existing
    BY <1>0, <1>2 DEF Call, Execution
  <2>2. QED
    BY <1>2, <2>1 DEF OneExecution, RowsAreAsRead
<1>3. ASSUME UNCHANGED <<runs, job>>
      PROVE  RowsAreAsRead'
  BY <1>3 DEF RowsAreAsRead
<1>4. ASSUME NEW j \in Job, GetByKey(j)
      PROVE  RowsAreAsRead'
  <2>1. CASE NextStep(j)
    <3>1. job[j].pc # "idle"
      BY <1>4 DEF GetByKey
    <3>2. QED
      BY <1>0, <1>1, <2>1, <3>1, TakesUp
  <2>2. CASE /\ ~AlreadyDone(runs[job[j].tenant][job[j].step])
             /\ job' = [job EXCEPT ![j].pc = "listEntries",
                       ![j].existing = (runs[job[j].tenant][job[j].step] # "absent")]
    <3>1. /\ job'[j].tenant = job[j].tenant /\ job'[j].step = job[j].step
          /\ job'[j].existing <=> runs[job[j].tenant][job[j].step] # "absent"
      BY <1>0, <2>2 DEF Execution
    <3>2. runs' = runs
      BY <1>4 DEF GetByKey
    <3>3. QED
      BY <2>2, <3>1, <3>2 DEF OneExecution, RowsAreAsRead
  <2>3. QED
    BY <1>4, <2>1, <2>2 DEF GetByKey
<1>5. ASSUME NEW j \in Job, ListEntries(j)
      PROVE  RowsAreAsRead'
  <2>1. CASE NextStep(j)
    <3>1. job[j].pc # "idle"
      BY <1>5 DEF ListEntries
    <3>2. QED
      BY <1>0, <1>1, <2>1, <3>1, TakesUp
  <2>2. CASE Call(j, IF job[j].step = "summary" THEN "summarise" ELSE "createDraft")
    BY <1>2, <1>5, <2>2 DEF ListEntries, HandlerCalls
  <2>3. QED
    BY <1>5, <2>1, <2>2 DEF ListEntries
<1>6. ASSUME NEW j \in Job, Summarise(j) \/ CreateDraft(j) \/ QueueSave(j) \/ ItemSave(j)
      PROVE  RowsAreAsRead'
  BY <1>2, <1>6 DEF Summarise, CreateDraft, QueueSave, ItemSave, HandlerCalls, RowCalls
<1>7. ASSUME NEW j \in Job, SaveRun(j)
      PROVE  RowsAreAsRead'
  <2>1. CASE NextStep(j)
    <3>1. job[j].pc # "idle"
      BY <1>7 DEF SaveRun
    <3>2. QED
      BY <1>0, <1>1, <2>1, <3>1, TakesUp
  <2>2. CASE job' = [job EXCEPT ![j] = Ended]
    BY <1>0, <1>1, <2>2 DEF Ended
  <2>3. QED
    BY <1>7, <2>1, <2>2 DEF SaveRun
<1>8. ASSUME NEW j \in Job, CallFails(j) \/ JobDies(j)
      PROVE  RowsAreAsRead'
  <2>1. CASE job' = [job EXCEPT ![j] = Ended]
    BY <1>0, <1>1, <2>1 DEF Ended
  <2>2. CASE Call(j, "saveFailed") /\ job[j].pc \in HandlerCalls
    BY <1>2, <1>8, <2>2 DEF CallFails, JobDies, HandlerCalls, RowCalls
  <2>3. QED
    BY <1>8, <2>1, <2>2 DEF CallFails, JobDies
<1>9. ASSUME NEW j \in Job, StartJob(j)
      PROVE  RowsAreAsRead'
  BY <1>0, <1>1, <1>9, TakesUp DEF StartJob
<1>10. QED
  BY <1>3, <1>4, <1>5, <1>6, <1>7, <1>8, <1>9
  DEF PipeNext, JobStep, WriteEntry, pipeVars

\* A failure or a death pays for the one draft that it leaves abandoned, and
\* that one for the extra draft that is made in its place.
LEMMA NextPaid ==
  ASSUME OneExecution
  PROVE  PipelineInv /\ SoleInv /\ [PipeNext]_pipeVars => DraftsArePaidFor'
<1> SUFFICES ASSUME PipelineInv, SoleInv, [PipeNext]_pipeVars
             PROVE  DraftsArePaidFor'
  OBVIOUS
<1>0. /\ PipeTypeOK /\ job \in [Job -> Execution]
      /\ \A j \in Job : job[j].pc # "idle" => job[j].tenant \in Tenant
      /\ \A j \in Job : Knows(job[j], made, queued, items)
  BY DEF PipelineInv, PipeTypeOK, Execution
<1>a. /\ IsFiniteSet(ExtraDrafts) /\ Cardinality(ExtraDrafts) \in Nat
      /\ IsFiniteSet(Abandoned) /\ Cardinality(Abandoned) \in Nat
      /\ Cardinality(ExtraDrafts) + Cardinality(Abandoned) <= failures + deaths
  BY FS_CardinalityType DEF SoleInv, DraftsArePaidFor
<1>1. ASSUME made' = made, UNCHANGED <<failures, deaths>>, Abandoned' \subseteq Abandoned
      PROVE  DraftsArePaidFor'
  <2>1. ExtraDrafts' = ExtraDrafts
    BY <1>1 DEF ExtraDrafts
  <2>2. /\ IsFiniteSet(Abandoned') /\ Cardinality(Abandoned') \in Nat
        /\ Cardinality(Abandoned') <= Cardinality(Abandoned)
    BY <1>1, <1>a, FS_Subset, FS_CardinalityType
  <2>3. QED
    BY <1>0, <1>1, <1>a, <2>1, <2>2 DEF DraftsArePaidFor, PipeTypeOK
<1>2. ASSUME NEW j \in Job, made' = made, runs' = runs, UNCHANGED <<failures, deaths>>,
             \A t \in Tenant : Tends(job[j], t) => Tends(job'[j], t)
      PROVE  DraftsArePaidFor'
  <2>1. Abandoned' \subseteq Abandoned
    BY <1>2 DEF OneExecution, Abandoned
  <2>2. QED
    BY <1>1, <1>2, <2>1
<1>3. ASSUME UNCHANGED <<runs, made, job, failures, deaths>>
      PROVE  DraftsArePaidFor'
  BY <1>1, <1>3 DEF Abandoned
<1>4. ASSUME NEW j \in Job, StartJob(j) \/ GetByKey(j) \/ ListEntries(j) \/ Summarise(j)
      PROVE  DraftsArePaidFor'
  <2>1. \A t \in Tenant : ~Tends(job[j], t)
    BY <1>4 DEF StartJob, GetByKey, ListEntries, Summarise, Tends
  <2>2. QED
    BY <1>2, <1>4, <2>1 DEF StartJob, GetByKey, ListEntries, Summarise
<1>5. ASSUME NEW j \in Job, QueueSave(j) \/ ItemSave(j)
      PROVE  DraftsArePaidFor'
  <2>1. \A t \in Tenant : Tends(job[j], t) => Tends(job'[j], t)
    BY <1>0, <1>5 DEF QueueSave, ItemSave, Call, Tends, Execution
  <2>2. QED
    BY <1>2, <1>5, <2>1 DEF QueueSave, ItemSave
<1>6. ASSUME NEW j \in Job, SaveRun(j)
      PROVE  DraftsArePaidFor'
  <2> DEFINE t == job[j].tenant
             s == job[j].step
  <2>1. /\ t \in Tenant /\ s \in Step
        /\ ~AlreadyDone(runs[t][s]) /\ (job[j].existing <=> runs[t][s] # "absent")
    BY <1>0, <1>6 DEF SaveRun, SoleInv, RowsAreAsRead, Execution
  <2>2. runs' = [runs EXCEPT ![t][s] = IF job[j].pc = "saveSucceeded"
                                       THEN "succeeded" ELSE "failed"]
    BY <1>6, <2>1 DEF SaveRun
  <2>3. \A u \in Tenant : runs'[u]["linkedin"] # "succeeded" =>
          /\ runs[u]["linkedin"] # "succeeded"
          /\ ~Tends(job[j], u)
    BY <1>0, <1>6, <2>1, <2>2 DEF SaveRun, Tends, AlreadyDone, PipeTypeOK, Step
  <2>4. Abandoned' \subseteq Abandoned
    BY <1>6, <2>3 DEF SaveRun, OneExecution, Abandoned
  <2>5. QED
    BY <1>1, <1>6, <2>4 DEF SaveRun
<1>7. ASSUME NEW j \in Job, CreateDraft(j)
      PROVE  DraftsArePaidFor'
  <2> DEFINE t == job[j].tenant
  <2>1. /\ t \in Tenant /\ job[j].step = "linkedin"
        /\ runs[t]["linkedin"] # "succeeded"
    BY <1>0, <1>7 DEF CreateDraft, Knows, SoleInv, RowsAreAsRead, AlreadyDone
  <2>2. /\ made' = [made EXCEPT ![t] = @ + 1] /\ made[t] \in Nat
        /\ UNCHANGED <<runs, failures, deaths>>
    BY <1>0, <1>7, <2>1 DEF CreateDraft, PipeTypeOK
  <2>3. Tends(job'[j], t) /\ \A u \in Tenant : ~Tends(job[j], u)
    BY <1>0, <1>7, <2>1 DEF CreateDraft, Call, Tends, Execution
  <2>4. Abandoned' \subseteq Abandoned \ {t}
    BY <1>0, <2>2, <2>3 DEF OneExecution, Abandoned, PipeTypeOK
  <2>5. CASE made[t] = 0
    <3>1. ExtraDrafts' = ExtraDrafts
      <4>1. \A u \in Tenant : 2 .. made'[u] = 2 .. made[u]
        BY <1>0, <2>2, <2>5 DEF PipeTypeOK
      <4>2. QED
        BY <4>1 DEF ExtraDrafts
    <3>2. /\ IsFiniteSet(Abandoned') /\ Cardinality(Abandoned') \in Nat
          /\ Cardinality(Abandoned') <= Cardinality(Abandoned)
      BY <1>a, <2>4, FS_Subset, FS_CardinalityType
    <3>3. QED
      BY <1>0, <1>a, <2>2, <3>1, <3>2 DEF DraftsArePaidFor, PipeTypeOK
  <2>6. CASE made[t] > 0
    <3>1. t \in Abandoned
      BY <2>1, <2>3, <2>6 DEF OneExecution, Abandoned
    <3>2. ExtraDrafts' = ExtraDrafts \cup {<<t, made[t] + 1>>}
      <4>1. made'[t] = made[t] + 1 /\ \A u \in Tenant \ {t} : made'[u] = made[u]
        BY <1>0, <2>1, <2>2 DEF PipeTypeOK
      <4>2. 2 .. made'[t] = (2 .. made[t]) \cup {made[t] + 1}
        BY <2>2, <2>6, <4>1
      <4>3. ExtraDrafts' \subseteq ExtraDrafts \cup {<<t, made[t] + 1>>}
        <5>1. ASSUME NEW u \in Tenant, NEW e \in {u} \X (2 .. made'[u])
              PROVE  e \in ExtraDrafts \cup {<<t, made[t] + 1>>}
          <6>1. PICK n \in 2 .. made'[u] : e = <<u, n>>
            BY <5>1
          <6>2. CASE u # t
            BY <4>1, <5>1, <6>2 DEF ExtraDrafts
          <6>3. CASE u = t /\ n \in 2 .. made[t]
            <7>1. e \in {t} \X (2 .. made[t])
              BY <6>1, <6>3
            <7>2. QED
              BY <2>1, <7>1 DEF ExtraDrafts
          <6>4. CASE u = t /\ n = made[t] + 1
            BY <6>1, <6>4
          <6>5. QED
            BY <4>2, <6>1, <6>2, <6>3, <6>4
        <5>2. QED
          BY <5>1 DEF ExtraDrafts
      <4>4. ExtraDrafts \subseteq ExtraDrafts'
        <5>1. ASSUME NEW u \in Tenant, NEW e \in {u} \X (2 .. made[u])
              PROVE  e \in {u} \X (2 .. made'[u])
          BY <4>1, <4>2, <5>1
        <5>2. QED
          BY <5>1 DEF ExtraDrafts
      <4>5. <<t, made[t] + 1>> \in ExtraDrafts'
        <5>1. <<t, made[t] + 1>> \in {t} \X (2 .. made'[t])
          BY <4>2
        <5>2. QED
          BY <2>1, <5>1 DEF ExtraDrafts
      <4>6. QED
        BY <4>3, <4>4, <4>5
    <3>3. /\ IsFiniteSet(ExtraDrafts') /\ Cardinality(ExtraDrafts') \in Nat
          /\ Cardinality(ExtraDrafts') <= Cardinality(ExtraDrafts) + 1
      <4>1. /\ IsFiniteSet(ExtraDrafts')
            /\ \/ Cardinality(ExtraDrafts') = Cardinality(ExtraDrafts)
               \/ Cardinality(ExtraDrafts') = Cardinality(ExtraDrafts) + 1
        BY <1>a, <3>2, FS_AddElement
      <4>2. QED
        BY <1>a, <4>1
    <3>4. /\ IsFiniteSet(Abandoned \ {t})
          /\ Cardinality(Abandoned \ {t}) = Cardinality(Abandoned) - 1
      BY <1>a, <3>1, FS_RemoveElement
    <3>5. /\ IsFiniteSet(Abandoned') /\ Cardinality(Abandoned') \in Nat
          /\ Cardinality(Abandoned') <= Cardinality(Abandoned) - 1
      BY <2>4, <3>4, FS_Subset, FS_CardinalityType
    <3>6. QED
      BY <1>0, <1>a, <2>2, <3>3, <3>5 DEF DraftsArePaidFor, PipeTypeOK
  <2>7. QED
    BY <2>2, <2>5, <2>6
<1>8. ASSUME NEW j \in Job, CallFails(j) \/ JobDies(j)
      PROVE  DraftsArePaidFor'
  <2> DEFINE t == job[j].tenant
  <2>1. UNCHANGED <<made, runs>>
    BY <1>8 DEF CallFails, JobDies
  <2>2. failures \in Nat /\ deaths \in Nat
    BY <1>0 DEF PipeTypeOK
  <2>3. failures' + deaths' = failures + deaths + 1
    <3>1. CASE CallFails(j)
      BY <2>2, <3>1 DEF CallFails
    <3>2. CASE JobDies(j)
      BY <2>2, <3>2 DEF JobDies
    <3>3. QED
      BY <1>8, <3>1, <3>2
  <2>4. Abandoned' \subseteq Abandoned \cup {t}
    BY <2>1 DEF OneExecution, Abandoned, Tends
  <2>5. /\ IsFiniteSet(Abandoned \cup {t})
        /\ Cardinality(Abandoned \cup {t}) <= Cardinality(Abandoned) + 1
    BY <1>a, FS_AddElement
  <2>6. /\ IsFiniteSet(Abandoned') /\ Cardinality(Abandoned') \in Nat
        /\ Cardinality(Abandoned') <= Cardinality(Abandoned \cup {t})
    BY <2>4, <2>5, FS_Subset, FS_CardinalityType
  <2>7. Cardinality(Abandoned \cup {t}) \in Nat
    BY <2>5, FS_CardinalityType
  <2>8. Cardinality(Abandoned') <= Cardinality(Abandoned) + 1
    BY <1>a, <2>5, <2>6, <2>7
  <2>9. Cardinality(ExtraDrafts) + Cardinality(Abandoned') <= failures + deaths + 1
    BY <1>a, <2>2, <2>6, <2>8
  <2>10. ExtraDrafts' = ExtraDrafts
    BY <2>1 DEF ExtraDrafts
  <2>11. QED
    BY <1>a, <2>3, <2>6, <2>9, <2>10 DEF DraftsArePaidFor
<1>9. QED
  BY <1>3, <1>4, <1>5, <1>6, <1>7, <1>8
  DEF PipeNext, JobStep, WriteEntry, pipeVars

LEMMA SoleCorrect ==
  ASSUME OneExecution
  PROVE  PipeSpec => [](PipelineInv /\ SoleInv)
<1>1. PipelineInv /\ SoleInv /\ [PipeNext]_pipeVars => (PipelineInv /\ SoleInv)'
  BY NextPipeline, NextRows, NextPaid DEF SoleInv
<1>2. QED
  BY InitPipeline, InitSole, <1>1, PTL DEF PipeSpec

\* "re-rodar o job no mesmo dia nao duplica": with one execution at a time,
\* every draft of the day beyond a tenant's first is paid for by a call that
\* failed or an execution that died, whichever calls those were and however
\* often the job is run again.
THEOREM DuplicatesArePaidFor ==
  ASSUME OneExecution
  PROVE  PipeSpec => []DuplicatesHaveACause
<1>1. PipelineInv /\ SoleInv => DuplicatesHaveACause
  <2> SUFFICES ASSUME PipelineInv, SoleInv
               PROVE  DuplicatesHaveACause
    OBVIOUS
  <2>1. Cardinality(ExtraDrafts) \in Nat /\ Cardinality(Abandoned) \in Nat
    BY FS_CardinalityType DEF SoleInv, DraftsArePaidFor
  <2>2. QED
    BY <2>1
    DEF SoleInv, DraftsArePaidFor, DuplicatesHaveACause, PipelineInv, PipeTypeOK
<1>2. QED
  BY <1>1, SoleCorrect, PTL

\* With one execution at a time a step that succeeded is never recorded as
\* anything else, however often the job is run again.
THEOREM SuccessStays ==
  ASSUME OneExecution
  PROVE  PipeSpec => SucceededIsFinal
<1> DEFINE Stays == \A t \in Tenant, s \in Step :
                      runs[t][s] = "succeeded" => runs'[t][s] = "succeeded"
<1>1. PipelineInv /\ SoleInv /\ [PipeNext]_pipeVars => [Stays]_pipeVars
  <2> SUFFICES ASSUME PipelineInv, SoleInv, PipeNext
               PROVE  Stays
    OBVIOUS
  <2>1. ASSUME runs' = runs
        PROVE  Stays
    BY <2>1
  <2>2. ASSUME NEW j \in Job, SaveRun(j)
        PROVE  Stays
    <3>1. job[j].tenant \in Tenant /\ job[j].step \in Step
      BY <2>2 DEF SaveRun, PipelineInv, PipeTypeOK, Execution
    <3>2. runs[job[j].tenant][job[j].step] # "succeeded"
      BY <2>2 DEF SaveRun, SoleInv, RowsAreAsRead, AlreadyDone
    <3>3. QED
      BY <2>1, <2>2, <3>1, <3>2 DEF SaveRun, PipelineInv, PipeTypeOK
  <2>3. QED
    BY <2>1, <2>2
    DEF PipeNext, JobStep, WriteEntry, StartJob, GetByKey, ListEntries, Summarise,
        CreateDraft, QueueSave, ItemSave, CallFails, JobDies
<1>2. QED
  BY <1>1, SoleCorrect, PTL DEF PipeSpec, SucceededIsFinal

\* "Um step que falha nao derruba os demais tenants": whichever calls fail and
\* however many executions overlap, an execution that is not killed ends before
\* its last tenant only because of a call on the row of a step.
THEOREM FailuresAreContained == PipeSpec => FailureIsContained
<1> DEFINE Excused(j) ==
             /\ job[j].pc \in RowCalls
             /\ \/ failures' # failures
                \/ ~job[j].existing /\ runs[job[j].tenant][job[j].step] # "absent"
           Contained == \A j \in Job : EndsEarly(j) => Excused(j)
<1>1. PipelineInv /\ [PipeNext]_pipeVars => [Contained]_pipeVars
  <2> SUFFICES ASSUME PipelineInv, PipeNext, NEW j \in Job, EndsEarly(j)
               PROVE  Excused(j)
    OBVIOUS
  <2>0. /\ job \in [Job -> Execution] /\ deaths \in Nat /\ failures \in Nat
        /\ job[j].pc # "idle" /\ job'[j].pc = "idle" /\ deaths' = deaths
        /\ ~(job[j].todo = {} /\ job[j].step = "linkedin")
    BY DEF PipelineInv, PipeTypeOK, EndsEarly
  <2>1. ASSUME NEW k \in Job, NEW x, job' = [job EXCEPT ![k] = x]
        PROVE  k = j /\ x.pc = "idle"
    BY <2>0, <2>1
  <2>2. ASSUME NEW k \in Job, NEW c \in HandlerCalls \cup RowCalls
        PROVE  ~Call(k, c)
    <3>1. SUFFICES ASSUME Call(k, c)
                   PROVE  FALSE
      OBVIOUS
    <3>2. job' = [job EXCEPT ![k] = [job[k] EXCEPT !.pc = c]]
      BY <3>1 DEF Call
    <3>3. c = "idle"
      BY <2>0, <2>1, <3>2 DEF Execution
    <3>4. QED
      BY <2>2, <3>3 DEF HandlerCalls, RowCalls
  <2>3. ASSUME NEW k \in Job, NEW todo, NextTenant(k, todo)
        PROVE  k = j /\ todo = {}
    <3>1. ASSUME NEW t \in todo,
                 job' = [job EXCEPT ![k] =
                           [pc |-> "getByKey", todo |-> todo \ {t}, tenant |-> t,
                            step |-> "summary", existing |-> FALSE]]
          PROVE  FALSE
      <4>1. PICK x : x = [pc |-> "getByKey", todo |-> todo \ {t}, tenant |-> t,
                          step |-> "summary", existing |-> FALSE]
        OBVIOUS
      <4>2. x.pc = "getByKey" /\ job' = [job EXCEPT ![k] = x]
        BY <3>1, <4>1
      <4>3. QED
        BY <2>1, <4>2
    <3>2. CASE todo = {} /\ job' = [job EXCEPT ![k] = Ended]
      BY <2>1, <3>2
    <3>3. QED
      BY <2>3, <3>1, <3>2 DEF NextTenant
  <2>4. ASSUME NEW k \in Job
        PROVE  ~NextStep(k)
    <3>1. ASSUME job[k].step = "summary",
                 job' = [job EXCEPT ![k].step = "linkedin", ![k].pc = "getByKey",
                                    ![k].existing = FALSE]
          PROVE  FALSE
      <4>1. job'[k].pc = "getByKey" /\ \A i \in Job : i # k => job'[i] = job[i]
        BY <2>0, <3>1 DEF Execution
      <4>2. QED
        BY <2>0, <4>1
    <3>2. ASSUME job[k].step = "linkedin", NextTenant(k, job[k].todo)
          PROVE  FALSE
      BY <2>0, <2>3, <3>2
    <3>3. QED
      BY <3>1, <3>2 DEF NextStep
  <2>5. ASSUME NEW k \in Job
        PROVE  ~StartJob(k) /\ ~JobDies(k)
    <3>1. ~StartJob(k)
      BY <2>3 DEF StartJob
    <3>2. ~JobDies(k)
      BY <2>0 DEF JobDies
    <3>3. QED
      BY <3>1, <3>2
  <2>6. ASSUME NEW k \in Job
        PROVE  /\ ~GetByKey(k) /\ ~ListEntries(k)
               /\ ~Summarise(k) /\ ~CreateDraft(k) /\ ~QueueSave(k) /\ ~ItemSave(k)
    <3>1. ASSUME NEW b, job' = [job EXCEPT ![k].pc = "listEntries", ![k].existing = b]
          PROVE  FALSE
      <4>1. job'[k].pc = "listEntries" /\ \A i \in Job : i # k => job'[i] = job[i]
        BY <2>0, <3>1 DEF Execution
      <4>2. QED
        BY <2>0, <4>1
    <3>2. ~GetByKey(k)
      BY <2>4, <3>1 DEF GetByKey
    <3>3. ~ListEntries(k)
      BY <2>2, <2>4 DEF ListEntries, HandlerCalls
    <3>4. ~Summarise(k) /\ ~CreateDraft(k) /\ ~QueueSave(k) /\ ~ItemSave(k)
      BY <2>2 DEF Summarise, CreateDraft, QueueSave, ItemSave, HandlerCalls, RowCalls
    <3>5. QED
      BY <3>2, <3>3, <3>4
  <2>7. ASSUME NEW k \in Job, SaveRun(k)
        PROVE  Excused(j)
    <3>1. /\ job[k].pc \in {"saveSucceeded", "saveFailed"}
          /\ ~job[k].existing /\ runs[job[k].tenant][job[k].step] # "absent"
          /\ job' = [job EXCEPT ![k] = Ended]
      BY <2>4, <2>7 DEF SaveRun
    <3>2. k = j
      BY <2>1, <3>1
    <3>3. QED
      BY <3>1, <3>2 DEF RowCalls
  <2>8. ASSUME NEW k \in Job, CallFails(k)
        PROVE  Excused(j)
    <3>1. job[k].pc \notin HandlerCalls /\ job' = [job EXCEPT ![k] = Ended]
      BY <2>2, <2>8 DEF CallFails, RowCalls
    <3>2. k = j /\ job[k].pc \in RowCalls
      BY <2>1, <2>8, <3>1, PipelineAssumption DEF CallFails
    <3>3. failures' # failures
      BY <2>0, <2>8 DEF CallFails
    <3>4. QED
      BY <3>2, <3>3
  <2>9. ASSUME NEW t \in Tenant, WriteEntry(t)
        PROVE  FALSE
    BY <2>0, <2>9 DEF WriteEntry
  <2>10. QED
    BY <2>5, <2>6, <2>7, <2>8, <2>9 DEF PipeNext, JobStep
<1>2. QED
  BY <1>1, InitPipeline, NextPipeline, PTL DEF PipeSpec, FailureIsContained

=============================================================================
