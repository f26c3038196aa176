--------------------------- MODULE JobSystemProofs ---------------------------
(***************************************************************************)
(* Theorems about JobSystem, for every number of jobs, workers, branches   *)
(* and commits, and every budget of faults and crashes.                    *)
(***************************************************************************)
EXTENDS JobSystem, TLAPS, FiniteSetTheorems

-----------------------------------------------------------------------------
(* Types.  What the queries and the helpers of the worker leave well typed. *)

\* The empty rows and locals that steps start from are well typed.
LEMMA JobRowTypes ==
    /\ 1 \in JobIds
    /\ JobIds \subseteq Nat
    /\ \A status \in Statuses : Blank(status) \in JobRow
    /\ NoLocals \in Locals
    /\ NoBox \in Box
BY DBAssumption DEF JobIds, Statuses, Terminal, Success, Blank, JobRow, Triggers,
   NoLocals, Locals, NoBox, Box, Branches, Cells

\* Leaving a job keeps the worker's variables well typed.
LEMMA LeaveTypes ==
    ASSUME NEW w \in Workers, Leave(w),
           pc \in [Workers -> Steps], wk \in [Workers -> Locals], box \in [Workers -> Box]
    PROVE  /\ pc' \in [Workers -> Steps]
           /\ wk' \in [Workers -> Locals]
           /\ box' \in [Workers -> Box]
BY JobRowTypes DEF Leave, Goto, Steps

\* An update of a row of jobs gives a table of rows.
LEMMA UpdateTypes ==
    ASSUME NEW j \in JobIds, NEW status \in Statuses,
           NEW branch \in Branches \cup {NoBranch}, NEW sha \in Nat, NEW hash \in Nat,
           NEW pr \in BOOLEAN, jobs \in [JobIds -> JobRow],
           UpdateJobStatus(j, status, branch, sha, hash, pr)
    PROVE  jobs' \in [JobIds -> JobRow]
BY DEF UpdateJobStatus, JobRow

\* CreateJob gives a table of rows, wherever the job comes from.
LEMMA CreateTypes ==
    ASSUME NEW j \in JobIds, NEW r \in Repos, NEW trigger \in Triggers,
           NEW b \in Branches, jobs \in [JobIds -> JobRow],
           CreateJobWithBranch(j, r, trigger, b)
    PROVE  jobs' \in [JobIds -> JobRow]
<1>1. Blank("pending") \in JobRow
  BY JobRowTypes DEF Statuses
<1>2. [Blank("pending") EXCEPT !.repo = r, !.trigger = trigger, !.branch = b] \in JobRow
  BY <1>1 DEF JobRow
<1> QED
  BY <1>2 DEF CreateJobWithBranch

\* A purge gives tables of rows.
LEMMA PurgeTypes ==
    ASSUME NEW r \in Repos, DBTypeOK, PurgeRows(r)
    PROVE  /\ jobs' \in [JobIds -> JobRow]
           /\ usage' \subseteq JobIds
           /\ cells' \in [Repos -> Cells]
<1>1. Blank("deleted") \in JobRow
  BY JobRowTypes DEF Statuses
<1> QED
  BY <1>1 DEF PurgeRows, DBTypeOK, Cells

\* The three outcomes of a subprocess, and what follows each, are well typed.
LEMMA ExitTypes ==
    ASSUME NEW w \in Workers, NEW result \in {"none", "partial", "ok", "review"},
           Exit(w, result), pc \in [Workers -> Steps], box \in [Workers -> Box]
    PROVE  pc' \in [Workers -> Steps] /\ box' \in [Workers -> Box]
<1>1. box[w] \in Box
  OBVIOUS
<1>2. [box[w] EXCEPT !.try = 2, !.phase = "start", !.result = result] \in Box
  BY <1>1 DEF Box
<1>3. [box[w] EXCEPT !.phase = "off", !.result = result] \in Box
  BY <1>1 DEF Box
<1>4. "report" \in Steps
  BY DEF Steps
<1> QED
  BY <1>2, <1>3, <1>4 DEF Exit, Goto

\* A worker whose process died, with or without its directories.
LEMMA AbandonedTypes ==
    ASSUME NEW w \in Workers, WorkerTypeOK
    PROVE  Abandoned(w) \subseteq (JobIds \X Repos)
BY DEF Abandoned, WorkerTypeOK, Locals

\* A push of the box's branch gives a set of branches of GitHub.
LEMMA PushBranchTypes ==
    ASSUME NEW j \in JobIds, NEW r \in Repos, WorkerTypeOK, PushBranch(j, r)
    PROVE  /\ commits' \in [Repos -> Nat]
           /\ head' \in [Repos -> [Branches -> Nat]]
           /\ prs' \subseteq PRs
<1>1. commits[r] + 1 \in Nat
  BY DEF WorkerTypeOK
<1>2. [head[r] EXCEPT ![j] = commits[r] + 1] \in [Branches -> Nat]
  BY <1>1 DEF WorkerTypeOK
<1> QED
  BY <1>1, <1>2 DEF PushBranch, WorkerTypeOK

-----------------------------------------------------------------------------
(* The type invariant *)

\* The initial states are well typed.
LEMMA InitTypes == WorkerInit => WorkerTypeOK
<1> SUFFICES ASSUME WorkerInit PROVE WorkerTypeOK
  OBVIOUS
<1>1. jobs \in [JobIds -> JobRow]
  BY JobRowTypes DEF WorkerInit, DBInit, Statuses
<1>2. DBTypeOK
  BY <1>1 DEF WorkerInit, DBInit, DBTypeOK, Cells
<1>3. head \in [Repos -> [Branches -> Nat]]
  BY DEF WorkerInit
<1>4. /\ pc \in [Workers -> Steps]
      /\ wk \in [Workers -> Locals]
      /\ box \in [Workers -> Box]
  BY JobRowTypes DEF WorkerInit, Steps
<1> QED
  BY <1>2, <1>3, <1>4 DEF WorkerInit, WorkerTypeOK

\* Every step of a worker keeps the types: one step of the proof per action.
LEMMA WorkerStepTypes ==
    ASSUME WorkerTypeOK, NEW w \in Workers, WorkerStep(w)
    PROVE  WorkerTypeOK'
<1> USE DEF DBTypeOK
<1>0. /\ wk[w] \in Locals
      /\ box[w] \in Box
      /\ wk[w].job \in JobIds
      /\ wk[w].repo \in Repos
  BY DEF WorkerTypeOK, Locals
<1>1. CASE Claim(w)
  <2>1. PICK j \in JobIds :
           /\ ClaimNextPendingJob(j)
           /\ wk' = [wk EXCEPT ![w] = [NoLocals EXCEPT !.job = j, !.repo = jobs[j].repo,
                                                       !.trigger = jobs[j].trigger,
                                                       !.branch = jobs[j].branch]]
    BY <1>1 DEF Claim
  <2>2. jobs[j] \in JobRow
    BY DEF WorkerTypeOK
  <2>3. [jobs[j] EXCEPT !.status = "running"] \in JobRow
    BY <2>2 DEF JobRow, Statuses
  <2>4. jobs' \in [JobIds -> JobRow]
    BY <2>1, <2>3 DEF WorkerTypeOK, ClaimNextPendingJob
  <2>5. [NoLocals EXCEPT !.job = j, !.repo = jobs[j].repo, !.trigger = jobs[j].trigger,
                         !.branch = jobs[j].branch] \in Locals
    BY <2>2, JobRowTypes DEF Locals, JobRow
  <2> QED
    BY <1>1, <2>1, <2>4, <2>5
    DEF Claim, Goto, WorkerTypeOK, Steps, ghVars, budgetVars
<1>2. CASE ClaimUnread(w)
  <2>1. PICK j \in JobIds : ClaimNextPendingJob(j)
    BY <1>2 DEF ClaimUnread
  <2>2. [jobs[j] EXCEPT !.status = "running"] \in JobRow
    BY DEF WorkerTypeOK, JobRow, Statuses
  <2>3. jobs' \in [JobIds -> JobRow]
    BY <2>1, <2>2 DEF WorkerTypeOK, ClaimNextPendingJob
  <2> QED
    BY <1>2, <2>3 DEF ClaimUnread, DBFault, WorkerTypeOK, ghVars, workVars
<1>3. CASE Resolve(w)
  <2>1. repos[wk[w].repo].ver \in Nat
    BY <1>0 DEF WorkerTypeOK
  <2>2. (IF wk[w].branch = NoBranch THEN DefaultBranch ELSE wk[w].branch) \in Branches
    BY <1>0, DBAssumption DEF Locals, Branches
  <2>3. [wk[w] EXCEPT !.hash = repos[wk[w].repo].ver,
                      !.base = IF wk[w].branch = NoBranch THEN DefaultBranch
                               ELSE wk[w].branch] \in Locals
    BY <1>0, <2>1, <2>2 DEF Locals
  <2>4. wk' \in [Workers -> Locals]
    BY <1>3, <2>3 DEF Resolve, WorkerTypeOK
  <2> QED
    BY <1>3, <2>4 DEF Resolve, Goto, WorkerTypeOK, Steps, dbVars, ghVars, budgetVars
<1>4. CASE FetchMirror(w)
  <2>1. head[wk[w].repo][wk[w].base] \in Nat
    BY <1>0 DEF WorkerTypeOK, Locals
  <2>2. [wk[w] EXCEPT !.sha = head[wk[w].repo][wk[w].base]] \in Locals
    BY <1>0, <2>1 DEF Locals
  <2> QED
    BY <1>4, <2>2
    DEF FetchMirror, Goto, WorkerTypeOK, Steps, dbVars, ghVars, budgetVars
<1>5. CASE CheckDuplicate(w)
  BY <1>5 DEF CheckDuplicate, Goto, WorkerTypeOK, Steps, dbVars, ghVars, budgetVars
<1>6. CASE RecordSkip(w)
  <2>1. jobs' \in [JobIds -> JobRow]
    BY <1>0, <1>6, UpdateTypes
    DEF RecordSkip, WorkerTypeOK, Locals, Statuses, Terminal
  <2> QED
    BY <1>6, <2>1, LeaveTypes DEF RecordSkip, WorkerTypeOK, ghVars, budgetVars
<1>7. CASE Clone(w)
  <2>1. wk' \in [Workers -> Locals]
    <3>1. [wk[w] EXCEPT !.cell = cells[wk[w].repo]] \in Locals
      BY <1>0 DEF WorkerTypeOK, Locals
    <3> QED
      BY <1>7, <3>1 DEF Clone, WorkerTypeOK
  <2>2. box' \in [Workers -> Box]
    <3>1. \A try \in {1, 2} : [box[w] EXCEPT !.try = try, !.phase = "start"] \in Box
      BY <1>0 DEF Box
    <3> QED
      BY <1>7, <3>1 DEF Clone, WorkerTypeOK
  <2>3. faults' \in Nat
    BY <1>7 DEF Clone, DBFault, WorkerTypeOK
  <2> QED
    BY <1>7, <2>1, <2>2, <2>3 DEF Clone, Goto, WorkerTypeOK, Steps, dbVars, ghVars
<1>8. CASE StepFails(w)
  BY <1>8 DEF StepFails, Goto, WorkerTypeOK, Steps, dbVars, ghVars, budgetVars
<1>9. CASE BoxStep(w)
  <2>1. CASE BoxBranch(w)
    <3>1. [box[w] EXCEPT !.phase = "branched", !.made = TRUE] \in Box
      BY <1>0 DEF Box
    <3>2. box[w].result \in {"none", "partial", "ok", "review"}
      BY <1>0 DEF Box
    <3>3. pc' \in [Workers -> Steps] /\ box' \in [Workers -> Box]
      BY <2>1, <3>1, <3>2, ExitTypes DEF BoxBranch, WorkerTypeOK
    <3> QED
      BY <2>1, <3>3 DEF BoxBranch, WorkerTypeOK, dbVars, ghVars, budgetVars
  <2>2. CASE BoxPush(w)
    <3>1. [box[w] EXCEPT !.phase = "pushed"] \in Box
      BY <1>0 DEF Box
    <3>2. box' \in [Workers -> Box]
      BY <2>2, <3>1 DEF BoxPush, WorkerTypeOK
    <3> QED
      BY <1>0, <2>2, <3>2, PushBranchTypes
      DEF BoxPush, WorkerTypeOK, dbVars, budgetVars
  <2>3. CASE BoxFails(w)
    <3>1. PICK result \in {"partial", "review"} : Exit(w, result)
      BY <2>3 DEF BoxFails
    <3>2. pc' \in [Workers -> Steps] /\ box' \in [Workers -> Box]
      BY <3>1, ExitTypes DEF WorkerTypeOK
    <3> QED
      BY <2>3, <3>2 DEF BoxFails, WorkerTypeOK, dbVars, ghVars, budgetVars
  <2>4. CASE BoxReport(w)
    <3>1. \A result \in {"ok", "review"} :
             [box[w] EXCEPT !.phase = "reported", !.result = result] \in Box
      BY <1>0 DEF Box
    <3>2. box' \in [Workers -> Box]
      BY <2>4, <3>1 DEF BoxReport, WorkerTypeOK
    <3> QED
      BY <2>4, <3>2 DEF BoxReport, WorkerTypeOK, dbVars, ghVars, budgetVars
  <2>5. CASE BoxDone(w)
    <3>1. [box[w] EXCEPT !.phase = "off"] \in Box
      BY <1>0 DEF Box
    <3> QED
      BY <2>5, <3>1 DEF BoxDone, Goto, WorkerTypeOK, Steps, dbVars, ghVars, budgetVars
  <2>6. CASE BoxDies(w)
    <3>1. box[w].result \in {"none", "partial", "ok", "review"}
      BY <1>0 DEF Box
    <3>2. pc' \in [Workers -> Steps] /\ box' \in [Workers -> Box]
      BY <2>6, <3>1, ExitTypes DEF BoxDies, WorkerTypeOK
    <3> QED
      BY <2>6, <3>2 DEF BoxDies, WorkerTypeOK, dbVars, ghVars, budgetVars
  <2>7. CASE BoxTimeout(w)
    <3>1. [box[w] EXCEPT !.phase = "off"] \in Box
      BY <1>0 DEF Box
    <3>2. [wk[w] EXCEPT !.late = TRUE] \in Locals
      BY <1>0 DEF Locals
    <3>3. strays' \subseteq (JobIds \X Repos)
      BY <2>7, AbandonedTypes DEF BoxTimeout, WorkerTypeOK
    <3> QED
      BY <2>7, <3>1, <3>2, <3>3
      DEF BoxTimeout, Goto, WorkerTypeOK, Steps, dbVars, ghVars, budgetVars
  <2> QED
    BY <1>9, <2>1, <2>2, <2>3, <2>4, <2>5, <2>6, <2>7 DEF BoxStep
<1>10. CASE ReadResult(w)
  BY <1>10 DEF ReadResult, Goto, WorkerTypeOK, Steps, dbVars, ghVars, budgetVars
<1>11. CASE RecordNoResult(w)
  <2>1. jobs' \in [JobIds -> JobRow]
    BY <1>0, <1>11, UpdateTypes
    DEF RecordNoResult, WorkerTypeOK, Locals, Branches, Statuses, Terminal
  <2> QED
    BY <1>11, <2>1, LeaveTypes DEF RecordNoResult, WorkerTypeOK, ghVars, budgetVars
<1>12. CASE CreatePullRequest(w)
  <2>1. PullRequest(w) \in PRs
    BY <1>0 DEF PullRequest, PRs, Locals
  <2>2. /\ [wk[w] EXCEPT !.pr = TRUE] \in Locals
        /\ [wk[w] EXCEPT !.err = TRUE] \in Locals
    BY <1>0 DEF Locals
  <2>3. wk' \in [Workers -> Locals]
    BY <1>12, <2>2 DEF CreatePullRequest, WorkerTypeOK
  <2> QED
    BY <1>12, <2>1, <2>3
    DEF CreatePullRequest, Goto, WorkerTypeOK, Steps, dbVars, budgetVars
<1>13. CASE CreateFails(w)
  <2>1. [wk[w] EXCEPT !.err = TRUE] \in Locals
    BY <1>0 DEF Locals
  <2> QED
    BY <1>13, <2>1
    DEF CreateFails, Goto, WorkerTypeOK, Steps, dbVars, ghVars, budgetVars
<1>14. CASE Annotate(w)
  <2>1. \A failed \in BOOLEAN : [wk[w] EXCEPT !.err = failed] \in Locals
    BY <1>0 DEF Locals
  <2> QED
    BY <1>14, <2>1 DEF Annotate, Goto, WorkerTypeOK, Steps, dbVars, ghVars, budgetVars
<1>15. CASE SaveResult(w)
  <2>1. ResultCell(w) \in Cells
    BY DEF ResultCell, Cells
  <2>2. cells' \in [Repos -> Cells]
    BY <1>15, <2>1 DEF SaveResult, UpsertTranslationMatrix, WorkerTypeOK
  <2>3. usage' \subseteq JobIds
    BY <1>0, <1>15 DEF SaveResult, RecordJobTokenUsage, WorkerTypeOK
  <2> QED
    BY <1>15, <2>2, <2>3 DEF SaveResult, Goto, WorkerTypeOK, Steps, ghVars, budgetVars
<1>16. CASE RecordFinal(w)
  <2>1. FinalStatus(w) \in Statuses
    BY DEF FinalStatus, Statuses, Terminal, Success
  <2>2. jobs' \in [JobIds -> JobRow]
    BY <1>0, <1>16, <2>1, UpdateTypes DEF RecordFinal, WorkerTypeOK, Locals, Branches
  <2> QED
    BY <1>16, <2>2, LeaveTypes DEF RecordFinal, WorkerTypeOK, ghVars, budgetVars
<1>17. CASE RecordFails(w)
  BY <1>17 DEF RecordFails, DBFault, Goto, WorkerTypeOK, Steps, dbVars, ghVars
<1>18. CASE RecordFailure(w)
  <2>1. jobs' \in [JobIds -> JobRow]
    BY <1>0, <1>18, UpdateTypes
    DEF RecordFailure, WorkerTypeOK, Locals, Statuses, Terminal
  <2> QED
    BY <1>18, <2>1, LeaveTypes DEF RecordFailure, WorkerTypeOK, ghVars, budgetVars
<1>19. CASE GiveUp(w)
  BY <1>19, LeaveTypes DEF GiveUp, DBFault, WorkerTypeOK, dbVars, ghVars
<1> QED
  BY <1>1, <1>2, <1>3, <1>4, <1>5, <1>6, <1>7, <1>8, <1>9, <1>10, <1>11, <1>12, <1>13,
     <1>14, <1>15, <1>16, <1>17, <1>18, <1>19 DEF WorkerStep

\* So do the calls of users, by tables ...
LEMMA ApiTypes ==
    ASSUME WorkerTypeOK, NEW r \in Repos, Api(r)
    PROVE  WorkerTypeOK'
<1> USE DEF DBTypeOK
<1>1. ASSUME UpsertRepoSettings(r) PROVE repos' \in [Repos -> [live : BOOLEAN, ver : Nat]]
  BY <1>1 DEF UpsertRepoSettings, WorkerTypeOK
<1>2. CASE QueueJob(r)
  <2>1. PICK b \in Branches :
           \/ TriggerJob(r, b)
           \/ \E trigger \in Sources \ {"manual"} : WebhookJob(r, trigger, b)
    BY <1>2 DEF QueueJob
  <2>2. CASE TriggerJob(r, b)
    <3>1. jobs' \in [JobIds -> JobRow]
      BY <2>2, CreateTypes DEF TriggerJob, WorkerTypeOK, Triggers
    <3> QED
      BY <1>1, <2>2, <3>1 DEF TriggerJob, WorkerTypeOK, ghVars, workVars, budgetVars
  <2>3. CASE \E trigger \in Sources \ {"manual"} : WebhookJob(r, trigger, b)
    <3>1. PICK trigger \in Triggers : WebhookJob(r, trigger, b)
      BY <2>3, SourcesAssumption
    <3>2. jobs' \in [JobIds -> JobRow]
      BY <3>1, CreateTypes DEF WebhookJob, WorkerTypeOK
    <3> QED
      BY <3>1, <3>2 DEF WebhookJob, WorkerTypeOK, ghVars, workVars, budgetVars
  <2> QED
    BY <2>1, <2>2, <2>3
<1>3. CASE SaveSettings(r)
  BY <1>1, <1>3 DEF SaveSettings, WorkerTypeOK, ghVars, workVars, budgetVars
<1>4. CASE EditCell(r)
  <2>1. cells' \in [Repos -> Cells]
    BY <1>4 DEF EditCell, UpsertTranslationMatrix, WorkerTypeOK, Cells
  <2> QED
    BY <1>4, <2>1 DEF EditCell, WorkerTypeOK, ghVars, workVars, budgetVars
<1>5. CASE Reset(r)
  BY <1>5, PurgeTypes
  DEF Reset, ResetRepoData, WorkerTypeOK, ghVars, workVars, budgetVars
<1>6. CASE Delete(r)
  <2>1. repos' \in [Repos -> [live : BOOLEAN, ver : Nat]]
    BY <1>6 DEF Delete, DeleteRepo, WorkerTypeOK
  <2> QED
    BY <1>6, <2>1, PurgeTypes
    DEF Delete, DeleteRepo, WorkerTypeOK, ghVars, workVars, budgetVars
<1> QED
  BY <1>2, <1>3, <1>4, <1>5, <1>6 DEF Api

\* ... and everything else.
LEMMA NextTypes == WorkerTypeOK /\ [Next]_workerVars => WorkerTypeOK'
<1> SUFFICES ASSUME WorkerTypeOK, [Next]_workerVars PROVE WorkerTypeOK'
  OBVIOUS
<1> USE DEF DBTypeOK
<1>1. CASE \E w \in Workers : WorkerStep(w)
  BY <1>1, WorkerStepTypes
<1>2. CASE \E w \in Workers : Crash(w)
  <2>1. PICK w \in Workers : Crash(w)
    BY <1>2
  <2>2. strays' \subseteq (JobIds \X Repos)
    BY <2>1, AbandonedTypes DEF Crash, WorkerTypeOK
  <2> QED
    BY <2>1, <2>2, LeaveTypes DEF Crash, WorkerTypeOK, dbVars, ghVars
<1>3. CASE StrayPush
  <2>1. PICK s \in strays : /\ strays' = strays \ {s}
                            /\ PushBranch(s[1], s[2])
                            /\ UNCHANGED <<dbVars, pc, wk, box, budgetVars>>
    BY <1>3 DEF StrayPush
  <2>2. s[1] \in JobIds /\ s[2] \in Repos
    BY DEF WorkerTypeOK
  <2> QED
    BY <2>1, <2>2, PushBranchTypes DEF WorkerTypeOK, dbVars, budgetVars
<1>4. CASE \E r \in Repos : Api(r)
  BY <1>4, ApiTypes
<1>5. CASE \E r \in Repos, b \in Bases : DevPush(r, b)
  <2>1. PICK r \in Repos, b \in Bases : DevPush(r, b)
    BY <1>5
  <2>2. commits[r] + 1 \in Nat
    BY DEF WorkerTypeOK
  <2>3. [head[r] EXCEPT ![b] = commits[r] + 1] \in [Branches -> Nat]
    BY <2>2 DEF WorkerTypeOK
  <2> QED
    BY <2>1, <2>2, <2>3 DEF DevPush, WorkerTypeOK, dbVars, workVars, budgetVars
<1>6. CASE UNCHANGED workerVars
  BY <1>6 DEF WorkerTypeOK, workerVars, dbVars, ghVars, workVars, budgetVars
<1> QED
  BY <1>1, <1>2, <1>3, <1>4, <1>5, <1>6 DEF Next

\* The tables, GitHub and the workers hold what they should, always.
THEOREM TypeCorrect == Spec => []WorkerTypeOK
BY InitTypes, NextTypes, PTL DEF Spec

-----------------------------------------------------------------------------
(* Exclusive claims.  ExclusiveRun is inductive together with the types: a     *)
(* row leaves "running" only by the update with which its worker leaves it, by *)
(* a purge, which deletes it, or when its worker dies and forgets it.          *)

Held == {"running", "deleted"}

\* Rows that are running or deleted stay so.
KeepsHeld == \A j \in JobIds : jobs[j].status \in Held => jobs'[j].status \in Held

\* No worker takes up a job or changes to another.
KeepsJobs == \A v \in Workers : Busy(v)' => Busy(v) /\ wk'[v].job = wk[v].job

\* The job a worker names is a job, even while it is idle.
LEMMA BusyJob ==
    ASSUME WorkerTypeOK, NEW w \in Workers
    PROVE  wk[w].job \in JobIds
BY DEF WorkerTypeOK, Locals

\* Steps that touch neither rows nor jobs in hand.
LEMMA KeepsExclusive ==
    ASSUME WorkerTypeOK, ExclusiveRun, KeepsHeld, KeepsJobs
    PROVE  ExclusiveRun'
BY BusyJob DEF ExclusiveRun, KeepsHeld, KeepsJobs, Held

\* A purge deletes rows and changes none it leaves.
LEMMA PurgeKeepsHeld ==
    ASSUME WorkerTypeOK, NEW r \in Repos, PurgeRows(r)
    PROVE  KeepsHeld
<1> SUFFICES ASSUME NEW j \in JobIds, jobs[j].status \in Held
             PROVE  jobs'[j].status \in Held
  BY DEF KeepsHeld
<1>1. Blank("deleted").status = "deleted"
  BY DEF Blank
<1> QED
  BY <1>1 DEF PurgeRows, Held

\* A new row takes an unused id.
LEMMA CreateKeepsHeld ==
    ASSUME WorkerTypeOK, NEW j \in JobIds, NEW r, NEW trigger, NEW b,
           CreateJobWithBranch(j, r, trigger, b)
    PROVE  KeepsHeld
BY DEF CreateJobWithBranch, KeepsHeld, Held, WorkerTypeOK, DBTypeOK

\* A worker that stays with its job.
LEMMA GotoKeepsJobs ==
    ASSUME WorkerTypeOK, NEW w \in Workers, NEW step \in Steps, Busy(w), Goto(w, step),
           \A v \in Workers : wk'[v].job = wk[v].job
    PROVE  KeepsJobs
BY DEF Goto, Busy, KeepsJobs, WorkerTypeOK

\* A worker that leaves.
LEMMA LeaveKeepsJobs ==
    ASSUME WorkerTypeOK, NEW w \in Workers, Leave(w)
    PROVE  KeepsJobs /\ ~ Busy(w)'
BY DEF Leave, Goto, Busy, KeepsJobs, WorkerTypeOK

\* A worker that records something of its job and leaves: the row it frees is
\* nobody else's.
LEMMA RecordExclusive ==
    ASSUME WorkerTypeOK, ExclusiveRun, NEW w \in Workers, Busy(w), Leave(w),
           NEW status, NEW branch, NEW sha, NEW hash, NEW pr,
           UpdateJobStatus(wk[w].job, status, branch, sha, hash, pr)
    PROVE  ExclusiveRun'
<1>1. KeepsJobs /\ ~ Busy(w)'
  BY LeaveKeepsJobs
<1>2. \A j \in JobIds : j # wk[w].job => jobs'[j] = jobs[j]
  BY BusyJob DEF UpdateJobStatus, WorkerTypeOK, DBTypeOK
<1> SUFFICES ASSUME NEW v \in Workers, Busy(v)'
             PROVE  /\ jobs'[wk'[v].job].status \in Held
                    /\ \A u \in Workers : u # v /\ Busy(u)' => wk'[u].job # wk'[v].job
  BY DEF ExclusiveRun, Held
<1>3. v # w /\ Busy(v) /\ wk'[v].job = wk[v].job
  BY <1>1 DEF KeepsJobs
<1>4. wk[v].job # wk[w].job /\ jobs[wk[v].job].status \in Held
  BY <1>3 DEF ExclusiveRun, Held
<1>5. jobs'[wk'[v].job].status \in Held
  BY <1>2, <1>3, <1>4, BusyJob
<1>6. \A u \in Workers : u # v /\ Busy(u)' => wk'[u].job # wk'[v].job
  BY <1>1, <1>3 DEF KeepsJobs, ExclusiveRun
<1> QED
  BY <1>5, <1>6

\* A claim: the row was pending, so no worker had it.
LEMMA ClaimExclusive ==
    ASSUME WorkerTypeOK, ExclusiveRun, NEW w \in Workers, Claim(w)
    PROVE  ExclusiveRun'
<1>1. PICK j \in JobIds :
         /\ ClaimNextPendingJob(j)
         /\ wk' = [wk EXCEPT ![w] = [NoLocals EXCEPT !.job = j, !.repo = jobs[j].repo,
                                                     !.trigger = jobs[j].trigger,
                                                     !.branch = jobs[j].branch]]
         /\ Goto(w, "claimed")
  BY DEF Claim
<1>2. jobs[j].status = "pending"
  BY <1>1 DEF ClaimNextPendingJob, IsNextPending
<1>3. /\ jobs'[j].status = "running"
      /\ \A i \in JobIds : i # j => jobs'[i] = jobs[i]
  BY <1>1 DEF ClaimNextPendingJob, WorkerTypeOK, DBTypeOK, JobRow
<1>4. wk'[w].job = j /\ \A v \in Workers : v # w => wk'[v] = wk[v]
  BY <1>1 DEF WorkerTypeOK, NoLocals
<1>5. \A v \in Workers : v # w /\ Busy(v)' => Busy(v)
  BY <1>1 DEF Goto, Busy, WorkerTypeOK
<1>6. \A v \in Workers : Busy(v) => wk[v].job # j
  BY <1>2 DEF ExclusiveRun
<1> QED
  BY <1>3, <1>4, <1>5, <1>6, BusyJob DEF ExclusiveRun, Busy

\* The steps between claim and record: rows and the job in hand stay.
LEMMA StayExclusive ==
    ASSUME WorkerTypeOK, ExclusiveRun, NEW w \in Workers,
           \/ Resolve(w) \/ FetchMirror(w) \/ CheckDuplicate(w) \/ Clone(w) \/ StepFails(w)
           \/ BoxStep(w)
           \/ ReadResult(w) \/ CreatePullRequest(w) \/ CreateFails(w)
           \/ Annotate(w) \/ SaveResult(w) \/ RecordFails(w)
    PROVE  ExclusiveRun'
<1>1. jobs' = jobs
  BY DEF Resolve, FetchMirror, CheckDuplicate, Clone, StepFails, BoxStep, BoxBranch, BoxPush,
     BoxFails, BoxReport, BoxDone, BoxDies, BoxTimeout, ReadResult, CreatePullRequest,
     CreateFails, Annotate, SaveResult, RecordFails, dbVars
<1>2. Busy(w)
  BY DEF Busy, Running, Resolve, FetchMirror, CheckDuplicate, Clone, StepFails, BoxStep,
     BoxBranch, BoxPush, BoxFails, BoxReport, BoxDone, BoxDies, BoxTimeout, ReadResult,
     CreatePullRequest, CreateFails, Annotate, SaveResult, RecordFails
<1>3. \A v \in Workers : v # w => pc'[v] = pc[v]
  BY DEF Goto, Exit, Resolve, FetchMirror, CheckDuplicate, Clone, StepFails, BoxStep,
     BoxBranch, BoxPush, BoxFails, BoxReport, BoxDone, BoxDies, BoxTimeout, ReadResult,
     CreatePullRequest, CreateFails, Annotate, SaveResult, RecordFails, WorkerTypeOK
<1>4. \A v \in Workers : wk'[v].job = wk[v].job
  BY DEF Resolve, FetchMirror, CheckDuplicate, Clone, StepFails, BoxStep, BoxBranch, BoxPush,
     BoxFails, BoxReport, BoxDone, BoxDies, BoxTimeout, ReadResult, CreatePullRequest,
     CreateFails, Annotate, SaveResult, RecordFails, WorkerTypeOK, Locals
<1>5. KeepsJobs
  BY <1>2, <1>3, <1>4 DEF KeepsJobs, Busy
<1>6. KeepsHeld
  BY <1>1 DEF KeepsHeld
<1> QED
  BY <1>5, <1>6, KeepsExclusive

\* Every step of a worker keeps claims exclusive: one step of the proof per
\* action.
LEMMA WorkerStepExclusive ==
    ASSUME WorkerTypeOK, ExclusiveRun, NEW w \in Workers, WorkerStep(w)
    PROVE  ExclusiveRun'
<1>1. CASE Claim(w)
  BY <1>1, ClaimExclusive
<1>2. CASE ClaimUnread(w)
  <2>1. PICK j \in JobIds : ClaimNextPendingJob(j)
    BY <1>2 DEF ClaimUnread
  <2>2. KeepsHeld
    BY <2>1 DEF ClaimNextPendingJob, IsNextPending, KeepsHeld, Held, WorkerTypeOK, DBTypeOK
  <2>3. KeepsJobs
    BY <1>2 DEF ClaimUnread, workVars, KeepsJobs, Busy
  <2> QED
    BY <2>2, <2>3, KeepsExclusive
<1>3. CASE RecordSkip(w)
  BY <1>3, RecordExclusive DEF RecordSkip, Busy
<1>4. CASE RecordNoResult(w)
  BY <1>4, RecordExclusive DEF RecordNoResult, Busy
<1>5. CASE RecordFinal(w)
  BY <1>5, RecordExclusive DEF RecordFinal, Busy
<1>6. CASE RecordFailure(w)
  BY <1>6, RecordExclusive DEF RecordFailure, Busy
<1>7. CASE GiveUp(w)
  <2>1. KeepsHeld
    BY <1>7 DEF GiveUp, dbVars, KeepsHeld
  <2> QED
    BY <1>7, <2>1, LeaveKeepsJobs, KeepsExclusive DEF GiveUp
<1>8. CASE \/ Resolve(w) \/ FetchMirror(w) \/ CheckDuplicate(w) \/ Clone(w) \/ StepFails(w)
           \/ BoxStep(w)
           \/ ReadResult(w) \/ CreatePullRequest(w) \/ CreateFails(w)
           \/ Annotate(w) \/ SaveResult(w) \/ RecordFails(w)
  BY <1>8, StayExclusive
<1> QED
  BY <1>1, <1>2, <1>3, <1>4, <1>5, <1>6, <1>7, <1>8 DEF WorkerStep

\* A crash forgets the jobs in hand, and touches no row.
LEMMA CrashExclusive ==
    ASSUME WorkerTypeOK, ExclusiveRun, NEW w \in Workers, Crash(w)
    PROVE  ExclusiveRun'
<1>1. KeepsHeld
  BY DEF Crash, dbVars, KeepsHeld
<1> QED
  BY <1>1, LeaveKeepsJobs, KeepsExclusive DEF Crash

\* The users: rows are added, and purged as a whole.
LEMMA ApiExclusive ==
    ASSUME WorkerTypeOK, ExclusiveRun, NEW r \in Repos, Api(r)
    PROVE  ExclusiveRun'
<1>1. KeepsJobs
  BY DEF Api, QueueJob, TriggerJob, WebhookJob, SaveSettings, EditCell, Reset, Delete,
     workVars, KeepsJobs, Busy
<1>2. KeepsHeld
  <2>1. CASE QueueJob(r)
    <3>1. PICK j \in JobIds, trigger \in Triggers, b \in Branches :
             CreateJobWithBranch(j, r, trigger, b)
      BY <2>1, SourcesAssumption DEF QueueJob, TriggerJob, WebhookJob, Triggers
    <3> QED
      BY <3>1, CreateKeepsHeld
  <2>2. CASE SaveSettings(r) \/ EditCell(r)
    BY <2>2 DEF SaveSettings, EditCell, KeepsHeld
  <2>3. CASE Reset(r) \/ Delete(r)
    BY <2>3, PurgeKeepsHeld DEF Reset, Delete, ResetRepoData, DeleteRepo
  <2> QED
    BY <2>1, <2>2, <2>3 DEF Api
<1> QED
  BY <1>1, <1>2, KeepsExclusive

\* So does every step of the system.
LEMMA NextExclusive ==
    ASSUME WorkerTypeOK, ExclusiveRun, [Next]_workerVars
    PROVE  ExclusiveRun'
<1>1. CASE \E w \in Workers : WorkerStep(w) \/ Crash(w)
  BY <1>1, WorkerStepExclusive, CrashExclusive
<1>2. CASE \E r \in Repos : Api(r)
  BY <1>2, ApiExclusive
<1>3. CASE StrayPush
  BY <1>3 DEF StrayPush, dbVars, ExclusiveRun, Busy
<1>4. CASE \E r \in Repos, b \in Bases : DevPush(r, b)
  BY <1>4 DEF DevPush, dbVars, workVars, ExclusiveRun, Busy
<1>5. CASE UNCHANGED workerVars
  BY <1>5 DEF workerVars, dbVars, workVars, ExclusiveRun, Busy
<1> QED
  BY <1>1, <1>2, <1>3, <1>4, <1>5 DEF Next

\* A job in hand is in one worker's hands only, and its row, while there is
\* one, says running.
THEOREM ClaimsExclusive == Spec => []ExclusiveRun
<1>1. WorkerInit => ExclusiveRun
  BY DEF WorkerInit, ExclusiveRun, Busy
<1>2. WorkerTypeOK /\ ExclusiveRun /\ [Next]_workerVars => ExclusiveRun'
  BY NextExclusive
<1> QED
  BY <1>1, <1>2, TypeCorrect, PTL DEF Spec
-----------------------------------------------------------------------------
(* The duplicate check of runJob: a skipped job has its justification on       *)
(* record, and one worker never localizes the same push twice.  Between the    *)
(* check and the record of its outcome lie the sandbox and GitHub, and purges, *)
(* crashes and faults at any step; the invariant says that the verdict a       *)
(* worker carries across them is still true.                                   *)

\* What the check would say now of the job in hand.
Verdict(w) == HasDuplicateSuccessfulJob(wk[w].repo, wk[w].sha, wk[w].hash)

\* The steps at which a worker has been told that its job is no duplicate.
Fresh == {"fresh", "sandbox", "report", "pr", "annotate", "save", "final"}

\* The locals of a busy worker are of the row it holds, while there is a row.
HoldsRow == \A w \in Workers :
    Busy(w) /\ RowExists(wk[w].job) => /\ jobs[wk[w].job].repo = wk[w].repo
                                       /\ jobs[wk[w].job].trigger = wk[w].trigger

\* A job about to be skipped still has its duplicate, or lost its own row with it.
SkipBacked == \A w \in Workers : pc[w] = "skip" /\ RowExists(wk[w].job) => Verdict(w)

SkipInv == HoldsRow /\ SkipBacked /\ SkipsJustified

\* With one worker, a push found fresh stays fresh until it is recorded.
StaysFresh == \A w \in Workers :
    pc[w] \in Fresh /\ wk[w].trigger = "webhook_push" => ~ Verdict(w)

-----------------------------------------------------------------------------
(* What a step may do to rows and to workers, in the terms of the invariant. *)

\* Locals that name the job stay, and so do the verdict and what it is about.
Carries(v) ==
    /\ Busy(v)
    /\ wk'[v].job = wk[v].job /\ wk'[v].repo = wk[v].repo /\ wk'[v].trigger = wk[v].trigger
    /\ pc'[v] = "skip" => pc[v] = "skip"
    /\ pc'[v] \in Fresh => pc[v] \in Fresh
    /\ pc'[v] \in Fresh \cup {"skip"} => wk'[v].sha = wk[v].sha /\ wk'[v].hash = wk[v].hash

\* A worker has claimed a row and knows it.
Takes(v) ==
    /\ pc'[v] = "claimed"
    /\ jobs'[wk'[v].job].repo = wk'[v].repo
    /\ jobs'[wk'[v].job].trigger = wk'[v].trigger

\* Rows of r are gone; all others are as they were.
Purged(r) == \A j \in JobIds :
    IF RowExists(j) /\ jobs[j].repo = r THEN jobs'[j].status = "deleted"
                                        ELSE jobs'[j] = jobs[j]

\* Rows come or move on, but none that has ended, and none ends.
Advanced == \A j \in JobIds :
    \/ jobs'[j] = jobs[j]
    \/ jobs[j].status = "none" /\ jobs'[j].status = "pending"
    \/ jobs[j].status = "pending" /\ jobs'[j].status = "running"

\* Steps that leave every verdict with its worker.
LEMMA AdvancedKeeps ==
    ASSUME WorkerTypeOK, ExclusiveRun, SkipInv, Advanced,
           \A v \in Workers : Busy(v)' => Carries(v) \/ Takes(v)
    PROVE  SkipInv' /\ (StaysFresh => StaysFresh')
<1>1. \A j \in JobIds : jobs[j].status \in Success \cup {"skipped_no_changes"}
                        => jobs'[j] = jobs[j]
  BY DEF Advanced, Success
<1>2. \A j \in JobIds : jobs'[j].status \in Success \cup {"skipped_no_changes"}
                        => jobs'[j] = jobs[j]
  BY DEF Advanced, Success
<1>3. \A v \in Workers : Carries(v) => jobs'[wk'[v].job] = jobs[wk[v].job]
  <2> SUFFICES ASSUME NEW v \in Workers, Carries(v)
               PROVE  jobs'[wk'[v].job] = jobs[wk[v].job]
    OBVIOUS
  <2>1. Busy(v) /\ wk'[v].job = wk[v].job
    BY DEF Carries
  <2>2. wk[v].job \in JobIds /\ jobs[wk[v].job].status \in {"running", "deleted"}
    BY <2>1, BusyJob DEF ExclusiveRun
  <2> QED
    BY <2>1, <2>2 DEF Advanced
<1>4. HoldsRow'
  BY <1>3 DEF SkipInv, HoldsRow, Carries, Takes, RowExists
<1>5. SkipBacked'
  <2> SUFFICES ASSUME NEW w \in Workers, pc'[w] = "skip", RowExists(wk[w].job)'
               PROVE  Verdict(w)'
    BY DEF SkipBacked
  <2>1. Carries(w)
    BY DEF Busy, Takes
  <2>2. Carries(w) /\ RowExists(wk[w].job)
    BY <1>3, <2>1 DEF RowExists
  <2>3. Verdict(w)
    BY <2>2 DEF Carries, SkipInv, SkipBacked
  <2> QED
    BY <2>2, <2>3, <1>1 DEF Verdict, HasDuplicateSuccessfulJob, Carries
<1>6. SkipsJustified'
  BY <1>1, <1>2 DEF SkipInv, SkipsJustified, SameKey
<1>7. ASSUME StaysFresh PROVE StaysFresh'
  <2> SUFFICES ASSUME NEW w \in Workers, pc'[w] \in Fresh, wk'[w].trigger = "webhook_push",
                      Verdict(w)'
               PROVE  FALSE
    BY DEF StaysFresh
  <2>1. Carries(w)
    BY DEF Busy, Fresh, Takes
  <2> QED
    BY <1>7, <2>1, <1>2 DEF Carries, StaysFresh, Verdict, HasDuplicateSuccessfulJob
<1> QED
  BY <1>4, <1>5, <1>6, <1>7 DEF SkipInv

\* A purge takes the duplicate away only together with the rows that rely on it.
LEMMA PurgedKeeps ==
    ASSUME WorkerTypeOK, ExclusiveRun, SkipInv, NEW r \in Repos, Purged(r),
           pc' = pc, wk' = wk
    PROVE  SkipInv' /\ (StaysFresh => StaysFresh')
<1>1. \A j \in JobIds : RowExists(j)' => jobs'[j] = jobs[j] /\ RowExists(j) /\ jobs[j].repo # r
  BY DEF Purged, RowExists
<1>2. \A j \in JobIds : jobs'[j].status \in Success \cup {"skipped_no_changes"}
                        => RowExists(j)' 
  BY DEF RowExists, Success
<1>3. \A j \in JobIds : jobs[j].repo # r => jobs'[j] = jobs[j]
  BY DEF Purged
<1>4. HoldsRow'
  BY <1>1, BusyJob DEF SkipInv, HoldsRow, Busy
<1>5. SkipBacked'
  <2> SUFFICES ASSUME NEW w \in Workers, pc[w] = "skip", RowExists(wk[w].job)'
               PROVE  Verdict(w)'
    BY DEF SkipBacked
  <2>1. RowExists(wk[w].job) /\ jobs[wk[w].job].repo # r
    BY <1>1, BusyJob
  <2>2. Verdict(w) /\ wk[w].repo # r
    BY <2>1 DEF SkipInv, SkipBacked, HoldsRow, Busy
  <2> QED
    BY <2>2, <1>3 DEF Verdict, HasDuplicateSuccessfulJob
<1>6. SkipsJustified'
  BY <1>1, <1>2, <1>3 DEF SkipInv, SkipsJustified, SameKey
<1>7. ASSUME StaysFresh PROVE StaysFresh'
  BY <1>7, <1>1, <1>2 DEF StaysFresh, Verdict, HasDuplicateSuccessfulJob
<1> QED
  BY <1>4, <1>5, <1>6, <1>7 DEF SkipInv

\* A worker records the end of its job and leaves.
Ends(w, status, sha, hash) ==
    /\ Busy(w)
    /\ \E branch, pr : UpdateJobStatus(wk[w].job, status, branch, sha, hash, pr)
    /\ Leave(w)

\* Nobody else's verdict is about the row that ends, and none of them rests on it.
LEMMA EndsKeeps ==
    ASSUME WorkerTypeOK, ExclusiveRun, SkipInv, NEW w \in Workers,
           NEW status \in Terminal, NEW sha, NEW hash, Ends(w, status, sha, hash),
           status = "skipped_no_changes"
               => pc[w] = "skip" /\ sha = wk[w].sha /\ hash = wk[w].hash
    PROVE  SkipInv'
<1> DEFINE job == wk[w].job
<1>1. job \in JobIds /\ jobs[job].status \in {"running", "deleted"}
  BY BusyJob DEF ExclusiveRun, Ends
<1>2. \A j \in JobIds : j # job => jobs'[j] = jobs[j]
  BY <1>1 DEF Ends, UpdateJobStatus, WorkerTypeOK, DBTypeOK
<1>3. \A v \in Workers : Busy(v)' => /\ v # w /\ Busy(v) /\ pc'[v] = pc[v]
                                     /\ wk'[v] = wk[v] /\ wk[v].job # job
  BY DEF Ends, Leave, Goto, Busy, ExclusiveRun, WorkerTypeOK
<1>4. \A j \in JobIds : jobs[j].status \in Success => jobs'[j] = jobs[j]
  BY <1>1, <1>2 DEF Success
<1>5. HoldsRow'
  BY <1>2, <1>3, BusyJob DEF SkipInv, HoldsRow, RowExists
<1>6. SkipBacked'
  <2> SUFFICES ASSUME NEW v \in Workers, pc'[v] = "skip", RowExists(wk[v].job)'
               PROVE  Verdict(v)'
    BY DEF SkipBacked
  <2>1. Busy(v)'
    BY DEF Busy
  <2>2. pc[v] = "skip" /\ wk'[v] = wk[v] /\ RowExists(wk[v].job)
    BY <1>2, <1>3, <2>1, BusyJob DEF RowExists
  <2>3. Verdict(v)
    BY <2>2 DEF SkipInv, SkipBacked
  <2> QED
    BY <1>4, <2>2, <2>3 DEF Verdict, HasDuplicateSuccessfulJob
<1>7. SkipsJustified'
  <2> SUFFICES ASSUME NEW j \in JobIds, jobs'[j].status = "skipped_no_changes"
               PROVE  \E i \in JobIds : jobs'[i].status \in Success /\ SameKey(i, j)'
    BY DEF SkipsJustified
  <2>1. CASE j # job \/ ~ RowExists(job)
    <3>1. jobs'[j] = jobs[j]
      BY <1>2, <2>1 DEF Ends, UpdateJobStatus
    <3>2. PICK i \in JobIds : jobs[i].status \in Success /\ SameKey(i, j)
      BY <3>1 DEF SkipInv, SkipsJustified
    <3> QED
      BY <3>1, <3>2, <1>4 DEF SameKey
  <2>2. CASE j = job /\ RowExists(job)
    <3>1. /\ jobs'[j].status = status
          /\ jobs'[j].repo = jobs[j].repo
          /\ jobs'[j].sha = sha
          /\ jobs'[j].hash = hash
      BY <1>1, <2>2 DEF Ends, UpdateJobStatus, WorkerTypeOK, DBTypeOK, JobRow
    <3>2. Verdict(w) /\ jobs[j].repo = wk[w].repo
      BY <2>2, <3>1 DEF SkipInv, SkipBacked, HoldsRow, Ends
    <3>3. PICK i \in JobIds : /\ jobs[i].status \in Success
                              /\ jobs[i].repo = wk[w].repo
                              /\ jobs[i].sha = wk[w].sha
                              /\ jobs[i].hash = wk[w].hash
      BY <3>2 DEF Verdict, HasDuplicateSuccessfulJob
    <3> QED
      BY <3>1, <3>2, <3>3, <1>4 DEF SameKey
  <2> QED
    BY <2>1, <2>2
<1> QED
  BY <1>5, <1>6, <1>7 DEF SkipInv

\* Where there is one worker, nobody is left with a verdict.
LEMMA EndsFresh ==
    ASSUME WorkerTypeOK, NEW w \in Workers, \A v \in Workers : v = w, Leave(w)
    PROVE  StaysFresh'
BY DEF StaysFresh, Leave, Goto, Fresh, WorkerTypeOK

-----------------------------------------------------------------------------
(* The steps of the system, one by one. *)

\* What is shown of each of them.
Deduplicates == /\ SkipInv'
                /\ (\A v, w \in Workers : v = w) /\ StaysFresh => StaysFresh'

\* The check itself gives the verdict that the worker carries on.
LEMMA CheckDeduplicates ==
    ASSUME WorkerTypeOK, SkipInv, NEW w \in Workers, CheckDuplicate(w)
    PROVE  Deduplicates
<1>1. jobs' = jobs /\ wk' = wk /\ Busy(w) /\ \A v \in Workers : v # w => pc'[v] = pc[v]
  BY DEF CheckDuplicate, dbVars, Goto, Busy, WorkerTypeOK
<1>2. /\ pc'[w] \in {"skip", "fresh"}
      /\ pc'[w] = "skip" => Verdict(w)
      /\ pc'[w] = "fresh" => ~ (wk[w].trigger = "webhook_push" /\ Verdict(w))
  BY DEF CheckDuplicate, Goto, WorkerTypeOK, Verdict
<1>3. \A v \in Workers : Verdict(v)' <=> Verdict(v)
  BY <1>1 DEF Verdict, HasDuplicateSuccessfulJob
<1>4. HoldsRow'
  BY <1>1 DEF SkipInv, HoldsRow, RowExists, Busy
<1>5. SkipBacked'
  BY <1>1, <1>2, <1>3 DEF SkipInv, SkipBacked, RowExists
<1>6. SkipsJustified'
  BY <1>1 DEF SkipInv, SkipsJustified, SameKey
<1>7. StaysFresh => StaysFresh'
  BY <1>1, <1>2, <1>3 DEF StaysFresh, Fresh
<1> QED
  BY <1>4, <1>5, <1>6, <1>7 DEF SkipInv, Deduplicates

\* The steps between claim and record, the check aside: the worker carries on
\* with what it knows, and takes up the sandbox only for a job found fresh.
LEMMA StayCarries ==
    ASSUME WorkerTypeOK, NEW w \in Workers,
           \/ Resolve(w) \/ FetchMirror(w) \/ Clone(w) \/ StepFails(w) \/ BoxStep(w)
           \/ ReadResult(w) \/ CreatePullRequest(w) \/ CreateFails(w)
           \/ Annotate(w) \/ SaveResult(w) \/ RecordFails(w)
    PROVE  jobs' = jobs /\ \A v \in Workers : Busy(v)' => Carries(v)
<1>1. jobs' = jobs
  BY DEF Resolve, FetchMirror, Clone, StepFails, BoxStep, BoxBranch, BoxPush,
     BoxFails, BoxReport, BoxDone, BoxDies, BoxTimeout, ReadResult, CreatePullRequest,
     CreateFails, Annotate, SaveResult, RecordFails, dbVars
<1>2. \A v \in Workers : v # w => pc'[v] = pc[v] /\ wk'[v] = wk[v]
  BY DEF Goto, Exit, Resolve, FetchMirror, Clone, StepFails, BoxStep,
     BoxBranch, BoxPush, BoxFails, BoxReport, BoxDone, BoxDies, BoxTimeout, ReadResult,
     CreatePullRequest, CreateFails, Annotate, SaveResult, RecordFails, WorkerTypeOK
<1>3. Busy(w)
  BY DEF Busy, Running, Resolve, FetchMirror, Clone, StepFails, BoxStep,
     BoxBranch, BoxPush, BoxFails, BoxReport, BoxDone, BoxDies, BoxTimeout, ReadResult,
     CreatePullRequest, CreateFails, Annotate, SaveResult, RecordFails
<1>4. Carries(w)
  <2>1. CASE Resolve(w) \/ FetchMirror(w)
    BY <1>3, <2>1 DEF Carries, Resolve, FetchMirror, Goto, Fresh, WorkerTypeOK, Locals
  <2>2. CASE StepFails(w) \/ RecordFails(w)
    BY <1>3, <2>2 DEF Carries, StepFails, RecordFails, Goto, Fresh, WorkerTypeOK
  <2>3. CASE Clone(w)
    BY <1>3, <2>3 DEF Carries, Clone, Goto, Fresh, WorkerTypeOK, Locals
  <2>4. CASE BoxStep(w)
    BY <1>3, <2>4 DEF Carries, BoxStep, BoxBranch, BoxPush, BoxFails, BoxReport, BoxDone, BoxDies,
       BoxTimeout, Running, Exit, Goto, Fresh, WorkerTypeOK, Locals
  <2>5. CASE \/ ReadResult(w) \/ CreatePullRequest(w) \/ CreateFails(w)
             \/ Annotate(w) \/ SaveResult(w)
    BY <1>3, <2>5 DEF Carries, ReadResult, CreatePullRequest, CreateFails, Annotate, SaveResult,
       Goto, Fresh, WorkerTypeOK, Locals
  <2> QED
    BY <2>1, <2>2, <2>3, <2>4, <2>5
<1> QED
  BY <1>1, <1>2, <1>4 DEF Carries, Busy

\* A claim moves one pending row on, and tells its worker of which job it is.
LEMMA ClaimAdvances ==
    ASSUME WorkerTypeOK, NEW w \in Workers, Claim(w)
    PROVE  Advanced /\ \A v \in Workers : Busy(v)' => Carries(v) \/ Takes(v)
<1>1. PICK j \in JobIds :
         /\ ClaimNextPendingJob(j)
         /\ wk' = [wk EXCEPT ![w] = [NoLocals EXCEPT !.job = j, !.repo = jobs[j].repo,
                                                     !.trigger = jobs[j].trigger,
                                                     !.branch = jobs[j].branch]]
         /\ Goto(w, "claimed")
  BY DEF Claim
<1>2. Advanced
  BY <1>1 DEF ClaimNextPendingJob, IsNextPending, Advanced, WorkerTypeOK, DBTypeOK, JobRow
<1>3. Takes(w)
  BY <1>1 DEF ClaimNextPendingJob, Takes, Goto, NoLocals, WorkerTypeOK, DBTypeOK, JobRow
<1>4. \A v \in Workers : v # w => pc'[v] = pc[v] /\ wk'[v] = wk[v]
  BY <1>1 DEF Goto, WorkerTypeOK
<1> QED
  BY <1>2, <1>3, <1>4 DEF Carries, Busy

\* Nobody changes what a worker knows: a frame for the other actors.
LEMMA IdleCarries ==
    ASSUME WorkerTypeOK, pc' = pc, wk' = wk
    PROVE  \A v \in Workers : Busy(v)' => Carries(v)
BY DEF Carries, Busy

\* A worker that leaves, or dies, forgets its own verdict only.
LEMMA LeaveCarries ==
    ASSUME WorkerTypeOK, NEW w \in Workers, Leave(w)
    PROVE  \A v \in Workers : Busy(v)' => Carries(v)
BY DEF Leave, Goto, Carries, Busy, WorkerTypeOK

\* Every step of a worker: one step of the proof per way it treats its row.
LEMMA WorkerStepDeduplicates ==
    ASSUME WorkerTypeOK, ExclusiveRun, SkipInv, NEW w \in Workers, WorkerStep(w)
    PROVE  Deduplicates
<1>1. CASE Claim(w)
  BY <1>1, ClaimAdvances, AdvancedKeeps DEF Deduplicates
<1>2. CASE ClaimUnread(w)
  <2>1. Advanced
    BY <1>2 DEF ClaimUnread, ClaimNextPendingJob, IsNextPending, Advanced, WorkerTypeOK,
       DBTypeOK, JobRow
  <2> QED
    BY <1>2, <2>1, IdleCarries, AdvancedKeeps DEF ClaimUnread, workVars, Deduplicates
<1>3. CASE CheckDuplicate(w)
  BY <1>3, CheckDeduplicates
<1>4. CASE RecordSkip(w)
  <2>1. Ends(w, "skipped_no_changes", wk[w].sha, wk[w].hash) /\ pc[w] = "skip"
    BY <1>4 DEF RecordSkip, Ends, Busy
  <2> QED
    BY <2>1, EndsKeeps, EndsFresh DEF Deduplicates, Ends, Terminal, Success
<1>5. CASE RecordNoResult(w)
  <2>1. Ends(w, "failed", wk[w].sha, wk[w].hash)
    BY <1>5 DEF RecordNoResult, Ends, Busy
  <2> QED
    BY <2>1, EndsKeeps, EndsFresh DEF Deduplicates, Ends, Terminal, Success
<1>6. CASE RecordFinal(w)
  <2>1. /\ Ends(w, FinalStatus(w), wk[w].sha, wk[w].hash)
        /\ pc[w] = "final"
    BY <1>6 DEF RecordFinal, Ends, Busy
  <2>2. FinalStatus(w) \in Terminal \ {"skipped_no_changes"}
    BY DEF FinalStatus, Terminal, Success
  <2> QED
    BY <2>1, <2>2, EndsKeeps, EndsFresh DEF Deduplicates, Ends
<1>7. CASE RecordFailure(w)
  <2>1. Ends(w, "failed", 0, 0)
    BY <1>7 DEF RecordFailure, Ends, Busy
  <2> QED
    BY <2>1, EndsKeeps, EndsFresh DEF Deduplicates, Ends, Terminal, Success
<1>8. CASE GiveUp(w)
  <2>1. Advanced
    BY <1>8 DEF GiveUp, dbVars, Advanced
  <2> QED
    BY <1>8, <2>1, LeaveCarries, AdvancedKeeps DEF GiveUp, Deduplicates
<1>9. CASE \/ Resolve(w) \/ FetchMirror(w) \/ Clone(w) \/ StepFails(w) \/ BoxStep(w)
           \/ ReadResult(w) \/ CreatePullRequest(w) \/ CreateFails(w)
           \/ Annotate(w) \/ SaveResult(w) \/ RecordFails(w)
  <2>1. jobs' = jobs /\ \A v \in Workers : Busy(v)' => Carries(v)
    BY <1>9, StayCarries
  <2>2. Advanced
    BY <2>1 DEF Advanced
  <2> QED
    BY <2>1, <2>2, AdvancedKeeps DEF Deduplicates
<1> QED
  BY <1>1, <1>2, <1>3, <1>4, <1>5, <1>6, <1>7, <1>8, <1>9 DEF WorkerStep

\* The users: a new row is pending, and a purge takes whole repositories.
LEMMA ApiDeduplicates ==
    ASSUME WorkerTypeOK, ExclusiveRun, SkipInv, NEW r \in Repos, Api(r)
    PROVE  Deduplicates
<1>1. pc' = pc /\ wk' = wk
  BY DEF Api, QueueJob, TriggerJob, WebhookJob, SaveSettings, EditCell, Reset, Delete, workVars
<1>2. CASE QueueJob(r)
  <2>1. PICK j \in JobIds, trigger \in Triggers, b \in Branches :
           CreateJobWithBranch(j, r, trigger, b)
    BY <1>2, SourcesAssumption DEF QueueJob, TriggerJob, WebhookJob, Triggers
  <2>2. Advanced
    BY <2>1 DEF CreateJobWithBranch, Blank, Advanced, WorkerTypeOK, DBTypeOK
  <2> QED
    BY <1>1, <2>2, IdleCarries, AdvancedKeeps DEF Deduplicates
<1>3. CASE SaveSettings(r) \/ EditCell(r)
  <2>1. Advanced
    BY <1>3 DEF SaveSettings, EditCell, Advanced
  <2> QED
    BY <1>1, <2>1, IdleCarries, AdvancedKeeps DEF Deduplicates
<1>4. CASE Reset(r) \/ Delete(r)
  <2>1. Purged(r)
    BY <1>4 DEF Reset, Delete, ResetRepoData, DeleteRepo, PurgeRows, Blank, Purged
  <2> QED
    BY <1>1, <2>1, PurgedKeeps DEF Deduplicates
<1> QED
  BY <1>2, <1>3, <1>4 DEF Api

\* So does every step of the system.
LEMMA NextDeduplicates ==
    ASSUME WorkerTypeOK, ExclusiveRun, SkipInv, [Next]_workerVars
    PROVE  Deduplicates
<1>1. CASE \E w \in Workers : WorkerStep(w)
  BY <1>1, WorkerStepDeduplicates
<1>2. CASE \E w \in Workers : Crash(w)
  <2>1. PICK w \in Workers : Leave(w) /\ jobs' = jobs
    BY <1>2 DEF Crash, dbVars
  <2>2. Advanced
    BY <2>1 DEF Advanced
  <2> QED
    BY <2>1, <2>2, LeaveCarries, AdvancedKeeps DEF Deduplicates
<1>3. CASE \E r \in Repos : Api(r)
  BY <1>3, ApiDeduplicates
<1>4. CASE \/ StrayPush \/ UNCHANGED workerVars
           \/ \E r \in Repos, b \in Bases : DevPush(r, b)
  <2>1. jobs' = jobs /\ pc' = pc /\ wk' = wk
    BY <1>4 DEF StrayPush, DevPush, workerVars, dbVars, workVars
  <2>2. Advanced
    BY <2>1 DEF Advanced
  <2> QED
    BY <2>1, <2>2, IdleCarries, AdvancedKeeps DEF Deduplicates
<1> QED
  BY <1>1, <1>2, <1>3, <1>4 DEF Next

\* At the start there are no jobs.
LEMMA InitDeduplicates == WorkerInit => SkipInv /\ StaysFresh
BY DEF WorkerInit, DBInit, Blank, SkipInv, HoldsRow, SkipBacked, SkipsJustified, StaysFresh,
   Fresh, Success, Busy

\* However many workers, crashes, faults and purges there are, a job recorded
\* as skipped has a successful job of the same repository, commit and settings
\* on record.
THEOREM SkipsAreJustified == Spec => []SkipsJustified
<1>1. WorkerTypeOK /\ ExclusiveRun /\ SkipInv /\ [Next]_workerVars => SkipInv'
  BY NextDeduplicates DEF Deduplicates
<1>2. SkipInv => SkipsJustified
  BY DEF SkipInv
<1>3. WorkerInit => SkipInv
  BY InitDeduplicates
<1> QED
  BY <1>1, <1>2, <1>3, TypeCorrect, ClaimsExclusive, PTL DEF Spec

-----------------------------------------------------------------------------
(***************************************************************************)
(* What the tables say: that rows hang together, that they tell the truth  *)
(* about GitHub and about the workers, that the branch of a job is pushed  *)
(* once, that a person's edit is not undone by a job that knew of it, and  *)
(* that one worker's queue keeps the promises of JobLedger.                *)
(***************************************************************************)
\* The statements of a worker that change no table.
Silent(w) == \/ Resolve(w) \/ FetchMirror(w) \/ CheckDuplicate(w) \/ Clone(w) \/ StepFails(w)
             \/ BoxStep(w) \/ ReadResult(w) \/ CreatePullRequest(w) \/ CreateFails(w)
             \/ Annotate(w) \/ RecordFails(w) \/ GiveUp(w)

\* Those that record the end of its job, each with its status.
Records(w) == \/ RecordSkip(w) \/ RecordNoResult(w) \/ RecordFinal(w) \/ RecordFailure(w)

LEMMA WorkerSteps ==
    ASSUME NEW w \in Workers
    PROVE  WorkerStep(w) <=> Claim(w) \/ ClaimUnread(w) \/ Silent(w) \/ Records(w) \/ SaveResult(w)
BY DEF WorkerStep, Silent, Records

LEMMA SilentTables ==
    ASSUME NEW w \in Workers, Silent(w)
    PROVE  UNCHANGED dbVars
BY DEF Silent, Resolve, FetchMirror, CheckDuplicate, Clone, StepFails, BoxStep, BoxBranch, BoxPush,
   BoxFails, BoxReport, BoxDone, BoxDies, BoxTimeout, ReadResult, CreatePullRequest,
   CreateFails, Annotate, RecordFails, GiveUp, dbVars

LEMMA FinalStatusEnds ==
    ASSUME NEW w \in Workers
    PROVE  FinalStatus(w) \in Terminal
BY DEF FinalStatus, Terminal, Success

\* What a record does to its row.
Ended(job, status) ==
    \E branch, sha, hash, pr : UpdateJobStatus(job, status, branch, sha, hash, pr)

LEMMA RecordsRow ==
    ASSUME WorkerTypeOK, NEW w \in Workers, Records(w)
    PROVE  /\ Busy(w) /\ Leave(w)
           /\ \E status \in Terminal : Ended(wk[w].job, status)
           /\ UNCHANGED <<repos, cells, usage, ghVars, strays, budgetVars>>
BY FinalStatusEnds DEF Ended, Records, RecordSkip, RecordNoResult, RecordFinal, RecordFailure, Busy,
   Terminal

LEMMA EndedRow ==
    ASSUME WorkerTypeOK, NEW job \in JobIds, NEW status, Ended(job, status)
    PROVE  /\ \A j \in JobIds : j # job => jobs'[j] = jobs[j]
           /\ ~ RowExists(job) => jobs' = jobs
           /\ RowExists(job) => /\ jobs'[job].status = status
                               /\ jobs'[job].repo = jobs[job].repo
                               /\ jobs'[job].trigger = jobs[job].trigger
BY DEF Ended, UpdateJobStatus, WorkerTypeOK, DBTypeOK, JobRow

-----------------------------------------------------------------------------
(* Foreign keys and ids *)

\* A row that is there gets another status.
LEMMA UpdateConsistent ==
    ASSUME WorkerTypeOK, TablesConsistent, NEW job \in JobIds, RowExists(job),
           jobs'[job].status \notin {"none", "deleted"}, jobs'[job].repo = jobs[job].repo,
           \A j \in JobIds : j # job => jobs'[j] = jobs[j],
           UNCHANGED <<repos, cells, usage>>
    PROVE  TablesConsistent'
BY DEF TablesConsistent, RowExists, WorkerTypeOK, DBTypeOK, JobRow

LEMMA ClaimConsistent ==
    ASSUME WorkerTypeOK, TablesConsistent, NEW job \in JobIds, ClaimNextPendingJob(job),
           UNCHANGED <<repos, cells, usage>>
    PROVE  TablesConsistent'
<1>1. /\ RowExists(job)
      /\ jobs'[job].status = "running" /\ jobs'[job].repo = jobs[job].repo
      /\ \A j \in JobIds : j # job => jobs'[j] = jobs[j]
  BY DEF ClaimNextPendingJob, IsNextPending, RowExists, WorkerTypeOK, DBTypeOK, JobRow
<1> QED
  BY <1>1, UpdateConsistent

\* Every step of a worker.
LEMMA WorkerStepConsistent ==
    ASSUME WorkerTypeOK, TablesConsistent, NEW w \in Workers, WorkerStep(w)
    PROVE  TablesConsistent'
<1>0. wk[w].job \in JobIds /\ wk[w].repo \in Repos
  BY DEF WorkerTypeOK, Locals
<1>1. CASE Claim(w) \/ ClaimUnread(w)
  BY <1>1, ClaimConsistent DEF Claim, ClaimUnread
<1>2. CASE Silent(w)
  BY <1>2, SilentTables DEF TablesConsistent, RowExists, dbVars
<1>3. CASE Records(w)
  <2>1. PICK status \in Terminal : Ended(wk[w].job, status)
    BY <1>3, RecordsRow
  <2>2. UNCHANGED <<repos, cells, usage>>
    BY <1>3, RecordsRow
  <2>3. CASE RowExists(wk[w].job)
    <3>1. /\ jobs'[wk[w].job].status = status /\ jobs'[wk[w].job].repo = jobs[wk[w].job].repo
          /\ \A j \in JobIds : j # wk[w].job => jobs'[j] = jobs[j]
      BY <1>0, <2>1, <2>3, EndedRow
    <3> QED
      BY <1>0, <2>2, <2>3, <3>1, UpdateConsistent DEF Terminal, Success
  <2>4. CASE ~ RowExists(wk[w].job)
    BY <1>0, <2>1, <2>2, <2>4, EndedRow DEF TablesConsistent, RowExists
  <2> QED
    BY <2>3, <2>4
<1>4. CASE SaveResult(w)
  <2>1. UNCHANGED <<jobs, repos>>
    BY <1>4 DEF SaveResult
  <2>2. \A j \in usage' : RowExists(j)
    BY <1>4 DEF SaveResult, RecordJobTokenUsage, TablesConsistent
  <2>3. \A r \in Repos : ~ repos[r].live => cells'[r] = cells[r]
    BY <1>0, <1>4 DEF SaveResult, UpsertTranslationMatrix, WorkerTypeOK, DBTypeOK
  <2> QED
    BY <2>1, <2>2, <2>3 DEF TablesConsistent, RowExists
<1> QED
  BY <1>1, <1>2, <1>3, <1>4, WorkerSteps

\* The calls of users.
LEMMA ApiConsistent ==
    ASSUME WorkerTypeOK, TablesConsistent, NEW r \in Repos, Api(r)
    PROVE  TablesConsistent'
<1>1. ASSUME UpsertRepoSettings(r) \/ UNCHANGED repos
      PROVE  \A q \in Repos : repos'[q].live = repos[q].live
  BY <1>1 DEF UpsertRepoSettings, WorkerTypeOK, DBTypeOK
<1>2. CASE QueueJob(r)
  <2>1. PICK job \in JobIds, trigger \in Triggers, b \in Branches :
           CreateJobWithBranch(job, r, trigger, b)
    BY <1>2, SourcesAssumption DEF QueueJob, TriggerJob, WebhookJob, Triggers
  <2>2. \A q \in Repos : repos'[q].live = repos[q].live
    BY <1>1, <1>2 DEF QueueJob, TriggerJob, WebhookJob
  <2>3. UNCHANGED <<cells, usage>>
    BY <1>2 DEF QueueJob, TriggerJob, WebhookJob
  <2>4. /\ jobs'[job].status = "pending" /\ jobs'[job].repo = r /\ repos[r].live
        /\ jobs[job].status = "none"
        /\ \A i \in JobIds : i < job => jobs[i].status # "none"
        /\ \A j \in JobIds : j # job => jobs'[j] = jobs[j]
    BY <2>1 DEF CreateJobWithBranch, Blank, WorkerTypeOK, DBTypeOK
  <2>5. \A i, j \in JobIds : i < j /\ jobs'[j].status # "none" => jobs'[i].status # "none"
    BY <2>4 DEF TablesConsistent
  <2>6. \A j \in JobIds : RowExists(j)' => repos'[jobs'[j].repo].live
    BY <2>2, <2>4 DEF TablesConsistent, RowExists, WorkerTypeOK, DBTypeOK, JobRow
  <2>7. \A j \in usage : RowExists(j)'
    BY <2>4 DEF TablesConsistent, RowExists, WorkerTypeOK, DBTypeOK
  <2> QED
    BY <2>2, <2>3, <2>5, <2>6, <2>7 DEF TablesConsistent
<1>3. CASE SaveSettings(r)
  <2>1. \A q \in Repos : repos'[q].live = repos[q].live
    BY <1>1, <1>3 DEF SaveSettings
  <2> QED
    BY <1>3, <2>1 DEF SaveSettings, TablesConsistent, RowExists, WorkerTypeOK, DBTypeOK, JobRow
<1>4. CASE EditCell(r)
  <2>1. \A q \in Repos : ~ repos[q].live => cells'[q] = cells[q]
    BY <1>4 DEF EditCell, UpsertTranslationMatrix, WorkerTypeOK, DBTypeOK
  <2> QED
    BY <1>4, <2>1 DEF EditCell, TablesConsistent, RowExists
<1>5. CASE Reset(r) \/ Delete(r)
  <2>1. PurgeRows(r)
    BY <1>5 DEF Reset, Delete, ResetRepoData, DeleteRepo
  <2>2. \A q \in Repos : q # r => repos'[q] = repos[q]
    BY <1>5 DEF Reset, Delete, ResetRepoData, DeleteRepo, WorkerTypeOK, DBTypeOK
  <2>3. \A j \in JobIds : /\ RowExists(j) /\ jobs[j].repo = r => jobs'[j].status = "deleted"
                          /\ ~ (RowExists(j) /\ jobs[j].repo = r) => jobs'[j] = jobs[j]
    BY <2>1 DEF PurgeRows, Blank
  <2>4. \A j \in JobIds : RowExists(j)' => jobs'[j] = jobs[j] /\ RowExists(j) /\ jobs[j].repo # r
    BY <2>3 DEF RowExists
  <2>5. \A i, j \in JobIds : i < j /\ jobs'[j].status # "none" => jobs'[i].status # "none"
    BY <2>3 DEF TablesConsistent, RowExists
  <2>6. \A j \in usage' : RowExists(j)'
    BY <2>1, <2>3 DEF PurgeRows, TablesConsistent, RowExists, WorkerTypeOK, DBTypeOK
  <2>7. \A j \in JobIds : RowExists(j)' => repos'[jobs'[j].repo].live
    BY <2>2, <2>4 DEF TablesConsistent, WorkerTypeOK, DBTypeOK, JobRow
  <2>8. \A q \in Repos : ~ repos'[q].live => cells'[q] = "absent"
    BY <2>1, <2>2 DEF PurgeRows, TablesConsistent, WorkerTypeOK, DBTypeOK
  <2> QED
    BY <2>5, <2>6, <2>7, <2>8 DEF TablesConsistent
<1> QED
  BY <1>2, <1>3, <1>4, <1>5 DEF Api

\* Ids are handed out in order, and no row outlives what it belongs to, however
\* users purge repositories under the workers.
THEOREM TablesStayConsistent == Spec => []TablesConsistent
<1>1. WorkerInit => TablesConsistent
  BY DEF WorkerInit, DBInit, Blank, TablesConsistent, RowExists
<1>2. ASSUME WorkerTypeOK, TablesConsistent, [Next]_workerVars
      PROVE  TablesConsistent'
  <2>1. CASE \E w \in Workers : WorkerStep(w)
    BY <1>2, <2>1, WorkerStepConsistent
  <2>2. CASE \E r \in Repos : Api(r)
    BY <1>2, <2>2, ApiConsistent
  <2>3. CASE \/ StrayPush \/ UNCHANGED workerVars \/ \E w \in Workers : Crash(w)
             \/ \E r \in Repos, b \in Bases : DevPush(r, b)
    BY <1>2, <2>3
    DEF StrayPush, DevPush, Crash, workerVars, dbVars, TablesConsistent, RowExists
  <2> QED
    BY <1>2, <2>1, <2>2, <2>3 DEF Next
<1> QED
  BY <1>1, <1>2, TypeCorrect, PTL DEF Spec

\* For any number of jobs, workers, branches and commits, whatever users reset
\* and delete under the workers.
THEOREM JobsStaySound == Spec => []JobsInv
<1>1. WorkerTypeOK /\ TablesConsistent => JobsInv
  BY DEF JobsInv
<1> QED
  BY <1>1, TypeCorrect, TablesStayConsistent, PTL

-----------------------------------------------------------------------------
(* What is on GitHub.  A branch of a job is pushed by its sandbox, or by a     *)
(* container that was left behind with it, and never by both.                  *)

\* Nobody has pushed the branch of job j, and no container may do so later.
Clean(j) == (\A r \in Repos : head[r][j] = 0) /\ (\A s \in strays : s[1] # j)

\* The worker's sandbox has yet to push.
Unpushed(w) == \/ pc[w] \in {"claimed", "resolved", "fetched", "skip", "fresh"}
               \/ pc[w] = "sandbox" /\ box[w].phase = "start" /\ ~ box[w].made
               \/ pc[w] = "sandbox" /\ box[w].phase = "branched"

\* What has become of the sandbox so far: a second try finds the branch of the
\* first.
BoxHonest(w) ==
    /\ pc[w] \in {"idle", "claimed", "resolved", "fetched", "skip", "fresh"} => box[w] = NoBox
    /\ pc[w] = "sandbox" =>
          /\ box[w].phase \in {"branched", "pushed", "reported"} => box[w].made
          /\ box[w].try = 1 /\ box[w].phase = "start" => ~ box[w].made

PushInv ==
    /\ \A j \in JobIds : jobs[j].status \in {"none", "pending"} => Clean(j)
    /\ \A w \in Workers : Unpushed(w) => Clean(wk[w].job)
    /\ \A w \in Workers : BoxHonest(w)
    /\ \A s \in strays : head[s[2]][s[1]] = 0

\* The steps after the base commit was read.
Fetched == {"fetched", "skip", "fresh", "sandbox", "report", "pr", "annotate", "save", "final"}

\* No branch is ahead of its repository; a job's branch is newer than its base.
HeadInv ==
    /\ \A r \in Repos : commits[r] \in 1 .. MaxCommits
    /\ \A r \in Repos, b \in Branches : head[r][b] <= commits[r]
    /\ \A w \in Workers : pc[w] \in Fetched =>
          /\ wk[w].sha <= commits[wk[w].repo]
          /\ head[wk[w].repo][wk[w].job] # 0 => head[wk[w].repo][wk[w].job] > wk[w].sha

\* A worker about to record a success has opened its pull request.
Opened(w) == /\ wk[w].pr
             /\ PullRequest(w) \in prs
             /\ head[wk[w].repo][wk[w].job] > wk[w].sha

OpenedInv == \A w \in Workers :
    pc[w] = "annotate" \/ (pc[w] \in {"save", "final"} /\ ~ wk[w].err) => Opened(w)

RecordInv == PushInv /\ HeadInv /\ OpenedInv /\ SuccessHasPullRequest

-----------------------------------------------------------------------------
(* What a step may do to the others and to GitHub. *)

\* A worker moves alone.
LEMMA OthersStay ==
    ASSUME WorkerTypeOK, NEW w \in Workers, WorkerStep(w) \/ Crash(w),
           NEW v \in Workers, v # w
    PROVE  pc'[v] = pc[v] /\ wk'[v] = wk[v] /\ box'[v] = box[v]
<1>1. CASE Claim(w) \/ ClaimUnread(w)
  BY <1>1 DEF Claim, ClaimUnread, Goto, WorkerTypeOK, workVars
<1>2. CASE Silent(w)
  BY <1>2 DEF Silent, Resolve, FetchMirror, CheckDuplicate, Clone, StepFails, BoxStep, BoxBranch,
     BoxPush, BoxFails, BoxReport, BoxDone, BoxDies, BoxTimeout, ReadResult, CreatePullRequest,
     CreateFails, Annotate, RecordFails, GiveUp, Exit, Leave, Goto, WorkerTypeOK
<1>3. CASE Records(w) \/ Crash(w)
  BY <1>3, RecordsRow DEF Crash, Leave, Goto, WorkerTypeOK
<1>4. CASE SaveResult(w)
  BY <1>4 DEF SaveResult, Goto, WorkerTypeOK
<1> QED
  BY <1>1, <1>2, <1>3, <1>4, WorkerSteps

\* Commits, heads and pull requests are only added to.
GitHubGrows ==
    /\ \A r \in Repos : commits'[r] >= commits[r] /\ commits'[r] \in 1 .. MaxCommits
    /\ \A r \in Repos, b \in Branches : head'[r][b] <= commits'[r]
    /\ \A r \in Repos, b \in Branches : head'[r][b] = head[r][b] \/ head'[r][b] > commits[r]
    /\ prs \subseteq prs'

LEMMA BranchGrows ==
    ASSUME WorkerTypeOK, HeadInv, NEW r \in Repos, NEW b \in Branches,
           commits[r] < MaxCommits,
           commits' = [commits EXCEPT ![r] = @ + 1],
           head' = [head EXCEPT ![r][b] = commits[r] + 1],
           prs' = prs
    PROVE  GitHubGrows
<1>1. \A q \in Repos : commits[q] \in Nat /\ commits[q] \in 1 .. MaxCommits
  BY DEF WorkerTypeOK, HeadInv
<1>2. \A q \in Repos : commits'[q] = IF q = r THEN commits[r] + 1 ELSE commits[q]
  BY DEF WorkerTypeOK
<1>3. \A q \in Repos, c \in Branches :
         head'[q][c] = IF q = r /\ c = b THEN commits[r] + 1 ELSE head[q][c]
  BY DEF WorkerTypeOK
<1>4. \A q \in Repos, c \in Branches : head[q][c] \in Nat /\ head[q][c] <= commits[q]
  BY DEF WorkerTypeOK, HeadInv
<1>5. \A q \in Repos : commits'[q] >= commits[q] /\ commits'[q] \in 1 .. MaxCommits
  BY <1>1, <1>2, WorkerAssumption
<1>6. \A q \in Repos, c \in Branches : head'[q][c] <= commits'[q]
  BY <1>1, <1>2, <1>3, <1>4
<1>7. \A q \in Repos, c \in Branches : head'[q][c] = head[q][c] \/ head'[q][c] > commits[q]
  BY <1>1, <1>3
<1> QED
  BY <1>5, <1>6, <1>7 DEF GitHubGrows

LEMMA GitHubStays ==
    ASSUME WorkerTypeOK, HeadInv, commits' = commits, head' = head, prs \subseteq prs'
    PROVE  GitHubGrows
BY DEF GitHubGrows, HeadInv, WorkerTypeOK

\* Every step of the system.
LEMMA NextGrows ==
    ASSUME WorkerTypeOK, HeadInv, [Next]_workerVars
    PROVE  GitHubGrows
<1>1. CASE StrayPush
  <2>1. PICK s \in strays : PushBranch(s[1], s[2])
    BY <1>1 DEF StrayPush
  <2>2. s[1] \in Branches /\ s[2] \in Repos
    BY DEF WorkerTypeOK, Branches
  <2> QED
    BY <2>1, <2>2, BranchGrows DEF PushBranch
<1>2. CASE \E r \in Repos, b \in Bases : DevPush(r, b)
  BY <1>2, BranchGrows DEF DevPush, Branches
<1>3. CASE \E w \in Workers : BoxPush(w)
  <2>1. PICK w \in Workers : PushBranch(wk[w].job, wk[w].repo)
    BY <1>3 DEF BoxPush
  <2>2. wk[w].job \in Branches /\ wk[w].repo \in Repos
    BY DEF WorkerTypeOK, Locals, Branches
  <2> QED
    BY <2>1, <2>2, BranchGrows DEF PushBranch
<1>4. CASE \E w \in Workers : WorkerStep(w) /\ ~ BoxPush(w)
  <2>1. PICK w \in Workers : WorkerStep(w) /\ ~ BoxPush(w)
    BY <1>4
  <2>2. CASE Claim(w) \/ ClaimUnread(w) \/ SaveResult(w)
    BY <2>2, GitHubStays DEF Claim, ClaimUnread, SaveResult, ghVars
  <2>3. CASE Records(w)
    BY <2>3, RecordsRow, GitHubStays DEF ghVars
  <2>4. CASE Silent(w)
    <3>1. commits' = commits /\ head' = head /\ prs \subseteq prs'
      BY <2>1, <2>4 DEF Silent, Resolve, FetchMirror, CheckDuplicate, Clone, StepFails, BoxStep,
         BoxBranch, BoxFails, BoxReport, BoxDone, BoxDies, BoxTimeout, ReadResult,
         CreatePullRequest, CreateFails, Annotate, RecordFails, GiveUp, ghVars
    <3> QED
      BY <3>1, GitHubStays
  <2> QED
    BY <2>1, <2>2, <2>3, <2>4, WorkerSteps
<1>5. CASE \E w \in Workers : Crash(w)
  BY <1>5, GitHubStays DEF Crash, ghVars
<1>6. CASE \E r \in Repos : Api(r)
  BY <1>6, GitHubStays DEF Api, QueueJob, TriggerJob, WebhookJob, SaveSettings, EditCell, Reset,
     Delete, ghVars
<1>7. CASE UNCHANGED workerVars
  BY <1>7, GitHubStays DEF workerVars, ghVars
<1> QED
  BY <1>1, <1>2, <1>3, <1>4, <1>5, <1>6, <1>7 DEF Next

-----------------------------------------------------------------------------
(* Branches are newer than their base. *)

\* What a worker knows of its commits stays, or is read now.
LEMMA HeadsKept ==
    ASSUME WorkerTypeOK, WorkerTypeOK', HeadInv, GitHubGrows,
           \A v \in Workers : pc'[v] \in Fetched =>
              /\ wk'[v].repo = wk[v].repo /\ wk'[v].job = wk[v].job
              /\ \/ pc[v] \in Fetched /\ wk'[v].sha = wk[v].sha
                 \/ /\ wk'[v].sha <= commits[wk[v].repo]
                    /\ head[wk[v].repo][wk[v].job] = 0
    PROVE  HeadInv'
<1>1. \A v \in Workers : wk[v].repo \in Repos /\ wk[v].job \in JobIds /\ wk[v].sha \in Nat
                      /\ wk'[v].sha \in Nat
  BY DEF WorkerTypeOK, Locals
<1>2. \A r \in Repos, j \in JobIds : head[r][j] \in Nat /\ head'[r][j] \in Nat
                                  /\ commits[r] \in Nat /\ commits'[r] \in Nat
  BY DEF WorkerTypeOK, Branches
<1> SUFFICES ASSUME NEW v \in Workers, pc'[v] \in Fetched
             PROVE  /\ wk'[v].sha <= commits'[wk'[v].repo]
                    /\ head'[wk'[v].repo][wk'[v].job] # 0 =>
                          head'[wk'[v].repo][wk'[v].job] > wk'[v].sha
  BY DEF HeadInv, GitHubGrows
<1>3. /\ wk'[v].sha <= commits[wk[v].repo]
      /\ head[wk[v].repo][wk[v].job] # 0 => head[wk[v].repo][wk[v].job] > wk'[v].sha
  BY DEF HeadInv
<1>4. /\ commits'[wk[v].repo] >= commits[wk[v].repo]
      /\ \/ head'[wk[v].repo][wk[v].job] = head[wk[v].repo][wk[v].job]
         \/ head'[wk[v].repo][wk[v].job] > commits[wk[v].repo]
  BY <1>1 DEF GitHubGrows, Branches
<1> QED
  BY <1>1, <1>2, <1>3, <1>4

\* A worker whose step names its job again keeps to it.
LEMMA SilentLocals ==
    ASSUME WorkerTypeOK, NEW w \in Workers, Silent(w) \/ SaveResult(w), ~ GiveUp(w)
    PROVE  /\ Busy(w)
           /\ wk'[w].job = wk[w].job /\ wk'[w].repo = wk[w].repo /\ wk'[w].trigger = wk[w].trigger
           /\ ~ FetchMirror(w) => wk'[w].sha = wk[w].sha
           /\ ~ Resolve(w) => wk'[w].hash = wk[w].hash /\ wk'[w].base = wk[w].base
<1>1. CASE BoxStep(w)
  BY <1>1 DEF BoxStep, BoxBranch, BoxPush, BoxFails, BoxReport, BoxDone, BoxDies, BoxTimeout,
     Running, Busy, WorkerTypeOK, Locals
<1>2. CASE Resolve(w) \/ FetchMirror(w)
  BY <1>2 DEF Resolve, FetchMirror, Busy, WorkerTypeOK, Locals
<1>3. CASE Clone(w) \/ CreatePullRequest(w) \/ CreateFails(w) \/ Annotate(w)
  BY <1>3 DEF Clone, CreatePullRequest, CreateFails, Annotate, Busy, WorkerTypeOK, Locals
<1>4. CASE CheckDuplicate(w) \/ StepFails(w) \/ ReadResult(w) \/ RecordFails(w) \/ SaveResult(w)
  BY <1>4 DEF CheckDuplicate, StepFails, ReadResult, RecordFails, SaveResult, Busy
<1> QED
  BY <1>1, <1>2, <1>3, <1>4 DEF Silent

LEMMA NextHeads ==
    ASSUME WorkerTypeOK, WorkerTypeOK', HeadInv, PushInv, [Next]_workerVars
    PROVE  HeadInv'
<1> DEFINE Knows(v) == pc'[v] \in Fetched =>
              /\ wk'[v].repo = wk[v].repo /\ wk'[v].job = wk[v].job
              /\ \/ pc[v] \in Fetched /\ wk'[v].sha = wk[v].sha
                 \/ /\ wk'[v].sha <= commits[wk[v].repo]
                    /\ head[wk[v].repo][wk[v].job] = 0
<1>1. ASSUME NEW w \in Workers, WorkerStep(w) \/ Crash(w)
      PROVE  \A v \in Workers : Knows(v)
  <2>1. \A v \in Workers : v # w => Knows(v)
    BY <1>1, OthersStay
  <2>2. CASE Claim(w) \/ ClaimUnread(w) \/ Records(w) \/ Crash(w) \/ GiveUp(w)
    BY <2>1, <2>2, RecordsRow
    DEF Claim, ClaimUnread, Crash, GiveUp, Leave, Goto, Fetched, WorkerTypeOK, workVars
  <2>3. CASE FetchMirror(w)
    <3>1. /\ wk'[w].repo = wk[w].repo /\ wk'[w].job = wk[w].job
          /\ wk'[w].sha = head[wk[w].repo][wk[w].base]
      BY <2>3 DEF FetchMirror, WorkerTypeOK, Locals
    <3>2. /\ wk[w].repo \in Repos /\ wk[w].base \in Branches
          /\ head[wk[w].repo][wk[w].job] = 0
      BY <2>3 DEF FetchMirror, PushInv, Unpushed, Clean, WorkerTypeOK, Locals
    <3> QED
      BY <2>1, <3>1, <3>2 DEF HeadInv
  <2>4. CASE (Silent(w) \/ SaveResult(w)) /\ ~ GiveUp(w) /\ ~ FetchMirror(w)
    <3>1. /\ wk'[w].repo = wk[w].repo /\ wk'[w].job = wk[w].job /\ wk'[w].sha = wk[w].sha
      BY <2>4, SilentLocals
    <3>2. pc'[w] \in Fetched => pc[w] \in Fetched
      <4>1. CASE BoxStep(w)
        BY <4>1 DEF BoxStep, BoxBranch, BoxPush, BoxFails, BoxReport, BoxDone, BoxDies, BoxTimeout,
           Running, Exit, Goto, Fetched, WorkerTypeOK
      <4>2. CASE ~ BoxStep(w)
        BY <2>4, <4>2 DEF Silent, Resolve, CheckDuplicate, Clone, StepFails, ReadResult,
           CreatePullRequest, CreateFails, Annotate, RecordFails, SaveResult, Goto, Fetched,
           WorkerTypeOK
      <4> QED
        BY <4>1, <4>2
    <3> QED
      BY <2>1, <3>1, <3>2
  <2> QED
    BY <1>1, <2>2, <2>3, <2>4, WorkerSteps DEF Silent
<1>2. ASSUME ~ \E w \in Workers : WorkerStep(w) \/ Crash(w)
      PROVE  \A v \in Workers : Knows(v)
  <2>1. pc' = pc /\ wk' = wk
    BY <1>2 DEF Next, StrayPush, DevPush, Api, QueueJob, TriggerJob, WebhookJob, SaveSettings,
       EditCell, Reset, Delete, workerVars, workVars
  <2> QED
    BY <2>1
<1> QED
  BY <1>1, <1>2, NextGrows, HeadsKept

-----------------------------------------------------------------------------
(* A success has a pull request. *)

\* A worker that has opened its pull request has it still.
LEMMA OpenedKept ==
    ASSUME WorkerTypeOK, WorkerTypeOK', HeadInv, GitHubGrows,
           NEW v \in Workers, pc[v] \in Fetched, Opened(v),
           wk'[v].pr = wk[v].pr, wk'[v].job = wk[v].job, wk'[v].repo = wk[v].repo,
           wk'[v].trigger = wk[v].trigger, wk'[v].base = wk[v].base,
           wk'[v].sha = wk[v].sha, wk'[v].hash = wk[v].hash
    PROVE  Opened(v)'
<1>1. wk[v].repo \in Repos /\ wk[v].job \in JobIds /\ wk[v].sha \in Nat
  BY DEF WorkerTypeOK, Locals
<1>2. /\ head[wk[v].repo][wk[v].job] \in Nat /\ head'[wk[v].repo][wk[v].job] \in Nat
      /\ commits[wk[v].repo] \in Nat
  BY <1>1 DEF WorkerTypeOK, Branches
<1>3. wk[v].sha <= commits[wk[v].repo]
  BY DEF HeadInv
<1>4. head'[wk[v].repo][wk[v].job] > wk[v].sha
  BY <1>1, <1>2, <1>3 DEF GitHubGrows, Opened, Branches
<1> QED
  BY <1>4 DEF Opened, PullRequest, GitHubGrows

LEMMA NextOpened ==
    ASSUME WorkerTypeOK, WorkerTypeOK', HeadInv, OpenedInv, [Next]_workerVars
    PROVE  OpenedInv'
<1> DEFINE Claims(v) == pc[v] = "annotate" \/ (pc[v] \in {"save", "final"} /\ ~ wk[v].err)
           Same(v) == /\ wk'[v].pr = wk[v].pr /\ wk'[v].job = wk[v].job
                      /\ wk'[v].repo = wk[v].repo /\ wk'[v].trigger = wk[v].trigger
                      /\ wk'[v].base = wk[v].base /\ wk'[v].sha = wk[v].sha
                      /\ wk'[v].hash = wk[v].hash
<1>0. GitHubGrows
  BY NextGrows
<1>1. \A v \in Workers : Claims(v) /\ Same(v) => Opened(v)'
  BY <1>0, OpenedKept DEF OpenedInv, Fetched
<1>2. ASSUME NEW w \in Workers, WorkerStep(w) \/ Crash(w),
             Claims(w)' => (Claims(w) /\ Same(w)) \/ Opened(w)'
      PROVE  OpenedInv'
  <2>1. \A v \in Workers : v # w => (Claims(v)' => Claims(v)) /\ Same(v)
    BY <1>2, OthersStay
  <2> QED
    BY <1>1, <1>2, <2>1 DEF OpenedInv
<1>3. ASSUME NEW w \in Workers, WorkerStep(w) \/ Crash(w)
      PROVE  Claims(w)' => (Claims(w) /\ Same(w)) \/ Opened(w)'
  <2>1. CASE Claim(w) \/ ClaimUnread(w) \/ Records(w) \/ Crash(w) \/ GiveUp(w)
    BY <2>1, RecordsRow
    DEF Claim, ClaimUnread, Crash, GiveUp, Leave, Goto, WorkerTypeOK, workVars
  <2>2. CASE CreatePullRequest(w)
    <3>1. CASE pc'[w] = "annotate"
      <4>1. /\ wk'[w].pr = TRUE /\ wk'[w].job = wk[w].job
            /\ wk'[w].repo = wk[w].repo /\ wk'[w].trigger = wk[w].trigger
            /\ wk'[w].base = wk[w].base /\ wk'[w].sha = wk[w].sha
            /\ wk'[w].hash = wk[w].hash
        BY <2>2, <3>1 DEF CreatePullRequest, Goto, WorkerTypeOK, Locals
      <4>2. head' = head /\ PullRequest(w) \in prs'
        BY <2>2 DEF CreatePullRequest
      <4>3. head[wk[w].repo][wk[w].job] > wk[w].sha
        <5>1. head[wk[w].repo][wk[w].job] \in Nat
          BY DEF WorkerTypeOK, Locals, Branches
        <5> QED
          BY <2>2, <5>1 DEF CreatePullRequest, HeadInv, Fetched
      <4> QED
        BY <4>1, <4>2, <4>3 DEF Opened, PullRequest
    <3>2. CASE pc'[w] # "annotate"
      BY <2>2, <3>2 DEF CreatePullRequest, Goto, WorkerTypeOK, Locals
    <3> QED
      BY <3>1, <3>2
  <2>3. CASE Resolve(w) \/ FetchMirror(w) \/ CheckDuplicate(w) \/ Clone(w) \/ StepFails(w)
             \/ BoxStep(w) \/ ReadResult(w) \/ RecordFails(w)
    <3>1. CASE BoxStep(w)
      BY <3>1 DEF BoxStep, BoxBranch, BoxPush, BoxFails, BoxReport, BoxDone, BoxDies, BoxTimeout,
         Running, Exit, Goto, WorkerTypeOK
    <3>2. CASE ~ BoxStep(w)
      BY <2>3, <3>2 DEF Resolve, FetchMirror, CheckDuplicate, Clone, StepFails, ReadResult,
         RecordFails, Goto, WorkerTypeOK
    <3> QED
      BY <3>1, <3>2
  <2>4. CASE CreateFails(w) \/ Annotate(w) \/ SaveResult(w)
    BY <2>4 DEF CreateFails, Annotate, SaveResult, Goto, WorkerTypeOK, Locals
  <2> QED
    BY <1>3, <2>1, <2>2, <2>3, <2>4, WorkerSteps DEF Silent
<1>4. CASE ~ \E w \in Workers : WorkerStep(w) \/ Crash(w)
  <2>1. pc' = pc /\ wk' = wk
    BY <1>4 DEF Next, StrayPush, DevPush, Api, QueueJob, TriggerJob, WebhookJob, SaveSettings,
       EditCell, Reset, Delete, workerVars, workVars
  <2> QED
    BY <1>1, <2>1 DEF OpenedInv
<1> QED
  BY <1>2, <1>3, <1>4

\* A recorded success keeps its pull request and its branch.
LEMMA SuccessKept ==
    ASSUME WorkerTypeOK, WorkerTypeOK', HeadInv, SuccessHasPullRequest, GitHubGrows,
           NEW j \in JobIds, jobs'[j].status \in Success, jobs'[j] = jobs[j]
    PROVE  /\ jobs'[j].pr
           /\ jobs'[j].branch = j
           /\ head'[jobs'[j].repo][j] > jobs'[j].sha
           /\ \E p \in prs' : /\ p.job = j
                              /\ p.repo = jobs'[j].repo
                              /\ p.sha = jobs'[j].sha
                              /\ p.hash = jobs'[j].hash
<1>1. /\ jobs[j].repo \in Repos /\ jobs[j].sha \in Nat
      /\ j \in Branches
  BY DEF WorkerTypeOK, DBTypeOK, JobRow, Branches
<1>2. /\ head[jobs[j].repo][j] \in Nat /\ head'[jobs[j].repo][j] \in Nat
      /\ commits[jobs[j].repo] \in Nat /\ head[jobs[j].repo][j] <= commits[jobs[j].repo]
  BY <1>1 DEF WorkerTypeOK, HeadInv
<1>3. head[jobs[j].repo][j] > jobs[j].sha
  BY DEF SuccessHasPullRequest
<1>4. head'[jobs[j].repo][j] > jobs[j].sha
  BY <1>1, <1>2, <1>3 DEF GitHubGrows
<1> QED
  BY <1>4 DEF SuccessHasPullRequest, GitHubGrows

\* A row becomes a success by RecordFinal only, whose worker has opened the
\* pull request.
LEMMA FinalHasPullRequest ==
    ASSUME WorkerTypeOK, HoldsRow, OpenedInv, NEW w \in Workers, RecordFinal(w),
           RowExists(wk[w].job), FinalStatus(w) \in Success
    PROVE  LET j == wk[w].job IN
           /\ jobs'[j].pr
           /\ jobs'[j].branch = j
           /\ head'[jobs'[j].repo][j] > jobs'[j].sha
           /\ \E p \in prs' : /\ p.job = j
                              /\ p.repo = jobs'[j].repo
                              /\ p.sha = jobs'[j].sha
                              /\ p.hash = jobs'[j].hash
<1>1. PICK j \in JobIds : j = wk[w].job
  BY BusyJob
<1>2. ~ wk[w].err
  <2>1. wk[w].err => FinalStatus(w) = "failed"
    BY DEF FinalStatus
  <2> QED
    BY <2>1 DEF Success
<1>3. Opened(w) /\ jobs[j].repo = wk[w].repo
  BY <1>1, <1>2 DEF RecordFinal, OpenedInv, HoldsRow, Busy
<1>4. /\ jobs'[j].pr = wk[w].pr /\ jobs'[j].branch = j /\ jobs'[j].repo = wk[w].repo
      /\ jobs'[j].sha = wk[w].sha /\ jobs'[j].hash = wk[w].hash
  BY <1>1, <1>3 DEF RecordFinal, UpdateJobStatus, WorkerTypeOK, DBTypeOK, JobRow
<1>5. head' = head /\ prs' = prs
  BY DEF RecordFinal, ghVars
<1> QED
  BY <1>1, <1>3, <1>4, <1>5 DEF Opened, PullRequest

LEMMA NextSuccess ==
    ASSUME WorkerTypeOK, WorkerTypeOK', HoldsRow, HeadInv, OpenedInv, SuccessHasPullRequest,
           [Next]_workerVars
    PROVE  SuccessHasPullRequest'
<1>0. GitHubGrows
  BY NextGrows
<1>1. ASSUME \A j \in JobIds : jobs'[j].status \in Success => jobs'[j] = jobs[j]
      PROVE  SuccessHasPullRequest'
  BY <1>0, <1>1, SuccessKept DEF SuccessHasPullRequest
<1>2. CASE \E w \in Workers : WorkerStep(w)
  <2>1. PICK w \in Workers : WorkerStep(w)
    BY <1>2
  <2>2. CASE Claim(w) \/ ClaimUnread(w)
    <3>1. PICK j \in JobIds : ClaimNextPendingJob(j)
      BY <2>2 DEF Claim, ClaimUnread
    <3>2. /\ jobs'[j].status = "running"
          /\ \A i \in JobIds : i # j => jobs'[i] = jobs[i]
      BY <3>1 DEF ClaimNextPendingJob, WorkerTypeOK, DBTypeOK, JobRow
    <3> QED
      BY <1>1, <3>2 DEF Success
  <2>3. CASE Silent(w) \/ SaveResult(w)
    BY <1>1, <2>3, SilentTables DEF SaveResult, dbVars
  <2>4. CASE Records(w)
    <3>1. PICK job \in JobIds : job = wk[w].job
      BY BusyJob
    <3>2. \A j \in JobIds : j # job \/ ~ RowExists(job) => jobs'[j] = jobs[j]
      BY <2>4, <3>1, RecordsRow, EndedRow
    <3>3. CASE RecordFinal(w) /\ RowExists(job) /\ FinalStatus(w) \in Success
      BY <1>0, <3>1, <3>2, <3>3, SuccessKept, FinalHasPullRequest DEF SuccessHasPullRequest
    <3>4. CASE ~ (RecordFinal(w) /\ RowExists(job) /\ FinalStatus(w) \in Success)
      <4>0. "skipped_no_changes" \in Terminal \ Success /\ "failed" \in Terminal \ Success
        BY DEF Terminal, Success
      <4>1. PICK status \in Terminal : Ended(job, status) /\ (RowExists(job) => status \notin Success)
        <5>1. CASE RecordFinal(w)
          BY <3>1, <3>4, <5>1, FinalStatusEnds DEF RecordFinal, Ended
        <5>2. CASE RecordSkip(w)
          <6>1. Ended(job, "skipped_no_changes")
            BY <3>1, <5>2 DEF RecordSkip, Ended
          <6> QED
            BY <4>0, <6>1, Zenon
        <5>3. CASE RecordNoResult(w)
          <6>1. Ended(job, "failed")
            BY <3>1, <5>3 DEF RecordNoResult, Ended
          <6> QED
            BY <4>0, <6>1, Zenon
        <5>4. CASE RecordFailure(w)
          <6>1. Ended(job, "failed")
            BY <3>1, <5>4 DEF RecordFailure, Ended
          <6> QED
            BY <4>0, <6>1, Zenon
        <5> QED
          BY <2>4, <5>1, <5>2, <5>3, <5>4 DEF Records
      <4>2. RowExists(job) => jobs'[job].status \notin Success
        BY <4>1, EndedRow
      <4> QED
        BY <1>1, <3>2, <4>2
    <3> QED
      BY <3>3, <3>4
  <2> QED
    BY <2>1, <2>2, <2>3, <2>4, WorkerSteps
<1>3. CASE \E r \in Repos : Api(r)
  <2>1. PICK r \in Repos : Api(r)
    BY <1>3
  <2>2. CASE QueueJob(r)
    <3>1. PICK j \in JobIds, trigger \in Triggers, b \in Branches :
             CreateJobWithBranch(j, r, trigger, b)
      BY <2>2, SourcesAssumption DEF QueueJob, TriggerJob, WebhookJob, Triggers
    <3>2. /\ jobs'[j].status = "pending"
          /\ \A i \in JobIds : i # j => jobs'[i] = jobs[i]
      BY <3>1 DEF CreateJobWithBranch, Blank, WorkerTypeOK, DBTypeOK
    <3> QED
      BY <1>1, <3>2 DEF Success
  <2>3. CASE SaveSettings(r) \/ EditCell(r)
    BY <1>1, <2>3 DEF SaveSettings, EditCell
  <2>4. CASE Reset(r) \/ Delete(r)
    BY <1>1, <2>4 DEF Reset, Delete, ResetRepoData, DeleteRepo, PurgeRows, Blank, Success
  <2> QED
    BY <2>1, <2>2, <2>3, <2>4 DEF Api
<1>4. CASE \/ StrayPush \/ UNCHANGED workerVars \/ \E w \in Workers : Crash(w)
           \/ \E r \in Repos, b \in Bases : DevPush(r, b)
  BY <1>1, <1>4 DEF StrayPush, DevPush, Crash, workerVars, dbVars
<1> QED
  BY <1>2, <1>3, <1>4 DEF Next

-----------------------------------------------------------------------------
(* A branch is pushed once. *)

\* Steps that push nothing and leave no container behind.
LEMMA CalmPushes ==
    ASSUME WorkerTypeOK, PushInv, strays' = strays,
           \A r \in Repos, j \in JobIds : head'[r][j] = head[r][j],
           \A j \in JobIds : jobs'[j].status \in {"none", "pending"}
                                => jobs[j].status \in {"none", "pending"},
           \A v \in Workers : Unpushed(v)' =>
              \/ Unpushed(v) /\ wk'[v].job = wk[v].job
              \/ jobs[wk'[v].job].status = "pending" /\ wk'[v].job \in JobIds,
           \A v \in Workers : BoxHonest(v)'
    PROVE  PushInv'
<1>1. \A j \in JobIds : Clean(j) => Clean(j)'
  BY DEF Clean
<1>2. \A s \in strays : s[1] \in JobIds /\ s[2] \in Repos
  BY DEF WorkerTypeOK
<1> QED
  BY <1>1, <1>2, BusyJob DEF PushInv

\* A push of a branch that nobody else will push.
LEMMA PushBranchPushes ==
    ASSUME WorkerTypeOK, PushInv, NEW j \in JobIds, NEW r \in Repos, PushBranch(j, r),
           jobs' = jobs, wk' = wk,
           jobs[j].status \notin {"none", "pending"},
           \A v \in Workers : Unpushed(v)' => Unpushed(v) /\ wk[v].job # j,
           \A v \in Workers : BoxHonest(v)',
           strays' \subseteq strays, <<j, r>> \notin strays'
    PROVE  PushInv'
<1>1. \A q \in Repos, i \in JobIds : i # j \/ q # r => head'[q][i] = head[q][i]
  BY DEF PushBranch, WorkerTypeOK
<1>2. \A i \in JobIds : i # j /\ Clean(i) => Clean(i)'
  BY <1>1 DEF Clean
<1>3. \A s \in strays' : head'[s[2]][s[1]] = 0
  <2> SUFFICES ASSUME NEW s \in strays' PROVE head'[s[2]][s[1]] = 0
    OBVIOUS
  <2>1. s[1] \in JobIds /\ s[2] \in Repos /\ s = <<s[1], s[2]>> /\ s \in strays
    BY DEF WorkerTypeOK
  <2> QED
    BY <1>1, <2>1 DEF PushInv
<1> QED
  BY <1>2, <1>3, BusyJob DEF PushInv

\* A container is left behind with a branch that its worker will not push.
LEMMA StrayPushes ==
    ASSUME WorkerTypeOK, ExclusiveRun, PushInv, NEW w \in Workers, Busy(w),
           strays' = strays \cup Abandoned(w), head' = head, jobs' = jobs,
           pc[w] = "sandbox", ~ Unpushed(w)', BoxHonest(w)',
           \A v \in Workers : v # w => pc'[v] = pc[v] /\ wk'[v] = wk[v] /\ box'[v] = box[v]
    PROVE  PushInv'
<1>1. jobs[wk[w].job].status \notin {"none", "pending"}
  BY DEF ExclusiveRun
<1>2. Abandoned(w) # {} => Clean(wk[w].job)
  BY DEF Abandoned, PushInv, Unpushed, BoxHonest
<1>3. \A j \in JobIds : j # wk[w].job /\ Clean(j) => Clean(j)'
  BY DEF Clean, Abandoned
<1>4. \A v \in Workers : v # w /\ Unpushed(v)' => Unpushed(v) /\ Busy(v)
  BY DEF Unpushed, Busy
<1>5. \A v \in Workers : v # w /\ Unpushed(v)' => wk[v].job # wk[w].job
  BY <1>4 DEF ExclusiveRun
<1>6. \A s \in strays' : head'[s[2]][s[1]] = 0
  <2>1. wk[w].repo \in Repos
    BY DEF WorkerTypeOK, Locals
  <2> QED
    BY <1>2, <2>1 DEF Abandoned, Clean, PushInv
<1>7. \A v \in Workers : Unpushed(v)' => Clean(wk[v].job)' /\ wk'[v] = wk[v]
  BY <1>3, <1>4, <1>5, BusyJob DEF PushInv
<1>8. \A v \in Workers : BoxHonest(v)'
  BY DEF PushInv, BoxHonest
<1> QED
  BY <1>1, <1>3, <1>6, <1>7, <1>8 DEF PushInv

\* The sandbox, step by step.
LEMMA BoxPushes ==
    ASSUME WorkerTypeOK, ExclusiveRun, PushInv, NEW w \in Workers, BoxStep(w)
    PROVE  PushInv'
<1>0. /\ box[w] \in Box /\ Busy(w) /\ BoxHonest(w)
      /\ Running(w, {"start", "branched", "pushed", "reported"})
      /\ wk[w].job \in JobIds /\ wk[w].repo \in Repos
  BY DEF BoxStep, BoxBranch, BoxPush, BoxFails, BoxReport, BoxDone, BoxDies, BoxTimeout, Running,
     Busy, PushInv, WorkerTypeOK, Locals
<1>1. \A v \in Workers : v # w => pc'[v] = pc[v] /\ wk'[v] = wk[v] /\ box'[v] = box[v]
  BY OthersStay DEF WorkerStep
<1>2. jobs' = jobs
  BY SilentTables DEF Silent, dbVars
<1>3. \A v \in Workers : v # w => BoxHonest(v)' /\ (Unpushed(v)' => Unpushed(v))
  BY <1>1 DEF PushInv, BoxHonest, Unpushed
<1>4. ASSUME NEW result, Exit(w, result)
      PROVE  BoxHonest(w)' /\ (Unpushed(w)' => Unpushed(w))
  <2>1. CASE box' = [box EXCEPT ![w] = [@ EXCEPT !.try = 2, !.phase = "start",
                                               !.result = result]] /\ pc' = pc
    <3>1. box'[w].try = 2 /\ box'[w].phase = "start" /\ box'[w].made = box[w].made
      BY <1>0, <2>1 DEF WorkerTypeOK, Box
    <3> QED
      BY <1>0, <2>1, <3>1 DEF Running, BoxHonest, Unpushed
  <2>2. CASE Goto(w, "report")
    BY <2>2 DEF Goto, BoxHonest, Unpushed, WorkerTypeOK
  <2> QED
    BY <1>4, <2>1, <2>2 DEF Exit
<1>5. CASE BoxPush(w)
  <2>1. /\ BoxHonest(w)' /\ ~ Unpushed(w)'
    BY <1>0, <1>5 DEF BoxPush, Running, BoxHonest, Unpushed, WorkerTypeOK, Box
  <2>2. \A v \in Workers : Unpushed(v)' => Unpushed(v) /\ wk[v].job # wk[w].job
    BY <1>0, <1>3, <2>1 DEF ExclusiveRun, Unpushed, Busy
  <2>3. jobs[wk[w].job].status \notin {"none", "pending"}
    BY <1>0 DEF ExclusiveRun
  <2>4. strays' \subseteq strays /\ <<wk[w].job, wk[w].repo>> \notin strays'
    BY <1>0, <1>5 DEF BoxPush, Running, PushInv, Unpushed, Clean
  <2>5. PushBranch(wk[w].job, wk[w].repo) /\ wk' = wk
    BY <1>5 DEF BoxPush
  <2> QED
    BY <1>0, <1>2, <1>3, <2>1, <2>2, <2>3, <2>4, <2>5, PushBranchPushes
<1>6. CASE BoxTimeout(w)
  <2>1. BoxHonest(w)' /\ ~ Unpushed(w)'
    BY <1>0, <1>6 DEF BoxTimeout, Goto, BoxHonest, Unpushed, WorkerTypeOK, Box
  <2> QED
    BY <1>0, <1>1, <1>2, <1>6, <2>1, StrayPushes DEF BoxTimeout, Running, ghVars
<1>7. CASE BoxBranch(w) \/ BoxFails(w) \/ BoxReport(w) \/ BoxDone(w) \/ BoxDies(w)
  <2>1. strays' = strays /\ head' = head /\ wk' = wk
    BY <1>7 DEF BoxBranch, BoxFails, BoxReport, BoxDone, BoxDies, ghVars
  <2>2. BoxHonest(w)' /\ (Unpushed(w)' => Unpushed(w))
    <3>1. CASE BoxBranch(w)
      BY <1>0, <1>4, <3>1
      DEF BoxBranch, Running, BoxHonest, Unpushed, WorkerTypeOK, Box
    <3>2. CASE BoxFails(w) \/ BoxDies(w)
      BY <1>4, <3>2 DEF BoxFails, BoxDies
    <3>3. CASE BoxReport(w) \/ BoxDone(w)
      BY <1>0, <3>3 DEF BoxReport, BoxDone, Running, Goto, BoxHonest, Unpushed, WorkerTypeOK, Box
    <3> QED
      BY <1>7, <3>1, <3>2, <3>3
  <2> QED
    BY <1>2, <1>3, <2>1, <2>2, CalmPushes
<1> QED
  BY <1>5, <1>6, <1>7 DEF BoxStep

\* Every step of a worker.
LEMMA WorkerStepPushes ==
    ASSUME WorkerTypeOK, ExclusiveRun, PushInv, NEW w \in Workers, WorkerStep(w)
    PROVE  PushInv'
<1>1. \A v \in Workers : v # w => pc'[v] = pc[v] /\ wk'[v] = wk[v] /\ box'[v] = box[v]
  BY OthersStay
<1>2. \A v \in Workers : v # w => BoxHonest(v)' /\ (Unpushed(v)' => Unpushed(v))
  BY <1>1 DEF PushInv, BoxHonest, Unpushed
<1>3. BoxHonest(w) /\ box[w] \in Box
  BY DEF PushInv, WorkerTypeOK
<1>4. CASE Claim(w) \/ ClaimUnread(w)
  <2>1. PICK j \in JobIds : ClaimNextPendingJob(j) /\ (Claim(w) => wk'[w].job = j)
    BY <1>4 DEF Claim, ClaimUnread, NoLocals, WorkerTypeOK
  <2>2. /\ jobs[j].status = "pending"
        /\ \A i \in JobIds : jobs'[i].status \in {"none", "pending"}
                                => jobs[i].status \in {"none", "pending"}
    BY <2>1 DEF ClaimNextPendingJob, IsNextPending, WorkerTypeOK, DBTypeOK, JobRow
  <2>3. strays' = strays /\ head' = head
    BY <1>4 DEF Claim, ClaimUnread, workVars, ghVars
  <2>4. BoxHonest(w)'
    BY <1>3, <1>4 DEF Claim, ClaimUnread, Goto, workVars, BoxHonest, WorkerTypeOK
  <2>5. ~ Claim(w) => ~ Unpushed(w)'
    BY <1>4 DEF ClaimUnread, workVars, Unpushed
  <2> QED
    BY <1>1, <1>2, <2>1, <2>2, <2>3, <2>4, <2>5, CalmPushes
<1>5. CASE Records(w) \/ GiveUp(w)
  <2>1. Leave(w) /\ strays' = strays /\ head' = head
    BY <1>5, RecordsRow DEF GiveUp, ghVars
  <2>2. BoxHonest(w)' /\ ~ Unpushed(w)'
    BY <2>1 DEF Leave, Goto, BoxHonest, Unpushed, WorkerTypeOK
  <2>3. \A j \in JobIds : jobs'[j].status \in {"none", "pending"}
                             => jobs[j].status \in {"none", "pending"}
    <3>1. CASE GiveUp(w)
      BY <3>1 DEF GiveUp, dbVars
    <3>2. CASE Records(w)
      <4>1. PICK job \in JobIds : job = wk[w].job
        BY BusyJob
      <4>2. PICK status \in Terminal : Ended(job, status)
        BY <3>2, <4>1, RecordsRow
      <4>3. \A j \in JobIds : jobs'[j] = jobs[j] \/ jobs'[j].status = status
        BY <4>2, EndedRow
      <4> QED
        BY <4>3 DEF Terminal, Success
    <3> QED
      BY <1>5, <3>1, <3>2
  <2> QED
    BY <1>1, <1>2, <2>1, <2>2, <2>3, CalmPushes
<1>6. CASE BoxStep(w)
  BY <1>6, BoxPushes
<1>7. CASE (Silent(w) \/ SaveResult(w)) /\ ~ GiveUp(w) /\ ~ BoxStep(w)
  <2>1. jobs' = jobs
    BY <1>7, SilentTables DEF SaveResult, dbVars
  <2>2. wk'[w].job = wk[w].job
    BY <1>7, SilentLocals
  <2>3. strays' = strays /\ head' = head
    BY <1>7 DEF Silent, Resolve, FetchMirror, CheckDuplicate, Clone, StepFails, ReadResult,
       CreatePullRequest, CreateFails, Annotate, RecordFails, SaveResult, ghVars
  <2>4. BoxHonest(w)' /\ (Unpushed(w)' => Unpushed(w))
    <3>1. CASE Clone(w)
      BY <1>3, <3>1 DEF Clone, Goto, BoxHonest, Unpushed, NoBox, WorkerTypeOK, Box
    <3>2. CASE ~ Clone(w)
      BY <1>3, <1>7, <3>2 DEF Silent, Resolve, FetchMirror, CheckDuplicate, StepFails, ReadResult,
         CreatePullRequest, CreateFails, Annotate, RecordFails, SaveResult, Goto, BoxHonest,
         Unpushed, WorkerTypeOK
    <3> QED
      BY <3>1, <3>2
  <2> QED
    BY <1>1, <1>2, <2>1, <2>2, <2>3, <2>4, CalmPushes
<1> QED
  BY <1>4, <1>5, <1>6, <1>7, WorkerSteps DEF Silent

\* Every step of the system.
LEMMA NextPushes ==
    ASSUME WorkerTypeOK, ExclusiveRun, PushInv, [Next]_workerVars
    PROVE  PushInv'
<1>1. CASE \E w \in Workers : WorkerStep(w)
  BY <1>1, WorkerStepPushes
<1>2. CASE \E w \in Workers : Crash(w)
  <2>1. PICK w \in Workers : Crash(w)
    BY <1>2
  <2>2. jobs' = jobs /\ head' = head
    BY <2>1 DEF Crash, dbVars, ghVars
  <2>3. BoxHonest(w)' /\ ~ Unpushed(w)'
    BY <2>1 DEF Crash, Leave, Goto, BoxHonest, Unpushed, WorkerTypeOK
  <2>4. \A v \in Workers : v # w => pc'[v] = pc[v] /\ wk'[v] = wk[v] /\ box'[v] = box[v]
    BY <2>1, OthersStay
  <2>5. CASE pc[w] = "sandbox"
    BY <2>1, <2>2, <2>3, <2>4, <2>5, StrayPushes DEF Crash, Busy
  <2>6. CASE pc[w] # "sandbox"
    <3>1. strays' = strays
      BY <2>1, <2>6 DEF Crash
    <3>2. \A v \in Workers : BoxHonest(v)' /\ (Unpushed(v)' => Unpushed(v) /\ wk'[v] = wk[v])
      BY <2>3, <2>4 DEF PushInv, BoxHonest, Unpushed
    <3> QED
      BY <2>2, <3>1, <3>2, CalmPushes
  <2> QED
    BY <2>5, <2>6
<1>3. CASE StrayPush
  <2>1. PICK s \in strays : strays' = strays \ {s} /\ PushBranch(s[1], s[2])
    BY <1>3 DEF StrayPush
  <2>2. s[1] \in JobIds /\ s[2] \in Repos /\ s = <<s[1], s[2]>>
    BY DEF WorkerTypeOK
  <2>3. ~ Clean(s[1])
    BY DEF Clean
  <2>4. jobs' = jobs /\ wk' = wk /\ pc' = pc /\ box' = box
    BY <1>3 DEF StrayPush, dbVars
  <2>5. \A v \in Workers : BoxHonest(v)' /\ (Unpushed(v)' => Unpushed(v) /\ wk[v].job # s[1])
    BY <2>3, <2>4 DEF PushInv, BoxHonest, Unpushed
  <2> QED
    BY <2>1, <2>2, <2>3, <2>4, <2>5, PushBranchPushes DEF PushInv
<1>4. CASE \E r \in Repos, b \in Bases : DevPush(r, b)
  <2>1. PICK r \in Repos, b \in Bases : DevPush(r, b)
    BY <1>4
  <2>2. \A q \in Repos, j \in JobIds : head'[q][j] = head[q][j]
    <3>1. b \notin JobIds
      BY DBAssumption DEF JobIds
    <3> QED
      BY <2>1, <3>1 DEF DevPush, WorkerTypeOK
  <2>3. jobs' = jobs /\ wk' = wk /\ pc' = pc /\ box' = box /\ strays' = strays
    BY <2>1 DEF DevPush, dbVars, workVars
  <2> QED
    BY <2>2, <2>3, CalmPushes DEF PushInv, BoxHonest, Unpushed
<1>5. CASE UNCHANGED workerVars \/ \E r \in Repos : Api(r)
  <2>1. head' = head /\ wk' = wk /\ pc' = pc /\ box' = box /\ strays' = strays
    BY <1>5 DEF workerVars, ghVars, workVars, Api, QueueJob, TriggerJob, WebhookJob, SaveSettings,
       EditCell, Reset, Delete
  <2>2. \A j \in JobIds : jobs'[j].status \in {"none", "pending"}
                             => jobs[j].status \in {"none", "pending"}
    <3>1. CASE \E r \in Repos : Reset(r) \/ Delete(r)
      BY <3>1 DEF Reset, Delete, ResetRepoData, DeleteRepo, PurgeRows, Blank
    <3>2. CASE \E r \in Repos : QueueJob(r)
      <4>1. PICK j \in JobIds : \E r, trigger, b : CreateJobWithBranch(j, r, trigger, b)
        BY <3>2 DEF QueueJob, TriggerJob, WebhookJob
      <4> QED
        BY <4>1 DEF CreateJobWithBranch, WorkerTypeOK, DBTypeOK
    <3>3. CASE jobs' = jobs
      BY <3>3
    <3> QED
      BY <1>5, <3>1, <3>2, <3>3 DEF Api, SaveSettings, EditCell, workerVars, dbVars
  <2> QED
    BY <2>1, <2>2, CalmPushes DEF PushInv, BoxHonest, Unpushed
<1> QED
  BY <1>1, <1>2, <1>3, <1>4, <1>5 DEF Next

-----------------------------------------------------------------------------
(* Every row left behind is accounted for. *)

\* A worker that goes on with its job is not idle afterwards.
LEMMA GoesOn ==
    ASSUME WorkerTypeOK, NEW w \in Workers, Silent(w) \/ SaveResult(w), ~ GiveUp(w)
    PROVE  Busy(w)'
<1>1. CASE BoxStep(w)
  BY <1>1 DEF BoxStep, BoxBranch, BoxPush, BoxFails, BoxReport, BoxDone, BoxDies, BoxTimeout,
     Running, Exit, Goto, Busy, WorkerTypeOK
<1>2. CASE ~ BoxStep(w)
  BY <1>2 DEF Silent, Resolve, FetchMirror, CheckDuplicate, Clone, StepFails, ReadResult,
     CreatePullRequest, CreateFails, Annotate, RecordFails, SaveResult, Goto, Busy, WorkerTypeOK
<1> QED
  BY <1>1, <1>2

\* Budgets only grow.
LEMMA BudgetsGrow ==
    ASSUME WorkerTypeOK, [Next]_workerVars
    PROVE  /\ faults' \in Nat /\ crashes' \in Nat
           /\ faults' + crashes' >= faults + crashes
<1>1. CASE \E w \in Workers : WorkerStep(w)
  <2>1. PICK w \in Workers : WorkerStep(w)
    BY <1>1
  <2>2. CASE Claim(w) \/ SaveResult(w)
    <3>1. faults' = faults /\ crashes' = crashes
      BY <2>2 DEF Claim, SaveResult, budgetVars
    <3> QED
      BY <3>1 DEF WorkerTypeOK, DBTypeOK
  <2>3. CASE ClaimUnread(w)
    <3>1. faults' = faults + 1 /\ crashes' = crashes
      BY <2>3 DEF ClaimUnread, DBFault
    <3> QED
      BY <3>1 DEF WorkerTypeOK, DBTypeOK
  <2>4. CASE Records(w)
    BY <2>4, RecordsRow DEF budgetVars, WorkerTypeOK, DBTypeOK
  <2>5. CASE Silent(w)
    BY <2>5 DEF Silent, Resolve, FetchMirror, CheckDuplicate, Clone, StepFails, BoxStep, BoxBranch,
       BoxPush, BoxFails, BoxReport, BoxDone, BoxDies, BoxTimeout, ReadResult, CreatePullRequest,
       CreateFails, Annotate, RecordFails, GiveUp, DBFault, budgetVars, WorkerTypeOK, DBTypeOK
  <2> QED
    BY <2>1, <2>2, <2>3, <2>4, <2>5, WorkerSteps
<1>2. CASE ~ \E w \in Workers : WorkerStep(w)
  BY <1>2 DEF Next, Crash, StrayPush, DevPush, Api, QueueJob, TriggerJob, WebhookJob, SaveSettings,
     EditCell, Reset, Delete, workerVars, budgetVars, WorkerTypeOK, DBTypeOK
<1> QED
  BY <1>1, <1>2

\* A step leaves nothing behind, or one row for the statement that failed or
\* the process that died.
StrandsOne == \E x \in JobIds : /\ Stranded' \subseteq Stranded \cup {x}
                                /\ faults' + crashes' = faults + crashes + 1

LEMMA WorkerStepStrands ==
    ASSUME WorkerTypeOK, NEW w \in Workers, WorkerStep(w) \/ Crash(w)
    PROVE  Stranded' \subseteq Stranded \/ StrandsOne
<1>1. \A v \in Workers : v # w => wk'[v] = wk[v] /\ (Busy(v)' <=> Busy(v))
  BY OthersStay DEF Busy
<1>2. faults \in Nat /\ crashes \in Nat
  BY DEF WorkerTypeOK, DBTypeOK
<1>3. CASE Claim(w)
  <2>1. PICK j \in JobIds : ClaimNextPendingJob(j) /\ wk'[w].job = j /\ Busy(w)' /\ ~ Busy(w)
    BY <1>3 DEF Claim, Goto, NoLocals, Busy, WorkerTypeOK
  <2>2. \A i \in JobIds : i # j => jobs'[i] = jobs[i]
    BY <2>1 DEF ClaimNextPendingJob, WorkerTypeOK, DBTypeOK
  <2> QED
    BY <1>1, <2>1, <2>2 DEF Stranded
<1>4. CASE ClaimUnread(w)
  <2>1. PICK j \in JobIds : ClaimNextPendingJob(j)
    BY <1>4 DEF ClaimUnread
  <2>2. \A i \in JobIds : i # j => jobs'[i] = jobs[i]
    BY <2>1 DEF ClaimNextPendingJob, WorkerTypeOK, DBTypeOK
  <2>3. Stranded' \subseteq Stranded \cup {j}
    BY <1>4, <2>2 DEF ClaimUnread, workVars, Stranded, Busy
  <2>4. faults' + crashes' = faults + crashes + 1
    BY <1>2, <1>4 DEF ClaimUnread, DBFault
  <2> QED
    BY <2>3, <2>4 DEF StrandsOne
<1>5. CASE GiveUp(w) \/ Crash(w)
  <2>1. jobs' = jobs
    BY <1>5 DEF GiveUp, Crash, dbVars
  <2>2. Stranded' \subseteq Stranded \cup {wk[w].job}
    BY <1>1, <2>1 DEF Stranded
  <2>3. faults' + crashes' = faults + crashes + 1
    BY <1>2, <1>5 DEF GiveUp, Crash, DBFault
  <2> QED
    BY <2>2, <2>3, BusyJob DEF StrandsOne
<1>6. CASE (Silent(w) \/ SaveResult(w)) /\ ~ GiveUp(w)
  <2>1. jobs' = jobs
    BY <1>6, SilentTables DEF SaveResult, dbVars
  <2> QED
    BY <1>1, <1>6, <2>1, SilentLocals, GoesOn DEF Stranded
<1>7. CASE Records(w)
  <2>1. PICK job \in JobIds : job = wk[w].job
    BY BusyJob
  <2>2. PICK status \in Terminal : Ended(job, status)
    BY <1>7, <2>1, RecordsRow
  <2>3. /\ \A j \in JobIds : j # job => jobs'[j] = jobs[j]
        /\ jobs'[job].status # "running"
    BY <2>2, EndedRow DEF RowExists, Terminal, Success
  <2> QED
    BY <1>1, <2>1, <2>3 DEF Stranded
<1> QED
  BY <1>3, <1>4, <1>5, <1>6, <1>7, WorkerSteps DEF Silent

LEMMA NextStrands ==
    ASSUME WorkerTypeOK, [Next]_workerVars
    PROVE  Stranded' \subseteq Stranded \/ StrandsOne
<1>1. CASE \E w \in Workers : WorkerStep(w) \/ Crash(w)
  BY <1>1, WorkerStepStrands
<1>2. CASE ~ \E w \in Workers : WorkerStep(w) \/ Crash(w)
  <2>1. pc' = pc /\ wk' = wk
    BY <1>2 DEF Next, StrayPush, DevPush, Api, QueueJob, TriggerJob, WebhookJob, SaveSettings,
       EditCell, Reset, Delete, workerVars, workVars
  <2>2. \A j \in JobIds : jobs'[j].status = "running" => jobs[j].status = "running"
    <3>1. CASE \E r \in Repos : Reset(r) \/ Delete(r)
      BY <3>1 DEF Reset, Delete, ResetRepoData, DeleteRepo, PurgeRows, Blank
    <3>2. CASE \E r \in Repos : QueueJob(r)
      <4>1. PICK j \in JobIds : \E r, trigger, b : CreateJobWithBranch(j, r, trigger, b)
        BY <3>2 DEF QueueJob, TriggerJob, WebhookJob
      <4> QED
        BY <4>1 DEF CreateJobWithBranch, Blank, WorkerTypeOK, DBTypeOK
    <3>3. CASE jobs' = jobs
      BY <3>3
    <3> QED
      BY <1>2, <3>1, <3>2, <3>3
      DEF Next, Api, SaveSettings, EditCell, StrayPush, DevPush, workerVars, dbVars
  <2> QED
    BY <2>1, <2>2 DEF Stranded, Busy
<1> QED
  BY <1>1, <1>2

LEMMA NextAccounted ==
    ASSUME WorkerTypeOK, StrandedAccounted, [Next]_workerVars
    PROVE  StrandedAccounted'
<1>0. IsFiniteSet(JobIds)
  BY FS_Interval, DBAssumption DEF JobIds
<1>1. /\ IsFiniteSet(Stranded) /\ IsFiniteSet(Stranded')
      /\ Cardinality(Stranded) \in Nat /\ Cardinality(Stranded') \in Nat
  <2>1. Stranded \subseteq JobIds /\ Stranded' \subseteq JobIds
    BY DEF Stranded
  <2> QED
    BY <1>0, <2>1, FS_Subset, FS_CardinalityType
<1>2. faults \in Nat /\ crashes \in Nat
  BY DEF WorkerTypeOK, DBTypeOK
<1>3. CASE Stranded' \subseteq Stranded
  <2>1. Cardinality(Stranded') <= Cardinality(Stranded)
    BY <1>1, <1>3, FS_Subset
  <2> QED
    BY <1>1, <1>2, <2>1, BudgetsGrow DEF StrandedAccounted
<1>4. CASE StrandsOne
  <2>1. PICK x \in JobIds : /\ Stranded' \subseteq Stranded \cup {x}
                            /\ faults' + crashes' = faults + crashes + 1
    BY <1>4 DEF StrandsOne
  <2>2. /\ IsFiniteSet(Stranded \cup {x})
        /\ Cardinality(Stranded \cup {x}) <= Cardinality(Stranded) + 1
        /\ Cardinality(Stranded \cup {x}) \in Nat
    <3>1. IsFiniteSet(Stranded \cup {x})
      BY <1>1, FS_AddElement
    <3>2. Cardinality(Stranded \cup {x})
             = IF x \in Stranded THEN Cardinality(Stranded) ELSE Cardinality(Stranded) + 1
      BY <1>1, FS_AddElement
    <3> QED
      BY <1>1, <3>1, <3>2
  <2>3. Cardinality(Stranded') <= Cardinality(Stranded \cup {x})
    BY <2>1, <2>2, FS_Subset
  <2> QED
    BY <1>1, <1>2, <2>1, <2>2, <2>3 DEF StrandedAccounted
<1> QED
  BY <1>3, <1>4, NextStrands

-----------------------------------------------------------------------------
(* Theorems *)

LEMMA InitRecords == WorkerInit => RecordInv /\ StrandedAccounted
<1> SUFFICES ASSUME WorkerInit PROVE RecordInv /\ StrandedAccounted
  OBVIOUS
<1>1. PushInv
  <2>1. \A r \in Repos, j \in JobIds : head[r][j] = 0
    BY DBAssumption DEF WorkerInit, Branches, JobIds
  <2> QED
    BY <2>1, JobRowTypes DEF WorkerInit, PushInv, Clean, Unpushed, BoxHonest, NoLocals
<1>2. HeadInv
  BY WorkerAssumption DEF WorkerInit, HeadInv, Fetched
<1>3. OpenedInv /\ SuccessHasPullRequest
  BY DEF WorkerInit, DBInit, Blank, OpenedInv, SuccessHasPullRequest, Success
<1>4. StrandedAccounted
  <2>1. Stranded = {}
    BY DEF WorkerInit, DBInit, Blank, Stranded
  <2> QED
    BY <2>1, FS_EmptySet DEF StrandedAccounted, WorkerInit, DBInit
<1> QED
  BY <1>1, <1>2, <1>3, <1>4 DEF RecordInv

LEMMA NextRecords ==
    ASSUME WorkerTypeOK, WorkerTypeOK', ExclusiveRun, SkipInv, RecordInv, [Next]_workerVars
    PROVE  RecordInv'
BY NextPushes, NextHeads, NextOpened, NextSuccess DEF RecordInv, SkipInv

\* What is true of every state reached, for the theorems below.
LEMMA RecordsHold ==
    Spec => [](WorkerTypeOK /\ ExclusiveRun /\ SkipInv /\ RecordInv /\ StrandedAccounted)
<1> DEFINE IInv == ExclusiveRun /\ SkipInv /\ RecordInv /\ StrandedAccounted
<1>1. WorkerInit => IInv
  BY InitRecords, InitDeduplicates DEF WorkerInit, ExclusiveRun, Busy
<1>2. WorkerTypeOK /\ WorkerTypeOK' /\ IInv /\ [Next]_workerVars => IInv'
  BY NextExclusive, NextDeduplicates, NextRecords, NextAccounted DEF Deduplicates
<1> QED
  BY <1>1, <1>2, TypeCorrect, PTL DEF Spec

\* A success on record has its pull request on GitHub, of the recorded commit
\* and settings, and a running row that no worker holds was left by a crash or
\* a failed statement, one for each at most.
THEOREM RowsTellTheTruth == Spec => []RowsTrue
<1>1. RecordInv /\ StrandedAccounted => RowsTrue
  BY DEF RecordInv, RowsTrue
<1> QED
  BY <1>1, RecordsHold, PTL

LEMMA StepPushesOnce ==
    ASSUME WorkerTypeOK, RecordInv, [Next]_workerVars
    PROVE  \A r \in Repos, j \in JobIds : head[r][j] # 0 => head'[r][j] = head[r][j]
<1>1. ASSUME NEW j \in JobIds, NEW q \in Repos, PushBranch(j, q), head[q][j] = 0
      PROVE  \A r \in Repos, i \in JobIds : head[r][i] # 0 => head'[r][i] = head[r][i]
  BY <1>1 DEF PushBranch, WorkerTypeOK
<1>2. CASE \E w \in Workers : BoxPush(w)
  <2>1. PICK w \in Workers : BoxPush(w)
    BY <1>2
  <2>2. wk[w].job \in JobIds /\ wk[w].repo \in Repos
    BY DEF WorkerTypeOK, Locals
  <2>3. head[wk[w].repo][wk[w].job] = 0
    BY <2>1, <2>2 DEF BoxPush, Running, RecordInv, PushInv, Unpushed, Clean
  <2> QED
    BY <1>1, <2>1, <2>2, <2>3 DEF BoxPush
<1>3. CASE StrayPush
  <2>1. PICK s \in strays : PushBranch(s[1], s[2])
    BY <1>3 DEF StrayPush
  <2>2. s[1] \in JobIds /\ s[2] \in Repos /\ head[s[2]][s[1]] = 0
    BY DEF WorkerTypeOK, RecordInv, PushInv
  <2> QED
    BY <1>1, <2>1, <2>2
<1>4. CASE \E r \in Repos, b \in Bases : DevPush(r, b)
  <2>1. \A b \in Bases : b \notin JobIds
    BY DBAssumption DEF JobIds
  <2> QED
    BY <1>4, <2>1 DEF DevPush, WorkerTypeOK
<1>5. CASE \E w \in Workers : WorkerStep(w) /\ ~ BoxPush(w)
  <2>1. PICK w \in Workers : WorkerStep(w) /\ ~ BoxPush(w)
    BY <1>5
  <2>2. CASE Records(w)
    BY <2>2, RecordsRow DEF ghVars
  <2>3. CASE ~ Records(w)
    BY <2>1, <2>3, WorkerSteps
    DEF Claim, ClaimUnread, SaveResult, Silent, Resolve, FetchMirror, CheckDuplicate, Clone,
        StepFails, BoxStep, BoxBranch, BoxFails, BoxReport, BoxDone, BoxDies, BoxTimeout, ReadResult,
        CreatePullRequest, CreateFails, Annotate, RecordFails, GiveUp, ghVars
  <2> QED
    BY <2>2, <2>3
<1>6. CASE \E w \in Workers : Crash(w)
  BY <1>6 DEF Crash, ghVars
<1>7. CASE UNCHANGED workerVars \/ \E r \in Repos : Api(r)
  BY <1>7 DEF workerVars, ghVars, Api, QueueJob, TriggerJob, WebhookJob, SaveSettings, EditCell,
     Reset, Delete
<1> QED
  BY <1>2, <1>3, <1>4, <1>5, <1>6, <1>7 DEF Next

-----------------------------------------------------------------------------
(* Pull requests of pushes.  One worker takes the jobs in the order of their   *)
(* ids, so that whoever is on record before a pull request was so when its job *)
(* was checked.                                                                *)

\* Not yet claimed.
InLine(j) == jobs[j].status \in {"none", "pending"}

InTurn ==
    /\ \A p \in prs, j \in JobIds : InLine(j) => p.job < j
    /\ \A w \in Workers, j \in JobIds : Busy(w) /\ InLine(j) => wk[w].job < j
    /\ \A w \in Workers, p \in prs : Busy(w) => p.job <= wk[w].job

\* A step that claims nothing and opens nothing.
LEMMA TurnsKept ==
    ASSUME InTurn, prs' = prs, \A j \in JobIds : InLine(j)' => InLine(j),
           \A w \in Workers : Busy(w)' => Busy(w) /\ wk'[w].job = wk[w].job
    PROVE  InTurn'
BY DEF InTurn

\* The claimed job is the first in line, and ids are handed out in order.
LEMMA ClaimTurns ==
    ASSUME WorkerTypeOK, TablesConsistent, InTurn, NEW job \in JobIds,
           ClaimNextPendingJob(job)
    PROVE  /\ \A j \in JobIds : InLine(j)' => InLine(j) /\ job < j
           /\ \A p \in prs : p.job < job
<1>1. jobs[job].status = "pending" /\ \A i \in JobIds : i < job => jobs[i].status # "pending"
  BY DEF ClaimNextPendingJob, IsNextPending
<1>2. \A i \in JobIds : i < job => ~ InLine(i)
  BY <1>1 DEF TablesConsistent, InLine
<1>3. \A j \in JobIds : InLine(j)' => j # job /\ InLine(j)
  BY DEF ClaimNextPendingJob, InLine, WorkerTypeOK, DBTypeOK, JobRow
<1>4. \A i, j \in JobIds : i # j => i < j \/ j < i
  BY DBAssumption DEF JobIds
<1> QED
  BY <1>1, <1>2, <1>3, <1>4 DEF InTurn, InLine

LEMMA NextTurns ==
    ASSUME WorkerTypeOK, TablesConsistent, ExclusiveRun, InTurn,
           \A v, w \in Workers : v = w, [Next]_workerVars
    PROVE  InTurn'
<1>1. CASE \E w \in Workers : WorkerStep(w)
  <2>1. PICK w \in Workers : WorkerStep(w)
    BY <1>1
  <2>0. wk[w].job \in JobIds
    BY DEF WorkerTypeOK, Locals
  <2>2. CASE Claim(w)
    <3>1. PICK job \in JobIds : /\ ClaimNextPendingJob(job)
                                /\ wk'[w].job = job
                                /\ prs' = prs
      BY <2>2 DEF Claim, ghVars, WorkerTypeOK
    <3>2. \A p \in prs : p.job \in JobIds
      BY DEF WorkerTypeOK, PRs
    <3> QED
      BY <3>1, <3>2, ClaimTurns, DBAssumption DEF InTurn, JobIds
  <2>3. CASE ClaimUnread(w)
    BY <2>3, ClaimTurns, TurnsKept DEF ClaimUnread, ghVars, workVars, Busy
  <2>4. CASE Records(w)
    <3>1. PICK status \in Terminal : Ended(wk[w].job, status)
      BY <2>4, RecordsRow
    <3>2. \A j \in JobIds : InLine(j)' => InLine(j)
      BY <2>0, <3>1, EndedRow DEF InLine, Terminal, Success
    <3>3. prs' = prs /\ Leave(w)
      BY <2>4, RecordsRow DEF ghVars
    <3> QED
      BY <3>2, <3>3, TurnsKept DEF Leave, Goto, Busy, WorkerTypeOK
  <2>5. CASE CreatePullRequest(w)
    <3>1. /\ jobs' = jobs /\ prs' = prs \cup {PullRequest(w)} /\ Busy(w)
          /\ wk'[w].job = wk[w].job
      BY <2>5 DEF CreatePullRequest, dbVars, Busy, WorkerTypeOK, Locals
    <3> QED
      BY <2>0, <3>1, DBAssumption DEF InTurn, InLine, PullRequest, JobIds
  <2>6. CASE SaveResult(w)
    BY <2>6, TurnsKept DEF SaveResult, ghVars, InLine, Goto, Busy, WorkerTypeOK
  <2>7. CASE Silent(w) /\ ~ CreatePullRequest(w)
    <3>1. jobs' = jobs
      BY <2>7, SilentTables DEF dbVars
    <3>2. prs' = prs
      BY <2>7 DEF Silent, Resolve, FetchMirror, CheckDuplicate, Clone, StepFails, BoxStep,
         BoxBranch, BoxPush, PushBranch, BoxFails, BoxReport, BoxDone, BoxDies, BoxTimeout,
         ReadResult, CreateFails, Annotate, RecordFails, GiveUp, ghVars
    <3>3. Busy(w)' => Busy(w) /\ wk'[w].job = wk[w].job
      <4>1. CASE CheckDuplicate(w)
        BY <4>1 DEF CheckDuplicate, Busy
      <4>2. CASE GiveUp(w)
        BY <4>2 DEF GiveUp, Leave, Goto, Busy, WorkerTypeOK
      <4> QED
        BY <2>7, <4>1, <4>2, StayCarries DEF Silent, Carries
    <3> QED
      BY <3>1, <3>2, <3>3, TurnsKept DEF InLine
  <2> QED
    BY <2>1, <2>2, <2>3, <2>4, <2>5, <2>6, <2>7, WorkerSteps
<1>2. CASE \E r \in Repos : Api(r)
  <2>1. PICK r \in Repos : Api(r)
    BY <1>2
  <2>2. prs' = prs /\ pc' = pc /\ wk' = wk
    BY <2>1 DEF Api, QueueJob, TriggerJob, WebhookJob, SaveSettings, EditCell, Reset, Delete,
       ghVars, workVars
  <2>3. \A j \in JobIds : InLine(j)' => InLine(j)
    <3>1. CASE QueueJob(r)
      <4>1. PICK j \in JobIds, trigger \in Triggers, b \in Branches :
               CreateJobWithBranch(j, r, trigger, b)
        BY <3>1, SourcesAssumption DEF QueueJob, TriggerJob, WebhookJob, Triggers
      <4> QED
        BY <4>1 DEF CreateJobWithBranch, InLine, WorkerTypeOK, DBTypeOK
    <3>2. CASE SaveSettings(r) \/ EditCell(r)
      BY <3>2 DEF SaveSettings, EditCell, InLine
    <3>3. CASE Reset(r) \/ Delete(r)
      BY <3>3 DEF Reset, Delete, ResetRepoData, DeleteRepo, PurgeRows, Blank, InLine
    <3> QED
      BY <2>1, <3>1, <3>2, <3>3 DEF Api
  <2> QED
    BY <2>2, <2>3, TurnsKept DEF Busy
<1>3. CASE \E w \in Workers : Crash(w)
  <2>1. PICK w \in Workers : Leave(w) /\ jobs' = jobs /\ prs' = prs
    BY <1>3 DEF Crash, dbVars, ghVars
  <2> QED
    BY <2>1, TurnsKept DEF Leave, Goto, Busy, InLine, WorkerTypeOK
<1>4. CASE \/ StrayPush \/ UNCHANGED workerVars
           \/ \E r \in Repos, b \in Bases : DevPush(r, b)
  BY <1>4, TurnsKept DEF StrayPush, PushBranch, DevPush, workerVars, dbVars, ghVars, workVars,
     InLine, Busy
<1> QED
  BY <1>1, <1>2, <1>3, <1>4 DEF Next

\* A job becomes a success after all the pull requests that are open, and a
\* pull request is opened on a verdict that is still true.
LEMMA NextPushesNew ==
    ASSUME WorkerTypeOK, ExclusiveRun, SkipInv, StaysFresh, InTurn, PushesDeduplicated,
           \A v, w \in Workers : v = w, [Next]_workerVars
    PROVE  PushesDeduplicated'
<1>1. ASSUME prs' = prs,
             NEW job \in JobIds, \A p \in prs : p.job <= job,
             \A i \in JobIds : i # job /\ jobs'[i].status \in Success => jobs'[i] = jobs[i]
      PROVE  PushesDeduplicated'
  <2>1. \A p \in prs : p.job \in JobIds
    BY DEF WorkerTypeOK, PRs
  <2>2. \A p \in prs : ~ (job < p.job)
    BY <1>1, <2>1, DBAssumption DEF JobIds
  <2> QED
    BY <1>1, <2>2 DEF PushesDeduplicated
<1>2. ASSUME prs' = prs, \A i \in JobIds : jobs'[i].status \in Success => jobs'[i] = jobs[i]
      PROVE  PushesDeduplicated'
  BY <1>2 DEF PushesDeduplicated
<1>3. CASE \E w \in Workers : CreatePullRequest(w)
  <2>1. PICK w \in Workers : CreatePullRequest(w)
    BY <1>3
  <2>2. jobs' = jobs /\ prs' = prs \cup {PullRequest(w)}
    BY <2>1 DEF CreatePullRequest, dbVars
  <2>3. wk[w].trigger = "webhook_push" => ~ Verdict(w)
    BY <2>1 DEF CreatePullRequest, StaysFresh, Fresh
  <2> QED
    BY <2>2, <2>3 DEF PushesDeduplicated, PullRequest, Verdict, HasDuplicateSuccessfulJob
<1>4. CASE \E w \in Workers : Records(w)
  <2>1. PICK w \in Workers : Records(w)
    BY <1>4
  <2>2. wk[w].job \in JobIds /\ Busy(w) /\ prs' = prs
    BY <2>1, RecordsRow DEF WorkerTypeOK, Locals, ghVars
  <2>3. \A p \in prs : p.job <= wk[w].job
    BY <2>2 DEF InTurn
  <2>4. \A i \in JobIds : i # wk[w].job => jobs'[i] = jobs[i]
    BY <2>1, <2>2, RecordsRow, EndedRow
  <2> QED
    BY <1>1, <2>2, <2>3, <2>4
<1>5. CASE \E w \in Workers : WorkerStep(w) /\ ~ CreatePullRequest(w) /\ ~ Records(w)
  <2>1. PICK w \in Workers : WorkerStep(w) /\ ~ CreatePullRequest(w) /\ ~ Records(w)
    BY <1>5
  <2>2. prs' = prs
    BY <2>1, WorkerSteps
    DEF Claim, ClaimUnread, SaveResult, Silent, Resolve, FetchMirror, CheckDuplicate, Clone,
        StepFails, BoxStep, BoxBranch, BoxPush, PushBranch, BoxFails, BoxReport, BoxDone, BoxDies,
        BoxTimeout, ReadResult, CreateFails, Annotate, RecordFails, GiveUp, ghVars
  <2>3. CASE Claim(w) \/ ClaimUnread(w)
    <3>1. PICK j \in JobIds : ClaimNextPendingJob(j)
      BY <2>3 DEF Claim, ClaimUnread
    <3>2. \A i \in JobIds : jobs'[i].status \in Success => jobs'[i] = jobs[i]
      BY <3>1 DEF ClaimNextPendingJob, Success, WorkerTypeOK, DBTypeOK, JobRow
    <3> QED
      BY <1>2, <2>2, <3>2
  <2>4. CASE Silent(w) \/ SaveResult(w)
    BY <1>2, <2>2, <2>4, SilentTables DEF SaveResult, dbVars
  <2> QED
    BY <2>1, <2>3, <2>4, WorkerSteps
<1>6. CASE \E r \in Repos : Api(r)
  <2>1. PICK r \in Repos : Api(r)
    BY <1>6
  <2>2. prs' = prs
    BY <2>1 DEF Api, QueueJob, TriggerJob, WebhookJob, SaveSettings, EditCell, Reset, Delete, ghVars
  <2>3. \A i \in JobIds : jobs'[i].status \in Success => jobs'[i] = jobs[i]
    <3>1. CASE QueueJob(r)
      <4>1. PICK j \in JobIds, trigger \in Triggers, b \in Branches :
               CreateJobWithBranch(j, r, trigger, b)
        BY <3>1, SourcesAssumption DEF QueueJob, TriggerJob, WebhookJob, Triggers
      <4> QED
        BY <4>1 DEF CreateJobWithBranch, Blank, Success, WorkerTypeOK, DBTypeOK
    <3>2. CASE SaveSettings(r) \/ EditCell(r)
      BY <3>2 DEF SaveSettings, EditCell
    <3>3. CASE Reset(r) \/ Delete(r)
      BY <3>3 DEF Reset, Delete, ResetRepoData, DeleteRepo, PurgeRows, Blank, Success
    <3> QED
      BY <2>1, <3>1, <3>2, <3>3 DEF Api
  <2> QED
    BY <1>2, <2>2, <2>3
<1>7. CASE \/ StrayPush \/ UNCHANGED workerVars \/ \E w \in Workers : Crash(w)
           \/ \E r \in Repos, b \in Bases : DevPush(r, b)
  BY <1>2, <1>7 DEF StrayPush, PushBranch, DevPush, Crash, workerVars, dbVars, ghVars
<1> QED
  BY <1>3, <1>4, <1>5, <1>6, <1>7 DEF Next

\* In a deployment of one worker, whatever crashes, fails, is reset or is saved
\* between the check and the record: a push opens no pull request for what an
\* earlier job has on record as localized.
THEOREM OneWorkerDeduplicates ==
    ASSUME \A v, w \in Workers : v = w
    PROVE  Spec => []PushesDeduplicated
<1> DEFINE IInv == StaysFresh /\ InTurn /\ PushesDeduplicated
<1>1. WorkerInit => IInv
  BY InitDeduplicates DEF WorkerInit, InTurn, PushesDeduplicated, Busy
<1>2. WorkerTypeOK /\ TablesConsistent /\ ExclusiveRun /\ SkipInv /\ IInv /\ [Next]_workerVars
        => IInv'
  BY NextDeduplicates, NextTurns, NextPushesNew DEF Deduplicates
<1> QED
  BY <1>1, <1>2, RecordsHold, TablesStayConsistent, PTL DEF Spec

\* However sandboxes die, time out or are left behind, the branch of a job is
\* pushed once.
THEOREM BranchesPushedOnce == Spec => PushedOnce
<1>1. WorkerTypeOK /\ RecordInv /\ [Next]_workerVars
         => [\A r \in Repos, j \in JobIds : head[r][j] # 0 => head'[r][j] = head[r][j]]_workerVars
  BY StepPushesOnce
<1> QED
  BY <1>1, RecordsHold, PTL DEF Spec, PushedOnce

\* Only SaveResult writes what the machine made, and a worker that holds the
\* edit in its copy writes the edit.
LEMMA StepKeepsEdits ==
    ASSUME WorkerTypeOK, [Next]_workerVars,
           NEW r \in Repos, cells[r] \in Edits, cells'[r] = "machine"
    PROVE  \E w \in Workers : pc[w] = "save" /\ wk[w].repo = r /\ wk[w].cell # cells[r]
<1>0. "machine" \notin Edits /\ "absent" \notin Edits
  BY DBAssumption
<1>1. CASE \E w \in Workers : SaveResult(w)
  <2>1. PICK w \in Workers : SaveResult(w)
    BY <1>1
  <2>2. /\ wk[w].repo = r /\ repos[r].live /\ ResultCell(w) = "machine"
    BY <1>0, <2>1 DEF SaveResult, UpsertTranslationMatrix, WorkerTypeOK, DBTypeOK
  <2> QED
    BY <1>0, <2>1, <2>2 DEF SaveResult, ResultCell
<1>2. CASE \E q \in Repos : Api(q)
  <2>1. PICK q \in Repos : Api(q)
    BY <1>2
  <2>2. CASE EditCell(q)
    BY <1>0, <2>2 DEF EditCell, UpsertTranslationMatrix, WorkerTypeOK, DBTypeOK
  <2>3. CASE Reset(q) \/ Delete(q)
    BY <1>0, <2>3 DEF Reset, Delete, ResetRepoData, DeleteRepo, PurgeRows, WorkerTypeOK, DBTypeOK
  <2>4. CASE QueueJob(q) \/ SaveSettings(q)
    BY <1>0, <2>4 DEF QueueJob, TriggerJob, WebhookJob, SaveSettings
  <2> QED
    BY <2>1, <2>2, <2>3, <2>4 DEF Api
<1>3. CASE \E w \in Workers : WorkerStep(w) /\ ~ SaveResult(w)
  BY <1>0, <1>3, WorkerSteps, SilentTables, RecordsRow DEF Claim, ClaimUnread, dbVars
<1>4. CASE \/ StrayPush \/ UNCHANGED workerVars \/ \E w \in Workers : Crash(w)
           \/ \E q \in Repos, b \in Bases : DevPush(q, b)
  BY <1>0, <1>4 DEF StrayPush, DevPush, Crash, workerVars, dbVars
<1> QED
  BY <1>1, <1>2, <1>3, <1>4 DEF Next

\* An edit of a cell is lost to the machine only by a job whose copy of the
\* matrix does not hold it.
THEOREM EditsAreKept == Spec => EditsSurviveJobs
<1>1. WorkerTypeOK /\ [Next]_workerVars
         => [\A r \in Repos : cells[r] \in Edits /\ cells'[r] = "machine" =>
                \E w \in Workers : /\ pc[w] = "save"
                                   /\ wk[w].repo = r
                                   /\ wk[w].cell # cells[r]]_workerVars
  BY StepKeepsEdits
<1> QED
  BY <1>1, TypeCorrect, PTL DEF Spec, EditsSurviveJobs
-----------------------------------------------------------------------------
(* With one worker the queue implements JobLedger: each step of the workers,   *)
(* the users and GitHub is a step of the ledger or none that the ledger sees.  *)

\* The entry of a row, and the ledger of all of them.
EntryOf(row) ==
    [state |-> CASE row.status \in Success            -> "published"
                 [] row.status = "skipped_no_changes" -> "skipped"
                 [] OTHER                             -> row.status,
     key   |-> IF row.status \in Success \cup {"skipped_no_changes"}
               THEN [repo |-> row.repo, sha |-> row.sha, hash |-> row.hash] ELSE NoKey,
     auto  |-> row.trigger = "webhook_push"]

Entries == [j \in JobIds |-> LedgerEntry(j)]

Keys == [repo : Repos, sha : 0 .. MaxCommits, hash : 0 .. MaxVersion]

\* The keys that may be recorded, and who may be skipped.
KeyInv ==
    /\ \A r \in Repos : repos[r].ver \in 0 .. MaxVersion
    /\ \A w \in Workers : /\ wk[w].sha \in 0 .. MaxCommits
                          /\ wk[w].hash \in 0 .. MaxVersion
                          /\ pc[w] = "skip" => wk[w].trigger = "webhook_push"

-----------------------------------------------------------------------------
(* Keys stay within the bounds. *)

LEMMA InitKeys == WorkerInit => KeyInv
BY DBAssumption, WorkerAssumption DEF WorkerInit, DBInit, KeyInv, NoLocals

\* Users save settings as often as the bound allows.
LEMMA ApiKeys ==
    ASSUME WorkerTypeOK, KeyInv, NEW r \in Repos, Api(r)
    PROVE  KeyInv'
<1>1. pc' = pc /\ wk' = wk
  BY DEF Api, QueueJob, TriggerJob, WebhookJob, SaveSettings, EditCell, Reset, Delete, workVars
<1>2. ASSUME repos[r].ver < MaxVersion, UpsertRepoSettings(r)
      PROVE  \A q \in Repos : repos'[q].ver \in 0 .. MaxVersion
  <2>1. \A q \in Repos : repos'[q].ver = repos[q].ver
                         \/ (q = r /\ repos'[q].ver = repos[r].ver + 1)
    <3>1. CASE repos[r].live
      <4>1. repos' = [repos EXCEPT ![r].ver = @ + 1]
        BY <1>2, <3>1 DEF UpsertRepoSettings
      <4>2. /\ repos'[r].ver = repos[r].ver + 1
            /\ \A q \in Repos : q # r => repos'[q] = repos[q]
        BY <4>1 DEF WorkerTypeOK, DBTypeOK
      <4> QED
        BY <4>2
    <3>2. CASE ~ repos[r].live
      BY <1>2, <3>2 DEF UpsertRepoSettings
    <3> QED
      BY <3>1, <3>2
  <2> QED
    BY <1>2, <2>1, DBAssumption DEF KeyInv
<1>3. \A q \in Repos : repos'[q].ver \in 0 .. MaxVersion
  <2>1. CASE repos' = repos
    BY <2>1 DEF KeyInv
  <2>2. CASE Delete(r)
    BY <2>2, DBAssumption DEF Delete, DeleteRepo, KeyInv, WorkerTypeOK, DBTypeOK
  <2>3. CASE QueueJob(r) \/ SaveSettings(r)
    BY <1>2, <2>1, <2>3 DEF QueueJob, TriggerJob, WebhookJob, SaveSettings
  <2> QED
    BY <2>1, <2>2, <2>3 DEF Api, EditCell, Reset, ResetRepoData
<1> QED
  BY <1>1, <1>3 DEF KeyInv

LEMMA WorkerStepKeys ==
    ASSUME WorkerTypeOK, HeadInv, KeyInv, NEW w \in Workers, WorkerStep(w) \/ Crash(w)
    PROVE  KeyInv'
<1>0. /\ 0 \in 0 .. MaxCommits /\ 0 \in 0 .. MaxVersion
      /\ wk[w].repo \in Repos /\ wk[w].base \in Branches
  BY DBAssumption, WorkerAssumption DEF WorkerTypeOK, Locals
<1>1. repos' = repos
  BY WorkerSteps, SilentTables, RecordsRow DEF Claim, ClaimUnread, SaveResult, Crash, dbVars
<1>2. ASSUME wk'[w].sha \in 0 .. MaxCommits, wk'[w].hash \in 0 .. MaxVersion,
             pc'[w] = "skip" => wk'[w].trigger = "webhook_push"
      PROVE  KeyInv'
  BY <1>1, <1>2, OthersStay DEF KeyInv
<1>3. CASE Claim(w) \/ ClaimUnread(w)
  <2>1. CASE Claim(w)
    <3>1. wk'[w].sha = 0 /\ wk'[w].hash = 0 /\ pc'[w] = "claimed"
      BY <2>1 DEF Claim, NoLocals, Goto, WorkerTypeOK
    <3> QED
      BY <1>0, <1>2, <3>1
  <2>2. CASE ClaimUnread(w)
    BY <1>2, <2>2 DEF ClaimUnread, workVars, KeyInv
  <2> QED
    BY <1>3, <2>1, <2>2
<1>4. CASE Records(w) \/ GiveUp(w) \/ Crash(w)
  BY <1>0, <1>2, <1>4, RecordsRow DEF GiveUp, Crash, Leave, NoLocals, Goto, WorkerTypeOK
<1>5. CASE Resolve(w)
  BY <1>0, <1>2, <1>5 DEF Resolve, Goto, KeyInv, WorkerTypeOK, Locals
<1>6. CASE FetchMirror(w)
  <2>1. head[wk[w].repo][wk[w].base] \in 0 .. MaxCommits
    BY <1>0, WorkerAssumption DEF HeadInv, WorkerTypeOK
  <2>2. /\ wk'[w].sha = head[wk[w].repo][wk[w].base] /\ wk'[w].hash = wk[w].hash
        /\ pc'[w] # "skip"
    BY <1>6 DEF FetchMirror, Goto, WorkerTypeOK, Locals
  <2> QED
    BY <1>2, <2>1, <2>2 DEF KeyInv
<1>7. CASE (Silent(w) \/ SaveResult(w)) /\ ~ GiveUp(w) /\ ~ Resolve(w) /\ ~ FetchMirror(w)
  <2>1. /\ wk'[w].sha = wk[w].sha /\ wk'[w].hash = wk[w].hash
        /\ wk'[w].trigger = wk[w].trigger
    BY <1>7, SilentLocals
  <2>2. pc'[w] = "skip" => pc[w] = "skip" \/ wk[w].trigger = "webhook_push"
    <3>1. CASE BoxStep(w)
      BY <3>1 DEF BoxStep, BoxBranch, BoxPush, BoxFails, BoxReport, BoxDone, BoxDies, BoxTimeout,
         Exit, Goto, WorkerTypeOK
    <3>2. CASE ~ BoxStep(w)
      BY <1>7, <3>2 DEF Silent, CheckDuplicate, Clone, StepFails, ReadResult, CreatePullRequest,
         CreateFails, Annotate, RecordFails, SaveResult, Goto, WorkerTypeOK
    <3> QED
      BY <3>1, <3>2
  <2> QED
    BY <1>2, <2>1, <2>2 DEF KeyInv
<1> QED
  BY <1>3, <1>4, <1>5, <1>6, <1>7, WorkerSteps DEF Silent

LEMMA NextKeys ==
    ASSUME WorkerTypeOK, HeadInv, KeyInv, [Next]_workerVars
    PROVE  KeyInv'
<1>1. CASE \E w \in Workers : WorkerStep(w) \/ Crash(w)
  BY <1>1, WorkerStepKeys
<1>2. CASE \E r \in Repos : Api(r)
  BY <1>2, ApiKeys
<1>3. CASE StrayPush \/ UNCHANGED workerVars \/ \E r \in Repos, b \in Bases : DevPush(r, b)
  BY <1>3 DEF StrayPush, DevPush, workerVars, dbVars, workVars, KeyInv
<1> QED
  BY <1>1, <1>2, <1>3 DEF Next

-----------------------------------------------------------------------------
(* Rows and entries *)

LEMMA EntryShapes ==
    ASSUME NEW row
    PROVE  /\ row.status \in Success =>
                 EntryOf(row) = [state |-> "published", auto |-> row.trigger = "webhook_push",
                                 key |-> [repo |-> row.repo, sha |-> row.sha, hash |-> row.hash]]
           /\ row.status = "skipped_no_changes" =>
                 EntryOf(row) = [state |-> "skipped", auto |-> row.trigger = "webhook_push",
                                 key |-> [repo |-> row.repo, sha |-> row.sha, hash |-> row.hash]]
           /\ row.status \notin Success \cup {"skipped_no_changes"} =>
                 EntryOf(row) = [state |-> row.status, auto |-> row.trigger = "webhook_push",
                                 key |-> NoKey]
BY DEF EntryOf, Success

LEMMA EntriesAre ==
    /\ Entries = [j \in JobIds |-> EntryOf(jobs[j])]
    /\ Entries' = [j \in JobIds |-> EntryOf(jobs'[j])]
BY DEF Entries, LedgerEntry, EntryOf, Key

\* A step that changes one row changes one entry.
LEMMA OneEntry ==
    ASSUME NEW job \in JobIds, \A j \in JobIds : j # job => jobs'[j] = jobs[j]
    PROVE  Entries' = [Entries EXCEPT ![job] = EntryOf(jobs'[job])]
BY EntriesAre

\* All that entries can be.
EntrySet == [state : {"none", "pending", "running", "published", "skipped", "failed", "deleted"},
             key   : [repo : Repos, sha : Nat, hash : Nat] \cup {NoKey},
             auto  : BOOLEAN]

LEMMA EntryTypes == WorkerTypeOK => Entries \in [JobIds -> EntrySet]
<1> SUFFICES ASSUME WorkerTypeOK, NEW j \in JobIds PROVE EntryOf(jobs[j]) \in EntrySet
  BY EntriesAre
<1> DEFINE key == [repo |-> jobs[j].repo, sha |-> jobs[j].sha, hash |-> jobs[j].hash]
           auto == jobs[j].trigger = "webhook_push"
<1>1. /\ jobs[j].status \in Statuses
      /\ key \in [repo : Repos, sha : Nat, hash : Nat] /\ auto \in BOOLEAN
  BY DEF WorkerTypeOK, DBTypeOK, JobRow
<1>2. \/ EntryOf(jobs[j]) = [state |-> "published", auto |-> auto, key |-> key]
      \/ EntryOf(jobs[j]) = [state |-> "skipped", auto |-> auto, key |-> key]
      \/ /\ EntryOf(jobs[j]) = [state |-> jobs[j].status, auto |-> auto, key |-> NoKey]
         /\ jobs[j].status \in {"none", "pending", "running", "failed", "deleted"}
  <2>1. CASE jobs[j].status \in Success \/ jobs[j].status = "skipped_no_changes"
    BY <2>1, EntryShapes
  <2>2. CASE jobs[j].status \notin Success \cup {"skipped_no_changes"}
    BY <1>1, <2>2, EntryShapes DEF Statuses, Terminal
  <2> QED
    BY <2>1, <2>2
<1> HIDE DEF key, auto
<1> QED
  BY <1>1, <1>2 DEF EntrySet

\* Two ways to write the change of an entry.
LEMMA SetsState ==
    ASSUME NEW F \in [JobIds -> EntrySet], NEW j \in JobIds,
           NEW state \in {"none", "pending", "running", "published", "skipped", "failed", "deleted"}
    PROVE  [F EXCEPT ![j].state = state]
              = [F EXCEPT ![j] = [state |-> state, key |-> F[j].key, auto |-> F[j].auto]]
<1> DEFINE G == [F EXCEPT ![j].state = state]
<1>1. G \in [JobIds -> EntrySet]
  BY DEF EntrySet
<1>2. G[j] = [state |-> state, key |-> F[j].key, auto |-> F[j].auto]
  BY DEF EntrySet
<1>3. \A i \in JobIds : i # j => G[i] = F[i]
  OBVIOUS
<1> HIDE DEF G
<1>4. G = [F EXCEPT ![j] = [state |-> state, key |-> F[j].key, auto |-> F[j].auto]]
  BY <1>1, <1>2, <1>3
<1> QED
  BY <1>4 DEF G

Both(F, j, state, key) == [F EXCEPT ![j].state = state, ![j].key = key]

LEMMA SetsBoth ==
    ASSUME NEW F \in [JobIds -> EntrySet], NEW j \in JobIds,
           NEW state \in {"none", "pending", "running", "published", "skipped", "failed", "deleted"},
           NEW key \in [repo : Repos, sha : Nat, hash : Nat]
    PROVE  Both(F, j, state, key)
              = [F EXCEPT ![j] = [state |-> state, key |-> key, auto |-> F[j].auto]]
<1> DEFINE G == [F EXCEPT ![j].state = state]
           H == [F EXCEPT ![j].state = state, ![j].key = key]
<1>1. /\ G \in [JobIds -> EntrySet]
      /\ G[j] = [state |-> state, key |-> F[j].key, auto |-> F[j].auto]
      /\ \A i \in JobIds : i # j => G[i] = F[i]
  BY DEF EntrySet
<1>2. H = [G EXCEPT ![j].key = key]
  OBVIOUS
<1> HIDE DEF G
<1>3. /\ [G EXCEPT ![j].key = key] \in [JobIds -> EntrySet]
      /\ [G EXCEPT ![j].key = key][j] = [state |-> state, key |-> key, auto |-> F[j].auto]
      /\ \A i \in JobIds : i # j => [G EXCEPT ![j].key = key][i] = F[i]
  BY <1>1 DEF EntrySet
<1> HIDE DEF H
<1>4. H = [F EXCEPT ![j] = [state |-> state, key |-> key, auto |-> F[j].auto]]
  BY <1>2, <1>3
<1> QED
  BY <1>4 DEF H, Both

\* A key is published when there is a success of it.
LEMMA PublishedIsDuplicate ==
    ASSUME WorkerTypeOK, NEW r, NEW sha, NEW hash
    PROVE  Ledger!Published([repo |-> r, sha |-> sha, hash |-> hash])
              <=> HasDuplicateSuccessfulJob(r, sha, hash)
<1> DEFINE key == [repo |-> r, sha |-> sha, hash |-> hash]
<1>1. Ledger!Published(key) <=> \E i \in JobIds : Entries[i].state = "published"
                                                  /\ Entries[i].key = key
  BY DEF Ledger!Published, Entries
<1>2. \A i \in JobIds : Entries[i] = EntryOf(jobs[i])
  BY EntriesAre
<1>3. \A i \in JobIds : jobs[i].status # "published"
  BY DEF WorkerTypeOK, DBTypeOK, JobRow, Statuses, Terminal, Success
<1>4. ASSUME NEW i \in JobIds
      PROVE  Entries[i].state = "published" /\ Entries[i].key = key
                <=> /\ jobs[i].status \in Success
                    /\ jobs[i].repo = r /\ jobs[i].sha = sha /\ jobs[i].hash = hash
  <2>1. CASE jobs[i].status \in Success
    <3>1. /\ Entries[i].state = "published"
          /\ Entries[i].key = [repo |-> jobs[i].repo, sha |-> jobs[i].sha, hash |-> jobs[i].hash]
      BY <1>2, <2>1, EntryShapes
    <3> QED
      BY <2>1, <3>1
  <2>2. CASE jobs[i].status \notin Success
    BY <1>2, <1>3, <2>2, EntryShapes
  <2> QED
    BY <2>1, <2>2
<1> QED
  BY <1>1, <1>4 DEF HasDuplicateSuccessfulJob

-----------------------------------------------------------------------------
(* The steps of the ledger, by what they do to its entries. *)

\* Entry j becomes one of this state and key.
EntryBecomes(j, state, key) ==
    Entries' = [Entries EXCEPT ![j] = [state |-> state, key |-> key, auto |-> Entries[j].auto]]

LEMMA LedgerSubmit ==
    ASSUME NEW j \in JobIds, NEW auto \in BOOLEAN, Entries[j].state = "none",
           Entries' = [Entries EXCEPT ![j] = [state |-> "pending", key |-> NoKey, auto |-> auto]]
    PROVE  Ledger!Submit(j)
BY DEF Ledger!Submit, Ledger!Entry, Entries

LEMMA LedgerStart ==
    ASSUME WorkerTypeOK, NEW j \in JobIds, Entries[j].state = "pending",
           EntryBecomes(j, "running", Entries[j].key)
    PROVE  Ledger!Start(j)
<1>1. Entries' = [Entries EXCEPT ![j].state = "running"]
  BY EntryTypes, SetsState DEF EntryBecomes
<1> QED
  BY <1>1 DEF Ledger!Start, Entries

LEMMA LedgerFail ==
    ASSUME WorkerTypeOK, NEW j \in JobIds, Entries[j].state = "running",
           EntryBecomes(j, "failed", Entries[j].key)
    PROVE  Ledger!Fail(j)
<1>1. Entries' = [Entries EXCEPT ![j].state = "failed"]
  BY EntryTypes, SetsState DEF EntryBecomes
<1> QED
  BY <1>1 DEF Ledger!Fail, Entries

LEMMA LedgerPublish ==
    ASSUME WorkerTypeOK, NEW j \in JobIds, NEW key \in Keys, Entries[j].state = "running",
           Entries[j].auto => ~ Ledger!Published(key), EntryBecomes(j, "published", key)
    PROVE  Ledger!Publish(j, key)
<1>1. key \in [repo : Repos, sha : Nat, hash : Nat]
  BY DEF Keys
<1>2. Entries' = Both(Entries, j, "published", key)
  BY <1>1, EntryTypes, SetsBoth DEF EntryBecomes
<1> QED
  BY <1>2 DEF Both, Ledger!Publish, Entries

LEMMA LedgerSkip ==
    ASSUME WorkerTypeOK, NEW j \in JobIds, NEW key \in Keys, Entries[j].state = "running",
           Entries[j].auto, Ledger!Published(key), EntryBecomes(j, "skipped", key)
    PROVE  Ledger!Skip(j, key)
<1>1. key \in [repo : Repos, sha : Nat, hash : Nat]
  BY DEF Keys
<1>2. Entries' = Both(Entries, j, "skipped", key)
  BY <1>1, EntryTypes, SetsBoth DEF EntryBecomes
<1> QED
  BY <1>2 DEF Both, Ledger!Skip, Entries

\* A step of the ledger, or none.
LedgerStep == [Ledger!LedgerNext]_Entries

LEMMA LedgerStutters == jobs' = jobs => LedgerStep
BY EntriesAre DEF LedgerStep

LEMMA LedgerStepIs ==
    ASSUME \/ \E j \in JobIds : Ledger!Submit(j) \/ Ledger!Start(j) \/ Ledger!Fail(j)
           \/ \E j \in JobIds, key \in Keys : Ledger!Publish(j, key) \/ Ledger!Skip(j, key)
           \/ \E S \in SUBSET JobIds : Ledger!Purge(S)
    PROVE  LedgerStep
BY DEF LedgerStep, Ledger!LedgerNext, Keys

-----------------------------------------------------------------------------
(* The steps of a worker *)

\* The key of the job in hand.
KeyOf(w) == [repo |-> wk[w].repo, sha |-> wk[w].sha, hash |-> wk[w].hash]

\* What an update does to the entry of a job in hand.
LEMMA UpdateEntry ==
    ASSUME WorkerTypeOK, ExclusiveRun, HoldsRow, NEW w \in Workers, Busy(w),
           RowExists(wk[w].job), NEW status, NEW branch, NEW sha, NEW hash, NEW pr,
           UpdateJobStatus(wk[w].job, status, branch, sha, hash, pr)
    PROVE  LET job == wk[w].job
               key == [repo |-> wk[w].repo, sha |-> sha, hash |-> hash] IN
           /\ Entries[job].state = "running"
           /\ Entries[job].auto = (wk[w].trigger = "webhook_push")
           /\ status \in Success => EntryBecomes(job, "published", key)
           /\ status = "skipped_no_changes" => EntryBecomes(job, "skipped", key)
           /\ status = "failed" => EntryBecomes(job, "failed", Entries[job].key)
<1> DEFINE key == [repo |-> wk[w].repo, sha |-> sha, hash |-> hash]
           auto == wk[w].trigger = "webhook_push"
<1>1. PICK job \in JobIds : job = wk[w].job
  BY BusyJob
<1>2. /\ jobs[job].status = "running"
      /\ jobs[job].repo = wk[w].repo /\ jobs[job].trigger = wk[w].trigger
  BY <1>1 DEF ExclusiveRun, HoldsRow, RowExists
<1>3. /\ jobs'[job].status = status /\ jobs'[job].repo = wk[w].repo
      /\ jobs'[job].trigger = wk[w].trigger
      /\ jobs'[job].sha = sha /\ jobs'[job].hash = hash
      /\ \A j \in JobIds : j # job => jobs'[j] = jobs[j]
  BY <1>1, <1>2 DEF UpdateJobStatus, WorkerTypeOK, DBTypeOK, JobRow
<1>4. Entries[job] = [state |-> "running", key |-> NoKey, auto |-> auto]
  BY <1>2, EntriesAre, EntryShapes DEF Success
<1>5. Entries' = [Entries EXCEPT ![job] = EntryOf(jobs'[job])]
  BY <1>3, OneEntry
<1>6. /\ status \in Success =>
            EntryOf(jobs'[job]) = [state |-> "published", key |-> key, auto |-> auto]
      /\ status = "skipped_no_changes" =>
            EntryOf(jobs'[job]) = [state |-> "skipped", key |-> key, auto |-> auto]
      /\ status = "failed" =>
            EntryOf(jobs'[job]) = [state |-> "failed", key |-> NoKey, auto |-> auto]
  BY <1>3, EntryShapes DEF Success
<1> HIDE DEF key, auto
<1>7. /\ Entries[job].key = NoKey
      /\ Entries[job].auto = auto
  BY <1>4
<1>8. status \in Success => EntryBecomes(job, "published", key)
  BY <1>5, <1>6, <1>7 DEF EntryBecomes
<1>9. status = "skipped_no_changes" => EntryBecomes(job, "skipped", key)
  BY <1>5, <1>6, <1>7 DEF EntryBecomes
<1>10. status = "failed" => EntryBecomes(job, "failed", Entries[job].key)
  BY <1>5, <1>6, <1>7 DEF EntryBecomes
<1> QED
  BY <1>1, <1>4, <1>8, <1>9, <1>10 DEF key, auto

LEMMA KeysInHand ==
    ASSUME WorkerTypeOK, KeyInv, NEW w \in Workers
    PROVE  /\ KeyOf(w) \in Keys
           /\ Ledger!Published(KeyOf(w)) <=> Verdict(w)
<1>1. KeyOf(w) \in Keys
  BY DEF KeyOf, Keys, KeyInv, WorkerTypeOK, Locals
<1> QED
  BY <1>1, PublishedIsDuplicate DEF KeyOf, Verdict

\* A record of an end: the row may be gone.
LEMMA RecordRefines ==
    ASSUME WorkerTypeOK, ExclusiveRun, SkipInv, StaysFresh, KeyInv,
           NEW w \in Workers, Records(w)
    PROVE  LedgerStep
<1>1. PICK job \in JobIds : job = wk[w].job
  BY BusyJob
<1>2. CASE ~ RowExists(job)
  BY <1>1, <1>2, RecordsRow, EndedRow, LedgerStutters
<1>3. CASE RowExists(job)
  <2>0. /\ Busy(w) /\ HoldsRow /\ RowExists(wk[w].job)
        /\ KeyOf(w) = [repo |-> wk[w].repo, sha |-> wk[w].sha, hash |-> wk[w].hash]
    BY <1>1, <1>3, RecordsRow DEF SkipInv, KeyOf
  <2>1. CASE RecordSkip(w)
    <3>1. UpdateJobStatus(wk[w].job, "skipped_no_changes", NoBranch, wk[w].sha, wk[w].hash, FALSE)
      BY <2>1 DEF RecordSkip
    <3>2. /\ Entries[job].state = "running"
          /\ Entries[job].auto = (wk[w].trigger = "webhook_push")
          /\ EntryBecomes(job, "skipped", KeyOf(w))
      BY <1>1, <2>0, <3>1, UpdateEntry
    <3>3. wk[w].trigger = "webhook_push" /\ Verdict(w)
      BY <2>0, <2>1 DEF RecordSkip, KeyInv, SkipInv, SkipBacked
    <3>4. Ledger!Skip(job, KeyOf(w))
      BY <3>2, <3>3, KeysInHand, LedgerSkip
    <3> QED
      BY <3>4, KeysInHand, LedgerStepIs
  <2>2. CASE RecordFinal(w)
    <3>1. UpdateJobStatus(wk[w].job, FinalStatus(w), wk[w].job, wk[w].sha, wk[w].hash, wk[w].pr)
      BY <2>2 DEF RecordFinal
    <3>2. FinalStatus(w) \in Success \/ FinalStatus(w) = "failed"
      BY DEF FinalStatus, Success
    <3>3. CASE FinalStatus(w) = "failed"
      <4>1. /\ Entries[job].state = "running"
            /\ EntryBecomes(job, "failed", Entries[job].key)
        BY <1>1, <2>0, <3>1, <3>3, UpdateEntry
      <4> QED
        BY <4>1, LedgerFail, LedgerStepIs
    <3>4. CASE FinalStatus(w) \in Success
      <4>1. /\ Entries[job].state = "running"
            /\ Entries[job].auto = (wk[w].trigger = "webhook_push")
            /\ EntryBecomes(job, "published", KeyOf(w))
        BY <1>1, <2>0, <3>1, <3>4, UpdateEntry
      <4>2. wk[w].trigger = "webhook_push" => ~ Verdict(w)
        BY <2>2 DEF RecordFinal, StaysFresh, Fresh
      <4>3. Ledger!Publish(job, KeyOf(w))
        BY <4>1, <4>2, KeysInHand, LedgerPublish
      <4> QED
        BY <4>3, KeysInHand, LedgerStepIs
    <3> QED
      BY <3>2, <3>3, <3>4
  <2>3. CASE RecordNoResult(w)
    <3>1. UpdateJobStatus(wk[w].job, "failed", wk[w].job, wk[w].sha, wk[w].hash, FALSE)
      BY <2>3 DEF RecordNoResult
    <3>2. /\ Entries[job].state = "running"
          /\ EntryBecomes(job, "failed", Entries[job].key)
      BY <1>1, <2>0, <3>1, UpdateEntry
    <3> QED
      BY <3>2, LedgerFail, LedgerStepIs
  <2>4. CASE RecordFailure(w)
    <3>1. UpdateJobStatus(wk[w].job, "failed", wk[w].branch, 0, 0, FALSE)
      BY <2>4 DEF RecordFailure
    <3>2. /\ Entries[job].state = "running"
          /\ EntryBecomes(job, "failed", Entries[job].key)
      BY <1>1, <2>0, <3>1, UpdateEntry
    <3> QED
      BY <3>2, LedgerFail, LedgerStepIs
  <2> QED
    BY <2>1, <2>2, <2>3, <2>4 DEF Records
<1> QED
  BY <1>2, <1>3

LEMMA WorkerStepRefines ==
    ASSUME WorkerTypeOK, ExclusiveRun, SkipInv, StaysFresh, KeyInv,
           NEW w \in Workers, WorkerStep(w)
    PROVE  LedgerStep
<1>1. CASE Claim(w) \/ ClaimUnread(w)
  <2>1. PICK j \in JobIds : ClaimNextPendingJob(j)
    BY <1>1 DEF Claim, ClaimUnread
  <2>2. /\ jobs[j].status = "pending" /\ jobs'[j].status = "running"
        /\ jobs'[j].trigger = jobs[j].trigger
        /\ \A i \in JobIds : i # j => jobs'[i] = jobs[i]
    BY <2>1 DEF ClaimNextPendingJob, IsNextPending, WorkerTypeOK, DBTypeOK, JobRow
  <2>3. /\ Entries[j] = [state |-> "pending", key |-> NoKey,
                         auto |-> jobs[j].trigger = "webhook_push"]
        /\ EntryOf(jobs'[j]) = [state |-> "running", key |-> NoKey,
                                auto |-> jobs[j].trigger = "webhook_push"]
    BY <2>2, EntriesAre, EntryShapes DEF Success
  <2>4. Entries' = [Entries EXCEPT ![j] = EntryOf(jobs'[j])]
    BY <2>2, OneEntry
  <2>5. EntryBecomes(j, "running", Entries[j].key)
    BY <2>3, <2>4 DEF EntryBecomes
  <2> QED
    BY <2>3, <2>5, LedgerStart, LedgerStepIs
<1>2. CASE Records(w)
  BY <1>2, RecordRefines
<1>3. CASE Silent(w) \/ SaveResult(w)
  BY <1>3, SilentTables, LedgerStutters DEF SaveResult, dbVars
<1> QED
  BY <1>1, <1>2, <1>3, WorkerSteps

-----------------------------------------------------------------------------
(* The users *)

LEMMA ApiRefines ==
    ASSUME WorkerTypeOK, NEW r \in Repos, Api(r)
    PROVE  LedgerStep
<1>1. CASE QueueJob(r)
  <2>1. PICK j \in JobIds, trigger \in Triggers, b \in Branches :
           CreateJobWithBranch(j, r, trigger, b)
    BY <1>1, SourcesAssumption DEF QueueJob, TriggerJob, WebhookJob, Triggers
  <2>2. /\ jobs[j].status = "none" /\ jobs'[j].status = "pending"
        /\ \A i \in JobIds : i # j => jobs'[i] = jobs[i]
    BY <2>1 DEF CreateJobWithBranch, Blank, WorkerTypeOK, DBTypeOK
  <2>3. /\ Entries[j].state = "none"
        /\ EntryOf(jobs'[j]) = [state |-> "pending", key |-> NoKey,
                                auto |-> jobs'[j].trigger = "webhook_push"]
    BY <2>2, EntriesAre, EntryShapes DEF Success
  <2>4. Entries' = [Entries EXCEPT ![j] = [state |-> "pending", key |-> NoKey,
                                           auto |-> jobs'[j].trigger = "webhook_push"]]
    BY <2>2, <2>3, OneEntry
  <2> QED
    BY <2>3, <2>4, LedgerSubmit, LedgerStepIs
<1>2. CASE SaveSettings(r) \/ EditCell(r)
  BY <1>2, LedgerStutters DEF SaveSettings, EditCell
<1>3. CASE Reset(r) \/ Delete(r)
  <2> DEFINE S == {j \in JobIds : RowExists(j) /\ jobs[j].repo = r}
             Gone == [state |-> "deleted", key |-> NoKey, auto |-> FALSE]
  <2>1. jobs' = [j \in JobIds |-> IF j \in S THEN Blank("deleted") ELSE jobs[j]]
    BY <1>3 DEF Reset, Delete, ResetRepoData, DeleteRepo, PurgeRows
  <2>2. EntryOf(Blank("deleted")) = Gone
    <3>1. Blank("deleted").status = "deleted" /\ Blank("deleted").trigger = "manual"
      BY DEF Blank
    <3> QED
      BY <3>1, EntryShapes DEF Success
  <2>3. Entries' = [j \in JobIds |-> IF j \in S THEN Gone ELSE Entries[j]]
    <3>1. \A j \in JobIds : EntryOf(jobs'[j]) = IF j \in S THEN Gone ELSE EntryOf(jobs[j])
      BY <2>1, <2>2
    <3> QED
      BY <3>1, EntriesAre
  <2>4. \A j \in S : Entries[j].state \notin {"none", "deleted"}
    BY EntriesAre, EntryShapes DEF RowExists
  <2>5. Ledger!Purge(S)
    BY <2>3, <2>4 DEF Ledger!Purge, Ledger!Entry, Entries
  <2> QED
    BY <2>5, LedgerStepIs
<1> QED
  BY <1>1, <1>2, <1>3 DEF Api

LEMMA NextRefines ==
    ASSUME WorkerTypeOK, ExclusiveRun, SkipInv, StaysFresh, KeyInv, [Next]_workerVars
    PROVE  LedgerStep
<1>1. CASE \E w \in Workers : WorkerStep(w)
  BY <1>1, WorkerStepRefines
<1>2. CASE \E r \in Repos : Api(r)
  BY <1>2, ApiRefines
<1>3. CASE \/ StrayPush \/ UNCHANGED workerVars \/ \E w \in Workers : Crash(w)
           \/ \E r \in Repos, b \in Bases : DevPush(r, b)
  BY <1>3, LedgerStutters DEF StrayPush, DevPush, Crash, workerVars, dbVars
<1> QED
  BY <1>1, <1>2, <1>3 DEF Next

LEMMA InitRefines == WorkerInit => Ledger!LedgerInit
<1> SUFFICES ASSUME WorkerInit PROVE Ledger!LedgerInit
  OBVIOUS
<1>1. \A j \in JobIds : EntryOf(jobs[j]) = [state |-> "none", key |-> NoKey, auto |-> FALSE]
  <2> SUFFICES ASSUME NEW j \in JobIds
               PROVE  EntryOf(jobs[j]) = [state |-> "none", key |-> NoKey, auto |-> FALSE]
    OBVIOUS
  <2>1. jobs[j].status = "none" /\ jobs[j].trigger = "manual"
    BY DEF WorkerInit, DBInit, Blank
  <2> QED
    BY <2>1, EntryShapes DEF Success
<1>2. Entries = [j \in JobIds |-> [state |-> "none", key |-> NoKey, auto |-> FALSE]]
  BY <1>1, EntriesAre
<1> QED
  BY <1>2 DEF Ledger!LedgerInit, Ledger!Entry, Entries

\* In a deployment of one worker, whatever crashes, fails, is purged or is
\* pushed in between: a job is started once and ended once, it never changes
\* after its end, and a push is recorded as a success only if no job of its key
\* is so recorded, and as skipped only if one is.
THEOREM QueueImplementsLedger ==
    ASSUME \A v, w \in Workers : v = w
    PROVE  Spec => ImplementsLedger
<1> DEFINE IInv == StaysFresh /\ KeyInv
<1>1. WorkerInit => IInv
  BY InitDeduplicates, InitKeys
<1>2. WorkerTypeOK /\ ExclusiveRun /\ SkipInv /\ RecordInv /\ IInv /\ [Next]_workerVars => IInv'
  BY NextDeduplicates, NextKeys DEF Deduplicates, RecordInv
<1>3. WorkerTypeOK /\ ExclusiveRun /\ SkipInv /\ IInv /\ [Next]_workerVars
         => [Ledger!LedgerNext]_[j \in JobIds |-> LedgerEntry(j)]
  BY NextRefines DEF LedgerStep, Entries
<1> QED
  BY <1>1, <1>2, <1>3, RecordsHold, InitRefines, PTL
  DEF Spec, ImplementsLedger, Ledger!LedgerSpec
=============================================================================
