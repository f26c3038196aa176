------------------------------ MODULE JobSystem ------------------------------
(***************************************************************************)
(* The job queue at work: Workers, the API handlers that write the tables  *)
(* under them (internal/api), and developers who push.  How webhooks turn  *)
(* into jobs is left to WebhookIntake; here a job of any trigger appears   *)
(* at any time, for a branch a push or a comment can name.                 *)
(*                                                                         *)
(* The properties at the end are what the queue owes its users.            *)
(***************************************************************************)
EXTENDS Worker

CONSTANTS
    Sources,  \* the triggers of new jobs in this instance
    NoKey     \* the key of a job that has not been localized

ASSUME SourcesAssumption == Sources \subseteq Triggers

\* Existing settings are required; a new directive is saved with them first.
TriggerJob(r, b) ==
    /\ repos[r].ver > 0
    /\ \E j \in JobIds : CreateJobWithBranch(j, r, "manual", b)
    /\ \/ repos[r].ver < MaxVersion /\ UpsertRepoSettings(r)
       \/ UNCHANGED repos
    /\ UNCHANGED <<cells, usage, ghVars, workVars, budgetVars>>

\* A job of ProcessWebhookEvent or handleTestWebhookPush.
WebhookJob(r, trigger, b) ==
    /\ \E j \in JobIds : CreateJobWithBranch(j, r, trigger, b)
    /\ UNCHANGED <<repos, cells, usage, ghVars, workVars, budgetVars>>

QueueJob(r) ==
    \E b \in Branches :
        \/ "manual" \in Sources /\ TriggerJob(r, b)
        \/ \E trigger \in Sources \ {"manual"} : WebhookJob(r, trigger, b)

SaveSettings(r) ==
    /\ repos[r].ver < MaxVersion
    /\ UpsertRepoSettings(r)
    /\ UNCHANGED <<jobs, cells, usage, ghVars, workVars, budgetVars>>

EditCell(r) ==
    /\ repos[r].live
    /\ \E v \in Edits : UpsertTranslationMatrix(r, v)
    /\ UNCHANGED <<jobs, repos, usage, ghVars, workVars, budgetVars>>

Reset(r) ==
    /\ repos[r].live
    /\ ResetRepoData(r)
    /\ UNCHANGED <<ghVars, workVars, budgetVars>>

Delete(r) ==
    /\ repos[r].live
    /\ DeleteRepo(r)
    /\ UNCHANGED <<ghVars, workVars, budgetVars>>

Api(r) == QueueJob(r) \/ SaveSettings(r) \/ EditCell(r) \/ Reset(r) \/ Delete(r)

Next ==
    \/ \E w \in Workers : WorkerStep(w) \/ Crash(w)
    \/ StrayPush
    \/ \E r \in Repos : Api(r)
    \/ \E r \in Repos, b \in Bases : DevPush(r, b)

Spec == WorkerInit /\ [][Next]_workerVars

\* The loop ticks, every call returns and the deadline bounds the sandbox, so
\* a worker that can move does.  Users, developers, crashes and stray
\* containers owe nothing; the worker is not owed an answer either: BoxTimeout
\* and StepFails are among its steps.
FairSpec == Spec /\ \A w \in Workers : WF_workerVars(WorkerStep(w))

-----------------------------------------------------------------------------
Busy(w) == pc[w] # "idle"

\* A job is worked on by one worker only, and its row says running for as long
\* as there is a row (the claim of queries.go 458-481, cloud_plan.md 192-194).
ExclusiveRun ==
    \A w \in Workers : Busy(w) =>
        /\ jobs[wk[w].job].status \in {"running", "deleted"}
        /\ \A v \in Workers : v # w /\ Busy(v) => wk[v].job # wk[w].job

\* The tables, the workers' memory and GitHub are well typed, and no row is
\* left without what it belongs to when a repository is reset or deleted under
\* a job that goes on to update its row (UpdateJobStatus inserts none).
JobsInv == WorkerTypeOK /\ TablesConsistent

\* With one worker, a push opens no pull request for a commit and settings that
\* an earlier job has on record as localized, and so no push is recorded as a
\* success twice (worker.go 191-200, cloud_plan.md 235-244).  It does for a
\* commit whose pull request left no such record: the row of a job is failed if
\* GitHub's answer or the last update was lost (worker.go 103), running if the
\* process died, and gone after a reset.
PushesDeduplicated ==
    \A p \in prs, i \in JobIds :
        /\ p.trigger = "webhook_push"
        /\ i < p.job
        /\ jobs[i].status \in Success
        => <<jobs[i].repo, jobs[i].sha, jobs[i].hash>> # <<p.repo, p.sha, p.hash>>

SameKey(i, j) == /\ jobs[i].repo = jobs[j].repo
                 /\ jobs[i].sha = jobs[j].sha
                 /\ jobs[i].hash = jobs[j].hash

\* A job skipped as unchanged has a successful job of the same key on record.
SkipsJustified ==
    \A j \in JobIds : jobs[j].status = "skipped_no_changes" =>
        \E i \in JobIds : jobs[i].status \in Success /\ SameKey(i, j)

\* A job recorded as a success has a pull request on GitHub, from the branch
\* in the row, whose commit was pushed, made from the recorded commit of the
\* base branch under the recorded settings (worker.go 210-302).
SuccessHasPullRequest ==
    \A j \in JobIds : jobs[j].status \in Success =>
        /\ jobs[j].pr
        /\ jobs[j].branch = j
        /\ head[jobs[j].repo][j] > jobs[j].sha
        /\ \E p \in prs : /\ p.job = j
                          /\ p.repo = jobs[j].repo
                          /\ p.sha = jobs[j].sha
                          /\ p.hash = jobs[j].hash

\* A running row that no worker holds was left by a crash or a failed
\* statement, one row for each at most: nothing else strands a job.
Stranded == {j \in JobIds : /\ jobs[j].status = "running"
                            /\ \A w \in Workers : Busy(w) => wk[w].job # j}

StrandedAccounted == Cardinality(Stranded) <= faults + crashes

\* What the rows say is so: of success on GitHub, of running in a worker.
RowsTrue == SuccessHasPullRequest /\ StrandedAccounted

\* The branch of a job is pushed once: neither the second try in the same work
\* copy nor a container left behind pushes it again (worker.go 306-413, runner
\* main.go 89-92).
PushedOnce ==
    [][\A r \in Repos, j \in JobIds : head[r][j] # 0 => head'[r][j] = head[r][j]]_workerVars

\* A person's edit of a matrix cell is replaced by a machine translation only
\* by a job that took its copy of the matrix before the edit (or failed to
\* take one): it survives every job that starts later (runner main.go 145-212).
EditsSurviveJobs ==
    [][\A r \in Repos : cells[r] \in Edits /\ cells'[r] = "machine" =>
        \E w \in Workers : /\ pc[w] = "save"
                           /\ wk[w].repo = r
                           /\ wk[w].cell # cells[r]]_workerVars

\* A pending job does not wait for ever: the loop comes back from whatever a
\* job did to it, a crash included (worker.go 67-78).
QueueDrains == \A j \in JobIds : jobs[j].status = "pending" ~> jobs[j].status # "pending"

\* A claimed job ends, whatever the sandbox and GitHub do, unless a crash or a
\* failed statement strands its row (worker.go 82-106).
ClaimedEnds ==
    \A j \in JobIds : jobs[j].status = "running"
                         ~> jobs[j].status # "running" \/ j \in Stranded

\* Every job leaves the queue and its worker.
JobsEnd == QueueDrains /\ ClaimedEnds
-----------------------------------------------------------------------------
\* The queue implements the promises of JobLedger.  A key counts once a job
\* has ended as a success or a skip.
Key(j) == [repo |-> jobs[j].repo, sha |-> jobs[j].sha, hash |-> jobs[j].hash]

LedgerEntry(j) ==
    LET status == jobs[j].status
    IN  [state |-> CASE status \in Success             -> "published"
                     [] status = "skipped_no_changes" -> "skipped"
                     [] OTHER                         -> status,
         key   |-> IF status \in Success \cup {"skipped_no_changes"} THEN Key(j) ELSE NoKey,
         auto  |-> jobs[j].trigger = "webhook_push"]

Ledger == INSTANCE JobLedger WITH
    Jobs   <- JobIds,
    Keys   <- [repo : Repos, sha : 0 .. MaxCommits, hash : 0 .. MaxVersion],
    ledger <- [j \in JobIds |-> LedgerEntry(j)]

\* With one worker, every step of the system is a step of the ledger, or one
\* that the ledger does not see: no job is started or ended twice, and none
\* changes after its end.
ImplementsLedger == Ledger!LedgerSpec
=============================================================================
