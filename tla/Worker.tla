-------------------------------- MODULE Worker --------------------------------
(***************************************************************************)
(* The job worker of langpeanut-cloud (internal/worker, internal/mirror,   *)
(* cmd/runner, pkg/github): the loop that claims rows of the jobs table    *)
(* and takes each through mirror, dedupe check, sandbox, pull request and  *)
(* final update.  A step is the code between two calls that another actor  *)
(* can observe or interrupt.                                               *)
(*                                                                         *)
(* main.go starts one worker per process; Workers are the processes that   *)
(* share the database file.  The sandbox runs beside its worker: the       *)
(* worker waits for it, but a container outlives a worker that dies or     *)
(* gives up on it (strays).  GitHub is external: branch heads are commit   *)
(* numbers, and every push makes a commit that was not there before, for   *)
(* the runner too, which commits a marker file when nothing else changed.  *)
(*                                                                         *)
(* Network calls fail whenever they like.  Database errors and process     *)
(* deaths are limited by MaxFaults and MaxCrashes.                         *)
(***************************************************************************)
EXTENDS CloudDB

CONSTANTS
    Workers,
    MaxCommits   \* bound: commits in one repository

ASSUME WorkerAssumption == MaxCommits \in Nat \ {0}

VARIABLES
    commits,  \* GitHub: newest commit number of each repository
    head,     \* GitHub: commit at the tip of each branch, 0 if there is none
    prs,      \* GitHub: pull requests opened, by the job whose branch they carry
    pc,       \* where each worker is in processNextJob / runJob
    wk,       \* the local variables of runJob
    box,      \* the sandbox each worker waits for
    strays    \* jobs whose container still runs with nobody waiting for it

ghVars     == <<commits, head, prs>>
workVars   == <<pc, wk, box, strays>>
workerVars == <<dbVars, ghVars, workVars, budgetVars>>

PRs == [job : JobIds, repo : Repos, trigger : Triggers, base : Branches,
        sha : Nat, hash : Nat]

\* Locals: the claimed job and the fields of its row that stay in memory, then
\* what the steps find: settings version, base branch and its commit, matrix
\* cell handed to the sandbox, whether the deadline passed, pr_url, prErr.
Locals == [job : JobIds, repo : Repos, trigger : Triggers,
           branch : Branches \cup {NoBranch}, hash : Nat, base : Branches,
           sha : Nat, cell : Cells, late : BOOLEAN, pr : BOOLEAN, err : BOOLEAN]

\* try: 1 docker, 2 runner binary, 0 none.  made: the work copy has the job's
\* branch.  result: what result.json holds.
Box == [try : {0, 1, 2}, phase : {"off", "start", "branched", "pushed", "reported"},
        made : BOOLEAN, result : {"none", "partial", "ok", "review"}]

NoBox == [try |-> 0, phase |-> "off", made |-> FALSE, result |-> "none"]

Steps == {"idle", "claimed", "resolved", "fetched", "skip", "fresh", "sandbox",
          "report", "pr", "annotate", "save", "final", "failing"}

WorkerTypeOK ==
    /\ DBTypeOK
    /\ commits \in [Repos -> Nat]
    /\ head \in [Repos -> [Branches -> Nat]]
    /\ prs \subseteq PRs
    /\ pc \in [Workers -> Steps]
    /\ wk \in [Workers -> Locals]
    /\ box \in [Workers -> Box]
    /\ strays \subseteq (JobIds \X Repos)

NoLocals == [job |-> 1, repo |-> CHOOSE r \in Repos : TRUE, trigger |-> "manual",
             branch |-> NoBranch, hash |-> 0, base |-> DefaultBranch, sha |-> 0,
             cell |-> "absent", late |-> FALSE, pr |-> FALSE, err |-> FALSE]

WorkerInit ==
    /\ DBInit
    /\ commits = [r \in Repos |-> 1]
    /\ head = [r \in Repos |-> [b \in Branches |-> IF b \in Bases THEN 1 ELSE 0]]
    /\ prs = {}
    /\ pc = [w \in Workers |-> "idle"]
    /\ wk = [w \in Workers |-> NoLocals]
    /\ box = [w \in Workers |-> NoBox]
    /\ strays = {}

Goto(w, step) == pc' = [pc EXCEPT ![w] = step]

\* The worker is done with its job and forgets it.
Leave(w) ==
    /\ Goto(w, "idle")
    /\ wk' = [wk EXCEPT ![w] = NoLocals]
    /\ box' = [box EXCEPT ![w] = NoBox]

-----------------------------------------------------------------------------
(* processNextJob: claim *)

Claim(w) ==
    \E j \in JobIds :
        /\ pc[w] = "idle"
        /\ ClaimNextPendingJob(j)
        /\ wk' = [wk EXCEPT ![w] = [NoLocals EXCEPT !.job = j, !.repo = jobs[j].repo,
                                                    !.trigger = jobs[j].trigger,
                                                    !.branch = jobs[j].branch]]
        /\ Goto(w, "claimed")
        /\ UNCHANGED <<repos, cells, usage, ghVars, box, strays, budgetVars>>

\* The claim commits, but reading the row back fails: the worker knows no job.
ClaimUnread(w) ==
    \E j \in JobIds :
        /\ pc[w] = "idle"
        /\ DBFault
        /\ ClaimNextPendingJob(j)
        /\ UNCHANGED <<repos, cells, usage, ghVars, workVars, crashes>>

-----------------------------------------------------------------------------
(* runJob: the steps before the sandbox *)

\* Mistake: the job's branch is forgotten.
ResolvesDefault(w) ==
    /\ pc[w] = "claimed"
    /\ repos[wk[w].repo].live
    /\ repos[wk[w].repo].ver > 0
    /\ wk' = [wk EXCEPT ![w].hash = repos[wk[w].repo].ver, ![w].base = DefaultBranch]
    /\ Goto(w, "resolved")
    /\ UNCHANGED <<dbVars, ghVars, box, strays, budgetVars>>

\* Repository, settings, installation, token and API key.
Resolve(w) ==
    /\ pc[w] = "claimed"
    /\ repos[wk[w].repo].live
    /\ repos[wk[w].repo].ver > 0
    /\ wk' = [wk EXCEPT ![w].hash = repos[wk[w].repo].ver,
                        ![w].base = IF wk[w].branch = NoBranch THEN DefaultBranch
                                    ELSE wk[w].branch]
    /\ Goto(w, "resolved")
    /\ UNCHANGED <<dbVars, ghVars, box, strays, budgetVars>>

\* EnsureMirror fetches, HeadCommitSHA reads the tip of the base branch.
FetchMirror(w) ==
    /\ pc[w] = "resolved"
    /\ head[wk[w].repo][wk[w].base] > 0
    /\ wk' = [wk EXCEPT ![w].sha = head[wk[w].repo][wk[w].base]]
    /\ Goto(w, "fetched")
    /\ UNCHANGED <<dbVars, ghVars, box, strays, budgetVars>>

\* Only a push that came by webhook is checked against earlier jobs.
CheckDuplicate(w) ==
    /\ pc[w] = "fetched"
    /\ Goto(w, IF /\ wk[w].trigger = "webhook_push"
                  /\ HasDuplicateSuccessfulJob(wk[w].repo, wk[w].sha, wk[w].hash)
               THEN "skip" ELSE "fresh")
    /\ UNCHANGED <<dbVars, ghVars, wk, box, strays, budgetVars>>

RecordSkip(w) ==
    /\ pc[w] = "skip"
    /\ UpdateJobStatus(wk[w].job, "skipped_no_changes", NoBranch, wk[w].sha,
                       wk[w].hash, FALSE)
    /\ Leave(w)
    /\ UNCHANGED <<repos, cells, usage, ghVars, strays, budgetVars>>

\* Clone the work copy, read the matrix for the sandbox and start it: docker,
\* or the runner binary where there is no docker, or neither is installed.
Clone(w) ==
    /\ pc[w] = "fresh"
    /\ \/ wk' = [wk EXCEPT ![w].cell = cells[wk[w].repo]] /\ UNCHANGED faults
       \/ DBFault /\ UNCHANGED wk   \* "matrix, _ :=" goes on without one
    /\ \/ \E try \in {1, 2} : box' = [box EXCEPT ![w].try = try, ![w].phase = "start"]
          /\ Goto(w, "sandbox")
       \/ Goto(w, "report") /\ UNCHANGED box
    /\ UNCHANGED <<dbVars, ghVars, strays, crashes>>

\* Every early "return err" of those steps.
StepFails(w) ==
    /\ pc[w] \in {"claimed", "resolved", "fetched", "fresh"}
    /\ Goto(w, "failing")
    /\ UNCHANGED <<dbVars, ghVars, wk, box, strays, budgetVars>>

-----------------------------------------------------------------------------
(* The sandbox: cmd/runner started by launchSandbox *)

Running(w, phases) == pc[w] = "sandbox" /\ box[w].phase \in phases

\* Mistake: the runner is tried again and again.
RetriesAlways(w, result) ==
    /\ box' = [box EXCEPT ![w] = [@ EXCEPT !.try = @ + 1, !.phase = "start",
                                           !.result = result]]
    /\ UNCHANGED pc

\* The runner ended badly.  After docker the runner binary gets the same work
\* copy, if it is installed; after that the worker goes on.
Exit(w, result) ==
    \/ /\ box[w].try = 1
       /\ box' = [box EXCEPT ![w] = [@ EXCEPT !.try = 2, !.phase = "start",
                                              !.result = result]]
       /\ UNCHANGED pc
    \/ /\ box' = [box EXCEPT ![w] = [@ EXCEPT !.phase = "off", !.result = result]]
       /\ Goto(w, "report")

\* Mistake: git checkout -B.
ForcesBranch(w) ==
    /\ Running(w, {"start"})
    /\ box' = [box EXCEPT ![w].phase = "branched", ![w].made = TRUE]
    /\ UNCHANGED <<dbVars, pc, ghVars, wk, strays, budgetVars>>

\* git checkout -b: fails in a work copy where the first try left the branch.
BoxBranch(w) ==
    /\ Running(w, {"start"})
    /\ IF box[w].made
       THEN Exit(w, box[w].result)
       ELSE /\ box' = [box EXCEPT ![w].phase = "branched", ![w].made = TRUE]
            /\ UNCHANGED pc
    /\ UNCHANGED <<dbVars, ghVars, wk, strays, budgetVars>>

PushBranch(j, r) ==
    /\ commits[r] < MaxCommits
    /\ commits' = [commits EXCEPT ![r] = @ + 1]
    /\ head' = [head EXCEPT ![r][j] = commits[r] + 1]
    /\ UNCHANGED prs

\* The pipeline ran, the changes (or the marker) are committed and pushed.
BoxPush(w) ==
    /\ Running(w, {"branched"})
    /\ PushBranch(wk[w].job, wk[w].repo)
    /\ box' = [box EXCEPT ![w].phase = "pushed"]
    /\ UNCHANGED <<dbVars, pc, wk, strays, budgetVars>>

\* The pipeline or the push fails, the latter perhaps only in its answer: a
\* partial result is written, or a whole one with unresolved errors.
BoxFails(w) ==
    /\ Running(w, {"branched", "pushed"})
    /\ \E result \in {"partial", "review"} : Exit(w, result)
    /\ UNCHANGED <<dbVars, ghVars, wk, strays, budgetVars>>

\* The result is written, with unresolved compiler errors or without.
BoxReport(w) ==
    /\ Running(w, {"pushed"})
    /\ \E result \in {"ok", "review"} :
           box' = [box EXCEPT ![w].phase = "reported", ![w].result = result]
    /\ UNCHANGED <<dbVars, ghVars, pc, wk, strays, budgetVars>>

BoxDone(w) ==
    /\ Running(w, {"reported"})
    /\ box' = [box EXCEPT ![w].phase = "off"]
    /\ Goto(w, "report")
    /\ UNCHANGED <<dbVars, ghVars, wk, strays, budgetVars>>

\* The runner is killed from outside (memory limit, daemon) or cannot start.
BoxDies(w) ==
    /\ Running(w, {"start", "branched", "pushed", "reported"})
    /\ Exit(w, box[w].result)
    /\ UNCHANGED <<dbVars, ghVars, wk, strays, budgetVars>>

\* A container that nobody waits for any more: what was not pushed yet may be.
Abandoned(w) == IF box[w].try = 1 /\ box[w].phase \in {"start", "branched"}
                THEN {<<wk[w].job, wk[w].repo>>} ELSE {}

\* RunnerTimeout, or the shutdown of the server: the docker client is killed,
\* not its container; the runner binary dies and no second try can start.
BoxTimeout(w) ==
    /\ Running(w, {"start", "branched", "pushed", "reported"})
    /\ box' = [box EXCEPT ![w].phase = "off"]
    /\ wk' = [wk EXCEPT ![w].late = TRUE]
    /\ strays' = strays \cup Abandoned(w)
    /\ Goto(w, "report")
    /\ UNCHANGED <<dbVars, ghVars, budgetVars>>

StrayPush ==
    \E s \in strays :
        /\ strays' = strays \ {s}
        /\ PushBranch(s[1], s[2])
        /\ UNCHANGED <<dbVars, pc, wk, box, budgetVars>>

-----------------------------------------------------------------------------
(* runJob: the steps after the sandbox *)

\* No result.json: the job fails here.  Otherwise the pull request is tried,
\* also for a partial result.
ReadResult(w) ==
    /\ pc[w] = "report"
    /\ box[w].result # "none"
    /\ Goto(w, "pr")
    /\ UNCHANGED <<dbVars, ghVars, wk, box, strays, budgetVars>>

\* Mistake: a job whose deadline has passed is waited for.
AwaitsResult(w) ==
    /\ pc[w] = "report"
    /\ box[w].result = "none"
    /\ ~ wk[w].late
    /\ UpdateJobStatus(wk[w].job, "failed", wk[w].job, wk[w].sha, wk[w].hash, FALSE)
    /\ Leave(w)
    /\ UNCHANGED <<repos, cells, usage, ghVars, strays, budgetVars>>

RecordNoResult(w) ==
    /\ pc[w] = "report"
    /\ box[w].result = "none"
    /\ UpdateJobStatus(wk[w].job, "failed", wk[w].job, wk[w].sha, wk[w].hash, FALSE)
    /\ Leave(w)
    /\ UNCHANGED <<repos, cells, usage, ghVars, strays, budgetVars>>

PullRequest(w) == [job |-> wk[w].job, repo |-> wk[w].repo, trigger |-> wk[w].trigger,
                   base |-> wk[w].base, sha |-> wk[w].sha, hash |-> wk[w].hash]

\* GitHub opens a pull request only for a branch it has; the answer can be lost.
CreatePullRequest(w) ==
    /\ pc[w] = "pr"
    /\ ~ wk[w].late
    /\ head[wk[w].repo][wk[w].job] > 0
    /\ prs' = prs \cup {PullRequest(w)}
    /\ \/ Goto(w, "annotate") /\ wk' = [wk EXCEPT ![w].pr = TRUE]
       \/ Goto(w, "save") /\ wk' = [wk EXCEPT ![w].err = TRUE]
    /\ UNCHANGED <<dbVars, commits, head, box, strays, budgetVars>>

CreateFails(w) ==
    /\ pc[w] = "pr"
    /\ wk' = [wk EXCEPT ![w].err = TRUE]
    /\ Goto(w, "save")
    /\ UNCHANGED <<dbVars, ghVars, box, strays, budgetVars>>

\* Labels, then a comment if errors are left; a failure of either is prErr.
Annotate(w) ==
    /\ pc[w] = "annotate"
    /\ \E failed \in BOOLEAN : wk' = [wk EXCEPT ![w].err = failed]
    /\ Goto(w, "save")
    /\ UNCHANGED <<dbVars, ghVars, box, strays, budgetVars>>

\* Mistake: the pipeline's translation wins over what is in the matrix.
PipelineCell(w) == "machine"

\* The cell the runner hands back: what it was given wins over its own.
ResultCell(w) == IF wk[w].cell \in Edits THEN wk[w].cell ELSE "machine"

\* Token usage and matrix are written whether or not the job succeeded, and
\* their errors are ignored.  A pipeline that stopped early has no cells.
SaveResult(w) ==
    /\ pc[w] = "save"
    /\ RecordJobTokenUsage(wk[w].job)
    /\ \/ UpsertTranslationMatrix(wk[w].repo, ResultCell(w))
       \/ box[w].result = "partial" /\ UNCHANGED cells
    /\ Goto(w, "final")
    /\ UNCHANGED <<jobs, repos, ghVars, wk, box, strays, budgetVars>>

\* Mistake: the pull request is not looked at.
IgnoresPullRequest(w) == IF box[w].result = "review" THEN "needs_review" ELSE "succeeded"

FinalStatus(w) == IF wk[w].err THEN "failed"
                  ELSE IF box[w].result = "review" THEN "needs_review" ELSE "succeeded"

RecordFinal(w) ==
    /\ pc[w] = "final"
    /\ UpdateJobStatus(wk[w].job, FinalStatus(w), wk[w].job, wk[w].sha, wk[w].hash,
                       wk[w].pr)
    /\ Leave(w)
    /\ UNCHANGED <<repos, cells, usage, ghVars, strays, budgetVars>>

\* The status update of runJob fails: processNextJob tries to record that.
RecordFails(w) ==
    /\ \/ pc[w] \in {"skip", "final"}
       \/ pc[w] = "report" /\ box[w].result = "none"
    /\ DBFault
    /\ Goto(w, "failing")
    /\ UNCHANGED <<dbVars, ghVars, wk, box, strays, crashes>>

\* Mistakes: the error is only logged; the job goes back to the queue; it is
\* started over at once.
OnlyLogs(w) ==
    /\ pc[w] = "failing"
    /\ Leave(w)
    /\ UNCHANGED <<dbVars, ghVars, strays, budgetVars>>

Requeues(w) ==
    /\ pc[w] = "failing"
    /\ UpdateJobStatus(wk[w].job, "pending", wk[w].branch, 0, 0, FALSE)
    /\ Leave(w)
    /\ UNCHANGED <<repos, cells, usage, ghVars, strays, budgetVars>>

StartsOver(w) ==
    /\ pc[w] = "failing"
    /\ Goto(w, "claimed")
    /\ UNCHANGED <<dbVars, ghVars, wk, box, strays, budgetVars>>

\* processNextJob after an error: the row keeps its branch and loses the rest.
RecordFailure(w) ==
    /\ pc[w] = "failing"
    /\ UpdateJobStatus(wk[w].job, "failed", wk[w].branch, 0, 0, FALSE)
    /\ Leave(w)
    /\ UNCHANGED <<repos, cells, usage, ghVars, strays, budgetVars>>

\* That fails as well: the error is logged and the row is left as it is.
GiveUp(w) ==
    /\ pc[w] = "failing"
    /\ DBFault
    /\ Leave(w)
    /\ UNCHANGED <<dbVars, ghVars, strays, crashes>>

-----------------------------------------------------------------------------
(* Around the worker *)

\* The process dies and is started again; main.go repairs no row.
Crash(w) ==
    /\ crashes < MaxCrashes
    /\ crashes' = crashes + 1
    /\ strays' = strays \cup (IF pc[w] = "sandbox" THEN Abandoned(w) ELSE {})
    /\ Leave(w)
    /\ UNCHANGED <<dbVars, ghVars, faults>>

\* A developer pushes to a branch (external).
DevPush(r, b) ==
    /\ commits[r] < MaxCommits
    /\ commits' = [commits EXCEPT ![r] = @ + 1]
    /\ head' = [head EXCEPT ![r][b] = commits[r] + 1]
    /\ UNCHANGED <<dbVars, prs, workVars, budgetVars>>

BoxStep(w) == BoxBranch(w) \/ BoxPush(w) \/ BoxFails(w) \/ BoxReport(w)
              \/ BoxDone(w) \/ BoxDies(w) \/ BoxTimeout(w)

WorkerStep(w) ==
    \/ Claim(w) \/ ClaimUnread(w)
    \/ Resolve(w) \/ FetchMirror(w) \/ CheckDuplicate(w) \/ RecordSkip(w)
    \/ Clone(w) \/ StepFails(w)
    \/ BoxStep(w)
    \/ ReadResult(w) \/ RecordNoResult(w) \/ CreatePullRequest(w) \/ CreateFails(w)
    \/ Annotate(w) \/ SaveResult(w) \/ RecordFinal(w)
    \/ RecordFails(w) \/ RecordFailure(w) \/ GiveUp(w)

=============================================================================
