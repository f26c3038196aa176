------------------------------- MODULE CloudDB -------------------------------
(***************************************************************************)
(* The SQLite database of langpeanut-cloud (internal/db): the tables whose *)
(* rows decide what the worker, the webhook intake and the API do, and the *)
(* effect of each query on them.                                           *)
(*                                                                         *)
(* db.Open limits the process to one connection and queries.go wraps every *)
(* multi-statement operation in a transaction, so a query is one step.     *)
(* A statement of two processes on the same file is serialised by SQLite.  *)
(*                                                                         *)
(* Abstractions.  A row id is never used twice (AUTOINCREMENT), so a row   *)
(* keeps its place in jobs after it is deleted.  A settings row is its     *)
(* version: UpsertRepoSettings always moves updated_at, and the worker     *)
(* hashes the whole row, so the hash of a settings row is its version.     *)
(* The translation matrix of a repository is one cell.                     *)
(***************************************************************************)
EXTENDS Naturals, FiniteSets

CONSTANTS
    Repos,          \* ids of rows of the repos table
    Bases,          \* branches that developers own
    DefaultBranch,  \* repos.default_branch
    NoBranch,       \* the empty branch column
    Edits,          \* values a person may put in a matrix cell
    MaxJobs,        \* bound: rows ever inserted in jobs
    MaxVersion,     \* bound: saves of one settings row by users
    MaxFaults,      \* bound: database statements that fail
    MaxCrashes      \* bound: deaths of a process

ASSUME DBAssumption ==
    /\ Repos # {}
    /\ DefaultBranch \in Bases
    /\ MaxJobs \in Nat \ {0}
    /\ MaxVersion \in Nat \ {0}
    /\ MaxFaults \in Nat
    /\ MaxCrashes \in Nat
    /\ NoBranch \notin Bases
    /\ Bases \cap Nat = {}
    /\ NoBranch \notin Nat
    /\ Edits \cap {"absent", "machine"} = {}   \* what people write is not the machine's

VARIABLES
    jobs,   \* the jobs table
    repos,  \* repos and repo_settings: is the row there, version of its settings
    cells,  \* repo_translation_matrix
    usage,  \* ids that have rows in job_token_usage
    faults, \* statements that have failed
    crashes \* processes that have died

dbVars     == <<jobs, repos, cells, usage>>
budgetVars == <<faults, crashes>>

JobIds   == 1 .. MaxJobs
Branches == Bases \cup JobIds   \* the branch a job pushes has the job's id
Success  == {"succeeded", "needs_review"}
Terminal == Success \cup {"failed", "skipped_no_changes"}
Statuses == {"none", "pending", "running", "deleted"} \cup Terminal
Triggers == {"manual", "webhook_push", "webhook_pr_comment"}
Cells    == {"absent", "machine"} \cup Edits

\* A row of jobs; sha and hash are 0 and branch is NoBranch while empty, and
\* pr says whether pr_url is set.  Status "none": the id is still unused;
\* "deleted": the row is gone.
JobRow == [status : Statuses, repo : Repos, trigger : Triggers,
           branch : Branches \cup {NoBranch}, sha : Nat, hash : Nat,
           pr : BOOLEAN]

Blank(status) == [status |-> status, repo |-> CHOOSE r \in Repos : TRUE,
                  trigger |-> "manual", branch |-> NoBranch, sha |-> 0,
                  hash |-> 0, pr |-> FALSE]

DBTypeOK ==
    /\ jobs \in [JobIds -> JobRow]
    /\ repos \in [Repos -> [live : BOOLEAN, ver : Nat]]
    /\ cells \in [Repos -> Cells]
    /\ usage \subseteq JobIds
    /\ faults \in Nat
    /\ crashes \in Nat

DBInit ==
    /\ jobs = [j \in JobIds |-> Blank("none")]
    /\ repos = [r \in Repos |-> [live |-> TRUE, ver |-> 1]]
    /\ cells = [r \in Repos |-> "absent"]
    /\ usage = {}
    /\ faults = 0
    /\ crashes = 0

\* A statement fails and changes nothing: the file is locked by another
\* process, the disk is full.
DBFault == faults < MaxFaults /\ faults' = faults + 1

-----------------------------------------------------------------------------
(* Queries that read. *)

RowExists(j) == jobs[j].status \notin {"none", "deleted"}

\* The oldest pending row; rows of one second keep the order of their ids.
IsNextPending(j) ==
    /\ jobs[j].status = "pending"
    /\ \A i \in JobIds : i < j => jobs[i].status # "pending"

\* Mistakes: jobs in review do not count; other settings count.
IgnoresReviews(r, sha, hash) ==
    \E j \in JobIds : /\ jobs[j].status = "succeeded"
                      /\ <<jobs[j].repo, jobs[j].sha, jobs[j].hash>> = <<r, sha, hash>>

IgnoresSettings(r, sha, hash) ==
    \E j \in JobIds : /\ jobs[j].status \in Success
                      /\ <<jobs[j].repo, jobs[j].sha>> = <<r, sha>>

HasDuplicateSuccessfulJob(r, sha, hash) ==
    \E j \in JobIds : /\ jobs[j].status \in Success
                      /\ jobs[j].repo = r
                      /\ jobs[j].sha = sha
                      /\ jobs[j].hash = hash

-----------------------------------------------------------------------------
(* Queries that write. *)

\* INSERT INTO jobs: the next unused id, refused by the foreign key when the
\* repository row is gone.
CreateJobWithBranch(j, r, trigger, branch) ==
    /\ repos[r].live
    /\ jobs[j].status = "none"
    /\ \A i \in JobIds : i < j => jobs[i].status # "none"
    /\ jobs' = [jobs EXCEPT ![j] = [Blank("pending") EXCEPT !.repo = r,
                                                            !.trigger = trigger,
                                                            !.branch = branch]]

\* Mistake: rows that look abandoned are claimed again.
ClaimsRunning(j) ==
    /\ jobs[j].status \in {"pending", "running"}
    /\ jobs' = [jobs EXCEPT ![j].status = "running"]

\* UPDATE jobs SET status='running' WHERE id=? AND status='pending'
ClaimNextPendingJob(j) ==
    /\ IsNextPending(j)
    /\ jobs' = [jobs EXCEPT ![j].status = "running"]

\* Mistake: an upsert, which brings a purged row back.
UpsertJob(j, status, branch, sha, hash, pr) ==
    jobs' = [jobs EXCEPT ![j] = [@ EXCEPT !.status = status, !.branch = branch,
                                          !.sha = sha, !.hash = hash, !.pr = pr]]

\* UPDATE jobs SET ... WHERE id=?: whatever the status, nothing if no such row.
UpdateJobStatus(j, status, branch, sha, hash, pr) ==
    jobs' = IF RowExists(j)
            THEN [jobs EXCEPT ![j] = [@ EXCEPT !.status = status, !.branch = branch,
                                               !.sha = sha, !.hash = hash, !.pr = pr]]
            ELSE jobs

RecordJobTokenUsage(j) == usage' = IF RowExists(j) THEN usage \cup {j} ELSE usage

\* An upsert of cells, refused by the foreign key when the repository is gone.
UpsertTranslationMatrix(r, v) ==
    cells' = IF repos[r].live THEN [cells EXCEPT ![r] = v] ELSE cells

\* Refused by the foreign key when the repository is gone.
UpsertRepoSettings(r) ==
    repos' = IF repos[r].live THEN [repos EXCEPT ![r].ver = @ + 1] ELSE repos

\* What both purges do to a repository's rows, in one transaction.
PurgeRows(r) ==
    /\ jobs' = [j \in JobIds |-> IF RowExists(j) /\ jobs[j].repo = r
                                 THEN Blank("deleted") ELSE jobs[j]]
    /\ usage' = {j \in usage : jobs[j].repo # r}
    /\ cells' = [cells EXCEPT ![r] = "absent"]

ResetRepoData(r) == PurgeRows(r) /\ UNCHANGED repos

DeleteRepo(r) == PurgeRows(r) /\ repos' = [repos EXCEPT ![r] = [live |-> FALSE, ver |-> 0]]

-----------------------------------------------------------------------------
\* Rows hang together as the foreign keys and the id allocation say: ids are
\* handed out in order, usage rows belong to existing jobs, and jobs and
\* matrix cells to existing repositories (queries.go, 001_initial_schema.sql).
TablesConsistent ==
    /\ \A i, j \in JobIds : i < j /\ jobs[j].status # "none" => jobs[i].status # "none"
    /\ \A j \in usage : RowExists(j)
    /\ \A j \in JobIds : RowExists(j) => repos[jobs[j].repo].live
    /\ \A r \in Repos : ~ repos[r].live => cells[r] = "absent"
=============================================================================
