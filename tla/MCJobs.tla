-------------------------------- MODULE MCJobs --------------------------------
(***************************************************************************)
(* Instances of JobSystem for TLC: one worker under users, whose second    *)
(* job is that of a push, with a failed statement and a death; or two      *)
(* workers and a person who edits the matrix of webhook jobs, with a       *)
(* death. Workers outside the crew do nothing.                             *)
(***************************************************************************)
EXTENDS JobSystem, TLC

CONSTANTS r1, main, w1, w2, none, e1

VARIABLE crew

Sourced(trigger) == \E j \in JobIds : jobs'[j].status = "pending" /\ jobs'[j].trigger = trigger

Users == \/ /\ crew # Workers /\ \E r \in Repos : QueueJob(r) \/ SaveSettings(r) \/ Reset(r) \/ Delete(r)
            /\ ~ Sourced("webhook_pr_comment")
            /\ jobs'[2].status = "pending" => jobs'[2].trigger = "webhook_push"
         \/ /\ crew = Workers /\ \E r \in Repos : Api(r)
            /\ ~ Sourced("manual") /\ ~ Sourced("webhook_push")
            /\ repos'[r1].ver <= 1

JobsNext ==
    /\ \/ \E w \in crew : WorkerStep(w) \/ Crash(w)
       \/ StrayPush
       \/ Users
       \/ \E r \in Repos, b \in Bases : DevPush(r, b)
    /\ crew = Workers => commits'[r1] <= 2 /\ faults' = 0
    /\ UNCHANGED crew

JobsInit == WorkerInit /\ crew \in SUBSET Workers \ {{}}
JobsSpec == JobsInit /\ [][JobsNext]_<<workerVars, crew>>

\* One worker, all users and the fairness of FairSpec.
QueueInit == WorkerInit /\ crew = {}
QueueSpec == /\ QueueInit
             /\ [][Next /\ UNCHANGED crew]_<<workerVars, crew>>
             /\ \A w \in Workers : WF_workerVars(WorkerStep(w))

Symmetry == Permutations(Workers)
=============================================================================
