----------------------------- MODULE CloudSystem -----------------------------
(***************************************************************************)
(* langpeanut-cloud as it is deployed (cmd/server/main.go): the HTTP       *)
(* server, the webhook subscriber and one job worker in a process, over    *)
(* one database, with GitHub around them.  This is the autopilot: jobs     *)
(* come from webhooks, and the branch a job pushes is itself a push that   *)
(* GitHub may deliver.  Users, whose calls JobSystem and WebhookIntake     *)
(* interleave with each half, stay away.                                   *)
(*                                                                         *)
(* GitHub delivers events for branches it has, in any order and number (a  *)
(* delivery can be sent again by hand), up to MaxDeliveries.               *)
(***************************************************************************)
EXTENDS JobSystem, WebhookIntake

systemVars == <<workerVars, intakeVars>>

Init == WorkerInit /\ IntakeInit

\* The process dies as a whole: worker, handlers and subscriber.
ServerCrash(w) ==
    /\ Crash(w)
    /\ DropThreads

Deliver(t, e) ==
    /\ head[e.repo][e.branch] > 0
    /\ Receive(t, e)
    /\ UNCHANGED <<ghVars, workVars>>

Intake(t) ==
    /\ IntakeStep(t) \/ \E d \in topic : Pull(t, d)
    /\ UNCHANGED <<ghVars, workVars>>

SystemNext ==
    \/ \E w \in Workers : WorkerStep(w) /\ UNCHANGED intakeVars
    \/ \E w \in Workers : ServerCrash(w)
    \/ \E t \in Threads : Intake(t)
    \/ \E t \in Threads, e \in Events : Deliver(t, e)
    \/ StrayPush /\ UNCHANGED intakeVars
    \/ \E r \in Repos, b \in Bases : DevPush(r, b) /\ UNCHANGED intakeVars

SystemSpec == Init /\ [][SystemNext]_systemVars

\* As in JobSystem and WebhookIntake: workers, goroutines and the subscriber
\* move when they can; users, developers and GitHub owe nothing.
SystemFairSpec ==
    /\ SystemSpec
    /\ \A w \in Workers : WF_systemVars(WorkerStep(w) /\ UNCHANGED intakeVars)
    /\ \A t \in Threads : WF_systemVars(Intake(t))

-----------------------------------------------------------------------------
\* A branch that a job pushed triggers no localization of its own
\* (handlers.go 1489, "to prevent recursion loops").  It does where the
\* repository has a branch prefix of its own (worker.go 203).
NoRecursion ==
    \A d \in DOMAIN deliveries :
        deliveries[d].event.kind = "push" /\ deliveries[d].event.branch \in JobIds
            => deliveries[d].jobs = {}

\* The pull request of a push goes to the branch that was pushed, and its
\* commit is one that branch had (handlers.go 1547, worker.go 172-183, 257).
PullRequestsTargetPush ==
    \A d \in DOMAIN deliveries : \A p \in prs :
        p.job \in deliveries[d].jobs /\ deliveries[d].event.kind = "push" =>
            /\ p.base = deliveries[d].event.branch
            /\ p.sha <= head[p.repo][p.base]

\* A delivery is dealt with: GitHub has its answer, no message is left in the
\* topic, and its jobs have ended, unless a crash strands one.
Settled(d) ==
    /\ deliveries[d].reply # "waiting"
    /\ d \notin topic
    /\ \A j \in deliveries[d].jobs :
           jobs[j].status \in {"pending", "running"} => j \in Stranded

\* Every delivery whose body decodes is dealt with in the end, through server,
\* subscriber and worker and across a death of the process (pubsub.go 70-112).
DeliveriesSettle ==
    \A d \in 1 .. MaxDeliveries :
        d \in DOMAIN deliveries /\ Decodes(deliveries[d].event)
            ~> d \in DOMAIN deliveries /\ Settled(d)
=============================================================================
