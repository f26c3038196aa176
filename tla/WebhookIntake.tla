---------------------------- MODULE WebhookIntake ----------------------------
(***************************************************************************)
(* How GitHub webhooks become jobs (internal/api handleWebhook and         *)
(* ProcessWebhookEvent, internal/pubsub): a delivery is published to a     *)
(* topic and processed by a subscriber, or processed while GitHub waits    *)
(* when there is no topic or publishing fails.                             *)
(*                                                                         *)
(* A goroutine is a thread that takes one delivery through the queries of  *)
(* ProcessWebhookEvent; other threads, the users and the death of the      *)
(* server come between any two of them.  The topic is external: it keeps   *)
(* a message until it is acked and may hand it out more than once          *)
(* (MaxDups bounds how often without a nack).  Threads is a bound: the     *)
(* server starts as many goroutines as it needs.                           *)
(***************************************************************************)
EXTENDS CloudDB, Sequences

CONSTANTS
    Threads,
    Events,          \* what GitHub may deliver
    Switches,        \* values users give the webhook switches of a repository
    UsePubSub,       \* GCP_PROJECT_ID is set
    LookupsFail,     \* the lookups of repository and settings can fail
    OwnBranches,     \* branches called "langpeanut/...": those of jobs, but not of
                     \* jobs run while their repository had a prefix of its own
    CustomBranches,  \* branches that WebhookCustomBranches matches
    MaxDeliveries,   \* bound: deliveries by GitHub
    MaxDups,         \* bound: messages handed out twice for no fault of ours
    MaxResets        \* bound: resets of repositories

\* decodes: the body is what the handler of its kind unmarshals.  That of a
\* hook set up to send forms is not, though its signature is right.
Event  == [kind : {"push", "comment", "other"}, repo : Repos, branch : Branches,
           directive : BOOLEAN, decodes : BOOLEAN]
Switch == [push : BOOLEAN, comments : BOOLEAN,
           filter : {"default_branch", "custom", "all"}]

ASSUME IntakeAssumption ==
    /\ Events \subseteq Event
    /\ Switches \subseteq Switch
    /\ {UsePubSub, LookupsFail} \subseteq BOOLEAN
    /\ OwnBranches \subseteq Branches
    /\ CustomBranches \subseteq Branches
    /\ {MaxDeliveries, MaxDups, MaxResets} \subseteq Nat
    /\ IsFiniteSet(Threads)

VARIABLES
    switch,      \* the webhook switches in each repo_settings row
    deliveries,  \* GitHub: deliveries so far, what it was told, what came of them
    topic,       \* deliveries with a message that is not acked
    threads,     \* where each goroutine is
    dups,        \* messages handed out twice so far
    resets       \* resets so far

intakeVars == <<switch, deliveries, topic, threads, dups, resets>>

Nobody == [at |-> "free", del |-> 0, http |-> FALSE, branch |-> NoBranch,
           job |-> 0, ver |-> 0, seen |-> CHOOSE s \in Switches : TRUE]

IntakeTypeOK ==
    /\ DBTypeOK
    /\ switch \in [Repos -> Switches]
    /\ deliveries \in Seq([event : Events, jobs : SUBSET JobIds,
                           ignored : BOOLEAN,  \* history: looked at and not wanted
                           blind : BOOLEAN,    \* history: dropped by a failed lookup
                           reply : {"waiting", "queued", "done", "error", "lost"}])
    /\ topic \subseteq DOMAIN deliveries
    /\ threads \in [Threads ->
           [at : {"free", "publish", "lookup", "read", "write", "create", "readback",
                  "ok", "bad"},
            del : 0 .. MaxDeliveries, http : BOOLEAN,
            branch : Branches \cup {NoBranch}, job : 0 .. MaxJobs, ver : Nat,
            seen : Switches]]
    /\ {dups, resets} \subseteq Nat

IntakeInit ==
    /\ DBInit
    /\ switch \in [Repos -> Switches]
    /\ deliveries = << >>
    /\ topic = {}
    /\ threads = [t \in Threads |-> Nobody]
    /\ dups = 0
    /\ resets = 0

EventOf(t) == deliveries[threads[t].del].event
RepoOf(t)  == EventOf(t).repo

Advance(t, step) == threads' = [threads EXCEPT ![t].at = step]
Reply(d, answer) == deliveries' = [deliveries EXCEPT ![d].reply = answer]

-----------------------------------------------------------------------------
(* handleWebhook, for a delivery whose signature is right *)

Receive(t, e) ==
    /\ threads[t] = Nobody
    /\ Len(deliveries) < MaxDeliveries
    /\ deliveries' = Append(deliveries, [event |-> e, jobs |-> {}, ignored |-> FALSE,
                                         blind |-> FALSE, reply |-> "waiting"])
    /\ threads' = [threads EXCEPT ![t].at = IF UsePubSub THEN "publish" ELSE "lookup",
                                  ![t].del = Len(deliveries) + 1,
                                  ![t].http = TRUE]
    /\ UNCHANGED <<dbVars, budgetVars, switch, topic, dups, resets>>

\* Mistakes: the message is that of the next delivery; no return after it.
PublishesNext(t) ==
    /\ threads[t].at = "publish"
    /\ topic' = topic \cup {threads[t].del + 1}
    /\ Reply(threads[t].del, "queued")
    /\ threads' = [threads EXCEPT ![t] = Nobody]
    /\ UNCHANGED <<dbVars, budgetVars, switch, dups, resets>>

PublishesAndGoesOn(t) ==
    /\ threads[t].at = "publish"
    /\ topic' = topic \cup {threads[t].del}
    /\ Reply(threads[t].del, "queued")
    /\ Advance(t, "lookup")
    /\ UNCHANGED <<dbVars, budgetVars, switch, dups, resets>>

Publish(t) ==
    /\ threads[t].at = "publish"
    /\ topic' = topic \cup {threads[t].del}
    /\ Reply(threads[t].del, "queued")
    /\ threads' = [threads EXCEPT ![t] = Nobody]
    /\ UNCHANGED <<dbVars, budgetVars, switch, dups, resets>>

\* Falls back to processing in line; the topic may have the message anyway.
PublishFails(t) ==
    /\ threads[t].at = "publish"
    /\ \/ UNCHANGED <<topic, dups>>
       \/ dups < MaxDups /\ dups' = dups + 1 /\ topic' = topic \cup {threads[t].del}
    /\ Advance(t, "lookup")
    /\ UNCHANGED <<dbVars, budgetVars, switch, deliveries, resets>>

\* RunSubscriber gets a message: one that nobody handles, or once more.
Pull(t, d) ==
    /\ threads[t] = Nobody
    /\ d \in topic
    /\ \/ \A u \in Threads : threads[u].del # d
          /\ UNCHANGED dups
       \/ \E u \in Threads : threads[u].del = d
          /\ dups < MaxDups
          /\ dups' = dups + 1
    /\ threads' = [threads EXCEPT ![t].at = "lookup", ![t].del = d]
    /\ UNCHANGED <<dbVars, budgetVars, switch, deliveries, topic, resets>>

-----------------------------------------------------------------------------
(* ProcessWebhookEvent *)

BranchMatches(r, b) == CASE switch[r].filter = "all"    -> TRUE
                         [] switch[r].filter = "custom" -> b \in CustomBranches
                         [] OTHER                       -> b = DefaultBranch

\* Events of other kinds are not decoded.
Decodes(e) == e.kind = "other" \/ e.decodes

PushWanted(r, b) == repos[r].ver > 0 /\ switch[r].push /\ BranchMatches(r, b)

\* Settings that are missing do not stop a comment.
CommentWanted(r) == repos[r].ver > 0 => switch[r].comments

Wanted(e) ==
    \/ e.kind = "push" /\ e.branch \notin OwnBranches /\ repos[e.repo].live
       /\ PushWanted(e.repo, e.branch)
    \/ e.kind = "comment" /\ repos[e.repo].live /\ CommentWanted(e.repo)

\* "return fmt.Errorf("decode push: ..."): the same on every try.
Undecodable(t) ==
    /\ threads[t].at = "lookup"
    /\ ~ Decodes(EventOf(t))
    /\ Advance(t, "bad")
    /\ UNCHANGED <<dbVars, budgetVars, switch, deliveries, topic, dups, resets>>

\* Mistake: an event that is not wanted is an error.
Rejects(t) ==
    /\ threads[t].at = "lookup"
    /\ Decodes(EventOf(t))
    /\ ~ Wanted(EventOf(t))
    /\ deliveries' = [deliveries EXCEPT ![threads[t].del].ignored = TRUE]
    /\ Advance(t, "bad")
    /\ UNCHANGED <<dbVars, budgetVars, switch, topic, dups, resets>>

Ignore(t) ==
    /\ threads[t].at = "lookup"
    /\ Decodes(EventOf(t))
    /\ ~ Wanted(EventOf(t))
    /\ deliveries' = [deliveries EXCEPT ![threads[t].del].ignored = TRUE]
    /\ Advance(t, "ok")
    /\ UNCHANGED <<dbVars, budgetVars, switch, topic, dups, resets>>

\* A failed lookup is taken for a repository that is not enabled.
LookupFails(t) ==
    /\ threads[t].at = "lookup"
    /\ Decodes(EventOf(t))
    /\ LookupsFail
    /\ DBFault
    /\ EventOf(t).kind = "push" => EventOf(t).branch \notin OwnBranches
    /\ EventOf(t).kind # "other"
    /\ deliveries' = [deliveries EXCEPT ![threads[t].del].blind = TRUE]
    /\ Advance(t, "ok")
    /\ UNCHANGED <<dbVars, crashes, switch, topic, dups, resets>>

AcceptPush(t) ==
    /\ threads[t].at = "lookup"
    /\ EventOf(t).kind = "push"
    /\ Decodes(EventOf(t))
    /\ Wanted(EventOf(t))
    /\ threads' = [threads EXCEPT ![t].at = "create", ![t].branch = EventOf(t).branch]
    /\ UNCHANGED <<dbVars, budgetVars, switch, deliveries, topic, dups, resets>>

\* Settings that cannot be read do not stop a comment either.  The branch is
\* the head of the pull request, or the default one if GitHub does not tell.
AcceptComment(t) ==
    /\ threads[t].at = "lookup"
    /\ EventOf(t).kind = "comment"
    /\ Decodes(EventOf(t))
    /\ \/ Wanted(EventOf(t)) /\ UNCHANGED faults
       \/ LookupsFail /\ repos[RepoOf(t)].live /\ DBFault
    /\ \E b \in {EventOf(t).branch, DefaultBranch} :
           threads' = [threads EXCEPT ![t].at = IF EventOf(t).directive THEN "read"
                                                ELSE "create",
                                      ![t].branch = b]
    /\ UNCHANGED <<dbVars, crashes, switch, deliveries, topic, dups, resets>>

\* The directive is saved by reading the whole settings row ...
ReadSettings(t) ==
    /\ threads[t].at = "read"
    /\ \/ /\ repos[RepoOf(t)].ver > 0
          /\ threads' = [threads EXCEPT ![t].at = "write", ![t].seen = switch[RepoOf(t)],
                                        ![t].ver = repos[RepoOf(t)].ver]
          /\ UNCHANGED faults
       \/ /\ (repos[RepoOf(t)].ver = 0 /\ UNCHANGED faults) \/ DBFault
          /\ Advance(t, "create")
    /\ UNCHANGED <<dbVars, crashes, switch, deliveries, topic, dups, resets>>

\* Mistake: a fresh row with the directive in it is written.
WritesFreshRow(t) ==
    /\ threads[t].at = "write"
    /\ UpsertRepoSettings(RepoOf(t))
    /\ switch' = [switch EXCEPT ![RepoOf(t)] = Nobody.seen]
    /\ Advance(t, "create")
    /\ UNCHANGED <<jobs, cells, usage, budgetVars, deliveries, topic, dups, resets>>

\* ... and writing it back; an error is ignored.
WriteSettings(t) ==
    /\ threads[t].at = "write"
    /\ \/ /\ UpsertRepoSettings(RepoOf(t))
          /\ switch' = IF repos[RepoOf(t)].live
                       THEN [switch EXCEPT ![RepoOf(t)] = threads[t].seen] ELSE switch
          /\ UNCHANGED faults
       \/ DBFault /\ UNCHANGED <<repos, switch>>
    /\ Advance(t, "create")
    /\ UNCHANGED <<jobs, cells, usage, crashes, deliveries, topic, dups, resets>>

TriggerOf(e) == IF e.kind = "push" THEN "webhook_push" ELSE "webhook_pr_comment"

CreateJob(t) ==
    /\ threads[t].at = "create"
    /\ \E j \in JobIds :
           /\ CreateJobWithBranch(j, RepoOf(t), TriggerOf(EventOf(t)), threads[t].branch)
           /\ deliveries' = [deliveries EXCEPT ![threads[t].del].jobs = @ \cup {j}]
           /\ threads' = [threads EXCEPT ![t].at = "readback", ![t].job = j]
    /\ UNCHANGED <<repos, cells, usage, budgetVars, switch, topic, dups, resets>>

\* Mistake: the insert is tried until the repository is back.
RetriesInsert(t) ==
    /\ threads[t].at = "create"
    /\ DBFault
    /\ Advance(t, "bad")
    /\ UNCHANGED <<dbVars, crashes, switch, deliveries, topic, dups, resets>>

\* The insert fails: the repository has been deleted, or the database errs.
InsertFails(t) ==
    /\ threads[t].at = "create"
    /\ (~ repos[RepoOf(t)].live /\ UNCHANGED faults) \/ DBFault
    /\ Advance(t, "bad")
    /\ UNCHANGED <<dbVars, crashes, switch, deliveries, topic, dups, resets>>

\* The new row is read back.
ReadBack(t) ==
    /\ threads[t].at = "readback"
    /\ \/ RowExists(threads[t].job) /\ Advance(t, "ok") /\ UNCHANGED faults
       \/ Advance(t, "bad") /\ DBFault
    /\ UNCHANGED <<dbVars, crashes, switch, deliveries, topic, dups, resets>>

\* The server is gone: nobody answers who was waiting, messages stay unacked.
DropThreads ==
    /\ threads' = [t \in Threads |-> Nobody]
    /\ deliveries' = [d \in DOMAIN deliveries |->
           [deliveries[d] EXCEPT !.reply = IF @ = "waiting" THEN "lost" ELSE @]]
    /\ UNCHANGED <<switch, topic, dups, resets>>

\* The row was purged meanwhile: GetJobByID returns no job and no error, and
\* the log line after it dereferences nil.  net/http recovers a panic of its
\* handlers; in the subscriber it ends the process.
ReadBackPanics(t) ==
    /\ threads[t].at = "readback"
    /\ ~ RowExists(threads[t].job)
    /\ \/ /\ threads[t].http
          /\ Reply(threads[t].del, "lost")
          /\ threads' = [threads EXCEPT ![t] = Nobody]
          /\ UNCHANGED <<switch, topic, dups, resets, crashes>>
       \/ ~ threads[t].http /\ DropThreads /\ crashes' = crashes + 1
    /\ UNCHANGED <<dbVars, faults>>

\* Mistake: a message is acked whatever came of it.
AcksAlways(t) ==
    LET d == threads[t].del IN
    /\ threads[t].at \in {"ok", "bad"}
    /\ IF threads[t].http
       THEN Reply(d, IF threads[t].at = "ok" THEN "done" ELSE "error") /\ UNCHANGED topic
       ELSE topic' = topic \ {d} /\ UNCHANGED deliveries
    /\ threads' = [threads EXCEPT ![t] = Nobody]
    /\ UNCHANGED <<dbVars, budgetVars, switch, dups, resets>>

\* writeJSON, Ack or Nack.  An ack can be lost.
Finish(t) ==
    LET d == threads[t].del IN
    /\ threads[t].at \in {"ok", "bad"}
    /\ \/ /\ threads[t].http
          /\ Reply(d, IF threads[t].at = "ok" THEN "done" ELSE "error")
          /\ UNCHANGED <<topic, dups>>
       \/ /\ ~ threads[t].http
          /\ topic' = IF threads[t].at = "ok" THEN topic \ {d} ELSE topic
          /\ UNCHANGED <<deliveries, dups>>
       \/ /\ ~ threads[t].http
          /\ threads[t].at = "ok"
          /\ dups < MaxDups
          /\ dups' = dups + 1
          /\ UNCHANGED <<deliveries, topic>>
    /\ threads' = [threads EXCEPT ![t] = Nobody]
    /\ UNCHANGED <<dbVars, budgetVars, switch, resets>>

-----------------------------------------------------------------------------
(* Around the intake *)

IntakeCrash ==
    /\ crashes < MaxCrashes
    /\ crashes' = crashes + 1
    /\ DropThreads
    /\ UNCHANGED <<dbVars, faults>>

\* handleUpsertSettings with all switches in the request.
SaveSwitches(r) ==
    /\ repos[r].ver < MaxVersion
    /\ repos[r].live
    /\ UpsertRepoSettings(r)
    /\ \E s \in Switches : switch' = [switch EXCEPT ![r] = s]
    /\ UNCHANGED <<jobs, cells, usage, budgetVars, deliveries, topic, threads, dups, resets>>

PurgeRepo(r) ==
    /\ repos[r].live
    /\ \/ ResetRepoData(r) /\ resets < MaxResets /\ resets' = resets + 1
       \/ DeleteRepo(r) /\ UNCHANGED resets
    /\ UNCHANGED <<budgetVars, switch, deliveries, topic, threads, dups>>

Process(t) ==
    \/ Undecodable(t) \/ Ignore(t) \/ LookupFails(t) \/ AcceptPush(t) \/ AcceptComment(t)
    \/ ReadSettings(t) \/ WriteSettings(t)
    \/ CreateJob(t) \/ InsertFails(t) \/ ReadBack(t) \/ ReadBackPanics(t)
    \/ Finish(t)

IntakeStep(t) == Publish(t) \/ PublishFails(t) \/ Process(t)

IntakeNext ==
    \/ \E t \in Threads : IntakeStep(t)
    \/ \E t \in Threads, e \in Events : Receive(t, e)
    \/ \E t \in Threads, d \in topic : Pull(t, d)
    \/ \E r \in Repos : SaveSwitches(r) \/ PurgeRepo(r)
    \/ IntakeCrash

IntakeSpec == IntakeInit /\ [][IntakeNext]_<<dbVars, budgetVars, intakeVars>>

\* Goroutines run on, and Pub/Sub hands out a message until it is acked.
IntakeFairSpec ==
    /\ IntakeSpec
    /\ \A t \in Threads : WF_<<dbVars, budgetVars, intakeVars>>(IntakeStep(t))
    /\ \A d \in 1 .. MaxDeliveries :
           WF_<<dbVars, budgetVars, intakeVars>>(\E t \in Threads : Pull(t, d))

-----------------------------------------------------------------------------
\* What GitHub was told is taken care of: a delivery answered with success is
\* still in the topic, or has a job, or was looked at and not wanted.  Deploys,
\* restarts and failed writes lose none (pubsub.go 1-9); a lookup that fails
\* loses one (handlers.go 1495-1506, 1569-1573).
NoSilentDrop ==
    \A d \in DOMAIN deliveries : deliveries[d].reply \in {"queued", "done"} =>
        d \in topic \/ deliveries[d].jobs # {} \/ deliveries[d].ignored
                  \/ deliveries[d].blind

\* A delivery gets a second job only if a message was handed out twice or a
\* statement failed, once for each, or the server died, once for each handler
\* that died with it: nothing else multiplies jobs (handlers.go 1424-1623).
ExtraJobsAccounted ==
    Cardinality(UNION {deliveries[d].jobs : d \in DOMAIN deliveries})
        <= Cardinality({d \in DOMAIN deliveries : deliveries[d].jobs # {}})
           + dups + faults + crashes * Cardinality(Threads)

\* All of what the intake's state may be; what is lost is NoSilentDrop's.
IntakeInv == IntakeTypeOK /\ ExtraJobsAccounted

\* A comment's directive leaves the webhook switches as the user set them,
\* unless a save comes between its read and its write (handlers.go 1610-1615).
DirectiveKeepsSwitches ==
    [][\A t \in Threads :
           threads[t].at = "write" /\ threads'[t].at # "write" /\ switch' # switch
               => threads[t].ver # repos[RepoOf(t)].ver]_<<dbVars, budgetVars, intakeVars>>

\* A message whose body decodes leaves the topic in the end, also when its
\* repository is deleted under it or its handler dies.  One that does not
\* decode never does: every try ends in a nack, and only a dead-letter policy
\* of the subscription ends it (handlers.go 1484-1486, 1556-1558).
MessagesDrain ==
    \A d \in 1 .. MaxDeliveries :
        d \in topic /\ Decodes(deliveries[d].event) ~> d \notin topic

\* GitHub gets an answer, or a broken connection.
DeliveriesAnswered ==
    \A d \in 1 .. MaxDeliveries :
        d \in DOMAIN deliveries /\ deliveries[d].reply = "waiting"
            ~> d \in DOMAIN deliveries /\ deliveries[d].reply # "waiting"

\* Whatever has come in and decodes is settled with Pub/Sub, and all with GitHub.
IntakeSettles == MessagesDrain /\ DeliveriesAnswered
=============================================================================
