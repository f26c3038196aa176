----------------------------- MODULE SystemProofs -----------------------------
(***************************************************************************)
(* Theorems about WebhookIntake, for every number of deliveries,           *)
(* goroutines and repositories and every budget of faults, crashes and     *)
(* messages handed out twice, and about CloudSystem, where the intake and  *)
(* the workers run over one database: what a delivery has to do with the   *)
(* pull requests of its jobs.                                              *)
(***************************************************************************)
EXTENDS CloudSystem, JobSystemProofs, SequenceTheorems

\* What a delivery and a goroutine are, as IntakeTypeOK has them.
Delivery == [event : Events, jobs : SUBSET JobIds, ignored : BOOLEAN, blind : BOOLEAN,
             reply : {"waiting", "queued", "done", "error", "lost"}]

Goroutine == [at : {"free", "publish", "lookup", "read", "write", "create", "readback",
                    "ok", "bad"},
              del : 0 .. MaxDeliveries, http : BOOLEAN,
              branch : Branches \cup {NoBranch}, job : 0 .. MaxJobs, ver : Nat,
              seen : Switches]

\* A goroutine that is busy has a delivery in hand.
InHand ==
    /\ Len(deliveries) <= MaxDeliveries
    /\ \A t \in Threads : threads[t].at # "free" => threads[t].del \in DOMAIN deliveries

IntakeTypes == IntakeTypeOK /\ InHand

-----------------------------------------------------------------------------
(* Types *)

\* A goroutine without work is well typed: some value of the switches exists.
LEMMA NobodyTypes == IntakeTypeOK => Nobody \in Goroutine
<1> SUFFICES ASSUME IntakeTypeOK PROVE Nobody \in Goroutine
  OBVIOUS
<1>1. PICK r \in Repos : TRUE
  BY DBAssumption
<1>2. switch[r] \in Switches
  BY DEF IntakeTypeOK
<1>3. (CHOOSE s \in Switches : TRUE) \in Switches
  BY <1>2
<1> QED
  BY <1>3, DBAssumption, IntakeAssumption DEF Nobody, Goroutine

\* What the type invariant says of one goroutine and of the deliveries.
LEMMA IntakeShapes ==
    ASSUME IntakeTypes
    PROVE  /\ threads \in [Threads -> Goroutine]
           /\ deliveries \in Seq(Delivery)
           /\ Len(deliveries) \in Nat
           /\ DOMAIN deliveries = 1 .. Len(deliveries)
           /\ deliveries \in [DOMAIN deliveries -> Delivery]
           /\ \A d \in DOMAIN deliveries : d \in 1 .. MaxDeliveries /\ deliveries[d] \in Delivery
           /\ MaxDeliveries \in Nat
<1>1. deliveries \in Seq(Delivery) /\ threads \in [Threads -> Goroutine]
  BY DEF IntakeTypes, IntakeTypeOK, Delivery, Goroutine
<1> QED
  BY <1>1, LenProperties, ElementOfSeq, IntakeAssumption DEF IntakeTypes, InHand

\* A record written over that of a delivery gives deliveries again.
LEMMA DeliveryWritten ==
    ASSUME IntakeTypes, NEW d \in DOMAIN deliveries, NEW e \in Delivery,
           deliveries' = [deliveries EXCEPT ![d] = e]
    PROVE  /\ deliveries' \in Seq(Delivery)
           /\ Len(deliveries') = Len(deliveries)
           /\ DOMAIN deliveries' = DOMAIN deliveries
           /\ deliveries'[d] = e
           /\ \A i \in DOMAIN deliveries : i # d => deliveries'[i] = deliveries[i]
<1>1. deliveries \in Seq(Delivery) /\ DOMAIN deliveries = 1 .. Len(deliveries)
  BY IntakeShapes
<1> QED
  BY <1>1, ExceptSeq, LenProperties

-----------------------------------------------------------------------------
(* What a step of a goroutine may do to the other goroutines and deliveries. *)

\* The delivery in the hand of goroutine t.
Mine(t) == deliveries[threads[t].del]

\* A change of one field of the delivery in hand.
LEMMA MineChanged ==
    ASSUME IntakeTypes, NEW t \in Threads, threads[t].at # "free"
    PROVE  /\ threads[t].del \in DOMAIN deliveries
           /\ threads[t] \in Goroutine
           /\ Mine(t) \in Delivery
           /\ \A a \in {"waiting", "queued", "done", "error", "lost"} :
                  [Mine(t) EXCEPT !.reply = a] \in Delivery
           /\ [Mine(t) EXCEPT !.ignored = TRUE] \in Delivery
           /\ [Mine(t) EXCEPT !.blind = TRUE] \in Delivery
           /\ \A j \in JobIds : [Mine(t) EXCEPT !.jobs = @ \cup {j}] \in Delivery
<1>1. threads[t].del \in DOMAIN deliveries /\ threads[t] \in Goroutine
  BY IntakeShapes DEF IntakeTypes, InHand
<1>2. Mine(t) \in Delivery
  BY <1>1, IntakeShapes DEF Mine
<1> QED
  BY <1>1, <1>2 DEF Delivery
\* Goroutine t becomes g and its delivery e; nothing else of either moves.
Becomes(t, g, e) ==
    /\ threads' \in [Threads -> Goroutine]
    /\ threads'[t] = g
    /\ \A u \in Threads : u # t => threads'[u] = threads[u]
    /\ deliveries' \in Seq(Delivery)
    /\ Len(deliveries') = Len(deliveries)
    /\ DOMAIN deliveries' = DOMAIN deliveries
    /\ deliveries'[threads[t].del] = e
    /\ \A i \in DOMAIN deliveries : i # threads[t].del => deliveries'[i] = deliveries[i]

Goes(t, step) == [threads[t] EXCEPT !.at = step]

LEMMA BecomesByUpdate ==
    ASSUME IntakeTypes, NEW t \in Threads, threads[t].at # "free",
           NEW g \in Goroutine, NEW e \in Delivery,
           threads' = [threads EXCEPT ![t] = g],
           deliveries' = [deliveries EXCEPT ![threads[t].del] = e]
    PROVE  Becomes(t, g, e)
BY MineChanged, DeliveryWritten, IntakeShapes DEF Becomes

LEMMA BecomesAlone ==
    ASSUME IntakeTypes, NEW t \in Threads, threads[t].at # "free",
           NEW g \in Goroutine,
           threads' = [threads EXCEPT ![t] = g],
           deliveries' = deliveries
    PROVE  Becomes(t, g, Mine(t))
BY MineChanged, IntakeShapes DEF Becomes, Mine

\* A goroutine that goes to another step is a goroutine.
LEMMA GoesTypes ==
    ASSUME IntakeTypes, NEW t \in Threads,
           NEW step \in {"publish", "lookup", "read", "write", "create", "readback", "ok", "bad"}
    PROVE  /\ Goes(t, step) \in Goroutine
           /\ Goes(t, step).at = step
           /\ Goes(t, step).del = threads[t].del
           /\ Goes(t, step).http = threads[t].http
BY IntakeShapes DEF Goes, Goroutine

\* The event in hand is one that GitHub may send.
LEMMA EventTypes ==
    ASSUME IntakeTypes, NEW t \in Threads, threads[t].at # "free"
    PROVE  /\ EventOf(t) \in Events
           /\ EventOf(t) \in Event
           /\ EventOf(t).branch \in Branches
           /\ RepoOf(t) \in Repos
<1>1. EventOf(t) \in Events
  <2>0. Mine(t) \in Delivery
    BY MineChanged
  <2>1. Mine(t).event \in Events
    BY <2>0 DEF Delivery
  <2> QED
    BY <2>1 DEF EventOf, Mine
<1>2. EventOf(t) \in Event
  BY <1>1, IntakeAssumption
<1> QED
  BY <1>1, <1>2 DEF RepoOf, Event

\* How each step of a goroutine leaves it and its delivery: one per action.
LEMMA PublishMoves ==
    ASSUME IntakeTypes, NEW t \in Threads, Publish(t)
    PROVE  Becomes(t, Nobody, [Mine(t) EXCEPT !.reply = "queued"])
<1>1. threads[t].at # "free"
  BY DEF Publish
<1>2. deliveries' = [deliveries EXCEPT ![threads[t].del] = [Mine(t) EXCEPT !.reply = "queued"]]
  BY DEF Publish, Reply, Mine
<1> QED
  BY <1>1, <1>2, MineChanged, NobodyTypes, BecomesByUpdate DEF Publish, IntakeTypes

LEMMA PublishFailsMoves ==
    ASSUME IntakeTypes, NEW t \in Threads, PublishFails(t)
    PROVE  Becomes(t, Goes(t, "lookup"), Mine(t))
BY BecomesAlone, GoesTypes DEF PublishFails, Advance, Goes

LEMMA IgnoreMoves ==
    ASSUME IntakeTypes, NEW t \in Threads, Ignore(t)
    PROVE  Becomes(t, Goes(t, "ok"), [Mine(t) EXCEPT !.ignored = TRUE])
<1>1. threads[t].at # "free"
  BY DEF Ignore
<1>2. deliveries' = [deliveries EXCEPT ![threads[t].del] = [Mine(t) EXCEPT !.ignored = TRUE]]
  BY DEF Ignore, Mine
<1> QED
  BY <1>1, <1>2, MineChanged, GoesTypes, BecomesByUpdate DEF Ignore, Advance, Goes

LEMMA LookupFailsMoves ==
    ASSUME IntakeTypes, NEW t \in Threads, LookupFails(t)
    PROVE  Becomes(t, Goes(t, "ok"), [Mine(t) EXCEPT !.blind = TRUE])
<1>1. threads[t].at # "free"
  BY DEF LookupFails
<1>2. deliveries' = [deliveries EXCEPT ![threads[t].del] = [Mine(t) EXCEPT !.blind = TRUE]]
  BY DEF LookupFails, Mine
<1> QED
  BY <1>1, <1>2, MineChanged, GoesTypes, BecomesByUpdate DEF LookupFails, Advance, Goes

LEMMA AcceptMoves ==
    ASSUME IntakeTypes, NEW t \in Threads, AcceptPush(t) \/ AcceptComment(t)
    PROVE  \E step \in {"read", "create"}, b \in Branches :
               Becomes(t, [Goes(t, step) EXCEPT !.branch = b], Mine(t))
<1>1. threads[t].at # "free" /\ deliveries' = deliveries
  BY DEF AcceptPush, AcceptComment
<1>2. EventOf(t).branch \in Branches /\ DefaultBranch \in Branches
  BY <1>1, EventTypes, DBAssumption DEF Branches
<1>3. PICK step \in {"read", "create"}, b \in Branches :
          threads' = [threads EXCEPT ![t] = [Goes(t, step) EXCEPT !.branch = b]]
  <2>1. CASE AcceptPush(t)
    <3>1. threads' = [threads EXCEPT ![t] = [Goes(t, "create") EXCEPT !.branch = EventOf(t).branch]]
      BY <2>1 DEF AcceptPush, Goes
    <3> QED
      BY <1>2, <3>1
  <2>2. CASE AcceptComment(t)
    <3>1. PICK b \in {EventOf(t).branch, DefaultBranch} :
              threads' = [threads EXCEPT ![t].at = IF EventOf(t).directive THEN "read"
                                                   ELSE "create",
                                         ![t].branch = b]
      BY <2>2 DEF AcceptComment
    <3>2. CASE EventOf(t).directive
      <4>1. threads' = [threads EXCEPT ![t] = [Goes(t, "read") EXCEPT !.branch = b]]
        BY <3>1, <3>2 DEF Goes
      <4> QED
        BY <1>2, <3>1, <4>1
    <3>3. CASE ~ EventOf(t).directive
      <4>1. threads' = [threads EXCEPT ![t] = [Goes(t, "create") EXCEPT !.branch = b]]
        BY <3>1, <3>3 DEF Goes
      <4> QED
        BY <1>2, <3>1, <4>1
    <3> QED
      BY <3>2, <3>3
  <2> QED
    BY <2>1, <2>2
<1>4. [Goes(t, step) EXCEPT !.branch = b] \in Goroutine
  BY GoesTypes DEF Goroutine
<1> QED
  BY <1>1, <1>3, <1>4, BecomesAlone

LEMMA ReadSettingsMoves ==
    ASSUME IntakeTypes, NEW t \in Threads, ReadSettings(t)
    PROVE  \/ /\ Becomes(t, [Goes(t, "write") EXCEPT !.seen = switch[RepoOf(t)],
                                                     !.ver = repos[RepoOf(t)].ver], Mine(t))
              /\ RepoOf(t) \in Repos
           \/ Becomes(t, Goes(t, "create"), Mine(t))
<1>1. threads[t].at # "free" /\ deliveries' = deliveries
  BY DEF ReadSettings
<1>2. RepoOf(t) \in Repos
  BY <1>1, EventTypes
<1>3. switch[RepoOf(t)] \in Switches /\ repos[RepoOf(t)].ver \in Nat
  BY <1>2 DEF IntakeTypes, IntakeTypeOK, DBTypeOK
<1>4. [Goes(t, "write") EXCEPT !.seen = switch[RepoOf(t)], !.ver = repos[RepoOf(t)].ver]
          \in Goroutine
  BY <1>3, GoesTypes DEF Goroutine
<1>5. CASE threads' = [threads EXCEPT ![t].at = "write", ![t].seen = switch[RepoOf(t)],
                                      ![t].ver = repos[RepoOf(t)].ver]
  <2>1. threads' = [threads EXCEPT ![t] = [Goes(t, "write") EXCEPT !.seen = switch[RepoOf(t)],
                                               !.ver = repos[RepoOf(t)].ver]]
    BY <1>5 DEF Goes
  <2> QED
    BY <1>1, <1>2, <1>4, <2>1, BecomesAlone
<1>6. CASE Advance(t, "create")
  BY <1>1, <1>6, BecomesAlone, GoesTypes DEF Goes, Advance
<1> QED
  BY <1>5, <1>6 DEF ReadSettings

LEMMA WriteSettingsMoves ==
    ASSUME IntakeTypes, NEW t \in Threads, WriteSettings(t)
    PROVE  Becomes(t, Goes(t, "create"), Mine(t))
BY BecomesAlone, GoesTypes DEF WriteSettings, Advance, Goes

LEMMA CreateJobMoves ==
    ASSUME IntakeTypes, NEW t \in Threads, NEW j \in JobIds, threads[t].at = "create",
           deliveries' = [deliveries EXCEPT ![threads[t].del].jobs = @ \cup {j}],
           threads' = [threads EXCEPT ![t].at = "readback", ![t].job = j]
    PROVE  Becomes(t, [Goes(t, "readback") EXCEPT !.job = j],
                   [Mine(t) EXCEPT !.jobs = @ \cup {j}])
<1>1. deliveries' = [deliveries EXCEPT ![threads[t].del] = [Mine(t) EXCEPT !.jobs = @ \cup {j}]]
  BY DEF Mine
<1>2. threads' = [threads EXCEPT ![t] = [Goes(t, "readback") EXCEPT !.job = j]]
  BY DEF Goes
<1>3. [Goes(t, "readback") EXCEPT !.job = j] \in Goroutine
  BY GoesTypes, DBAssumption DEF Goroutine, JobIds
<1> QED
  BY <1>1, <1>2, <1>3, MineChanged, BecomesByUpdate

LEMMA FailsMoves ==
    ASSUME IntakeTypes, NEW t \in Threads, InsertFails(t) \/ Undecodable(t)
    PROVE  Becomes(t, Goes(t, "bad"), Mine(t))
BY BecomesAlone, GoesTypes DEF InsertFails, Undecodable, Advance, Goes

LEMMA ReadBackMoves ==
    ASSUME IntakeTypes, NEW t \in Threads, ReadBack(t)
    PROVE  \/ Becomes(t, Goes(t, "ok"), Mine(t)) /\ faults' = faults
           \/ Becomes(t, Goes(t, "bad"), Mine(t)) /\ DBFault
BY BecomesAlone, GoesTypes DEF ReadBack, Advance, Goes

LEMMA PanicMoves ==
    ASSUME IntakeTypes, NEW t \in Threads, threads[t].at = "readback",
           Reply(threads[t].del, "lost"), threads' = [threads EXCEPT ![t] = Nobody]
    PROVE  Becomes(t, Nobody, [Mine(t) EXCEPT !.reply = "lost"])
<1>2. deliveries' = [deliveries EXCEPT ![threads[t].del] = [Mine(t) EXCEPT !.reply = "lost"]]
  BY DEF Reply, Mine
<1> QED
  BY <1>2, MineChanged, NobodyTypes, BecomesByUpdate DEF IntakeTypes

LEMMA FinishMoves ==
    ASSUME IntakeTypes, NEW t \in Threads, Finish(t)
    PROVE  \/ /\ threads[t].http
              /\ topic' = topic
              /\ dups' = dups
              /\ Becomes(t, Nobody, [Mine(t) EXCEPT !.reply =
                                         IF threads[t].at = "ok" THEN "done" ELSE "error"])
           \/ /\ ~ threads[t].http
              /\ Becomes(t, Nobody, Mine(t))
              /\ \/ /\ topic' = IF threads[t].at = "ok" THEN topic \ {threads[t].del} ELSE topic
                    /\ dups' = dups
                 \/ topic' = topic /\ threads[t].at = "ok" /\ dups' = dups + 1
<1>1. threads[t].at # "free" /\ threads' = [threads EXCEPT ![t] = Nobody]
  BY DEF Finish
<1>2. Nobody \in Goroutine
  BY NobodyTypes DEF IntakeTypes
<1>3. CASE threads[t].http
  <2>1. PICK a \in {"done", "error"} :
            /\ a = IF threads[t].at = "ok" THEN "done" ELSE "error"
            /\ Reply(threads[t].del, a)
    BY <1>3 DEF Finish
  <2>2. deliveries' = [deliveries EXCEPT ![threads[t].del] = [Mine(t) EXCEPT !.reply = a]]
    BY <2>1 DEF Reply, Mine
  <2>3. Becomes(t, Nobody, [Mine(t) EXCEPT !.reply = a])
    BY <1>1, <1>2, <2>2, MineChanged, BecomesByUpdate
  <2> QED
    BY <1>3, <2>1, <2>3 DEF Finish
<1>4. CASE ~ threads[t].http
  BY <1>1, <1>2, <1>4, BecomesAlone DEF Finish
<1> QED
  BY <1>3, <1>4
-----------------------------------------------------------------------------
(* The type invariant *)

\* The queries of the intake keep the tables well typed.
LEMMA QueryTypes ==
    ASSUME DBTypeOK, NEW r \in Repos
    PROVE  /\ \A j \in JobIds, trigger \in Triggers, b \in Branches \cup {NoBranch} :
                  CreateJobWithBranch(j, r, trigger, b) => jobs' \in [JobIds -> JobRow]
           /\ UpsertRepoSettings(r) => repos' \in [Repos -> [live : BOOLEAN, ver : Nat]]
<1>1. ASSUME NEW j \in JobIds, NEW trigger \in Triggers, NEW b \in Branches \cup {NoBranch},
             CreateJobWithBranch(j, r, trigger, b)
      PROVE  jobs' \in [JobIds -> JobRow]
  <2>1. Blank("pending") \in JobRow
    BY JobRowTypes DEF Statuses
  <2>2. [Blank("pending") EXCEPT !.repo = r, !.trigger = trigger, !.branch = b] \in JobRow
    BY <2>1 DEF JobRow
  <2> QED
    BY <1>1, <2>2 DEF CreateJobWithBranch, DBTypeOK
<1>2. ASSUME UpsertRepoSettings(r)
      PROVE  repos' \in [Repos -> [live : BOOLEAN, ver : Nat]]
  <2>1. repos[r] \in [live : BOOLEAN, ver : Nat] /\ repos[r].ver + 1 \in Nat
    BY DEF DBTypeOK
  <2>2. [repos[r] EXCEPT !.ver = repos[r].ver + 1] \in [live : BOOLEAN, ver : Nat]
    BY <2>1
  <2>3. repos' = IF repos[r].live
                 THEN [repos EXCEPT ![r] = [repos[r] EXCEPT !.ver = repos[r].ver + 1]]
                 ELSE repos
    BY <1>2 DEF UpsertRepoSettings
  <2> QED
    BY <2>2, <2>3 DEF DBTypeOK
<1> QED
  BY <1>1, <1>2

\* What is left to show once it is known what becomes of a goroutine.
LEMMA BecomesTypes ==
    ASSUME IntakeTypes, NEW t \in Threads, threads[t].at # "free",
           NEW g, NEW e, Becomes(t, g, e),
           g.at # "free" => g.del = threads[t].del,
           DBTypeOK', switch' \in [Repos -> Switches],
           topic' \subseteq topic \cup {threads[t].del},
           dups' \in Nat, resets' \in Nat
    PROVE  IntakeTypes'
<1>1. InHand'
  BY IntakeShapes DEF IntakeTypes, InHand, Becomes
<1>2. topic' \subseteq DOMAIN deliveries'
  BY DEF Becomes, IntakeTypes, IntakeTypeOK, InHand
<1>3. threads' \in [Threads -> Goroutine] /\ deliveries' \in Seq(Delivery)
  BY DEF Becomes
<1> QED
  BY <1>1, <1>2, <1>3 DEF IntakeTypes, IntakeTypeOK, Delivery, Goroutine

\* A failed statement counts.
LEMMA FaultTypes == IntakeTypes /\ DBFault => faults' = faults + 1 /\ faults' \in Nat
BY DEF IntakeTypes, IntakeTypeOK, DBTypeOK, DBFault

\* The death of the server frees all goroutines and keeps the deliveries.
LEMMA DropMoves ==
    ASSUME IntakeTypes, DropThreads
    PROVE  /\ threads' = [t \in Threads |-> Nobody]
           /\ threads' \in [Threads -> Goroutine]
           /\ deliveries' \in Seq(Delivery)
           /\ Len(deliveries') = Len(deliveries)
           /\ DOMAIN deliveries' = DOMAIN deliveries
           /\ \A d \in DOMAIN deliveries :
                  /\ deliveries'[d].event = deliveries[d].event
                  /\ deliveries'[d].jobs = deliveries[d].jobs
                  /\ deliveries'[d].ignored = deliveries[d].ignored
                  /\ deliveries'[d].blind = deliveries[d].blind
                  /\ deliveries'[d].reply =
                         IF deliveries[d].reply = "waiting" THEN "lost" ELSE deliveries[d].reply
<1> DEFINE Dead(d) == [deliveries[d] EXCEPT !.reply = IF @ = "waiting" THEN "lost" ELSE @]
<1>1. Nobody \in Goroutine
  BY NobodyTypes DEF IntakeTypes
<1>2. deliveries' = [d \in 1 .. Len(deliveries) |-> Dead(d)]
  BY IntakeShapes DEF DropThreads
<1>3. \A d \in DOMAIN deliveries :
          /\ Dead(d) \in Delivery
          /\ Dead(d).event = deliveries[d].event
          /\ Dead(d).jobs = deliveries[d].jobs
          /\ Dead(d).ignored = deliveries[d].ignored
          /\ Dead(d).blind = deliveries[d].blind
          /\ Dead(d).reply =
                 IF deliveries[d].reply = "waiting" THEN "lost" ELSE deliveries[d].reply
  <2> SUFFICES ASSUME NEW d \in DOMAIN deliveries
               PROVE  /\ Dead(d) \in Delivery
                      /\ Dead(d).event = deliveries[d].event
                      /\ Dead(d).jobs = deliveries[d].jobs
                      /\ Dead(d).ignored = deliveries[d].ignored
                      /\ Dead(d).blind = deliveries[d].blind
                      /\ Dead(d).reply =
                             IF deliveries[d].reply = "waiting" THEN "lost" ELSE deliveries[d].reply
    OBVIOUS
  <2>1. deliveries[d] \in Delivery
    BY IntakeShapes
  <2> QED
    BY <2>1 DEF Delivery
<1> HIDE DEF Dead
<1>4. deliveries' \in [1 .. Len(deliveries) -> Delivery]
  BY <1>2, <1>3, IntakeShapes
<1>5. deliveries' \in Seq(Delivery)
  BY <1>4, IntakeShapes, SeqDef
<1>6. DOMAIN deliveries' = DOMAIN deliveries
  BY <1>2, IntakeShapes
<1>7. Len(deliveries') = Len(deliveries)
  BY <1>5, <1>6, IntakeShapes, LenProperties
<1> QED
  BY <1>1, <1>2, <1>3, <1>5, <1>6, <1>7, IntakeShapes DEF DropThreads
LEMMA DropTypes ==
    ASSUME IntakeTypes, DropThreads, DBTypeOK'
    PROVE  IntakeTypes'
<1>1. InHand'
  BY DropMoves, IntakeShapes DEF Nobody, IntakeTypes, InHand
<1>2. topic' \subseteq DOMAIN deliveries'
  BY DropMoves DEF DropThreads, IntakeTypes, IntakeTypeOK
<1>3. threads' \in [Threads -> Goroutine] /\ deliveries' \in Seq(Delivery)
  BY DropMoves
<1>4. switch' \in [Repos -> Switches] /\ {dups, resets}' \subseteq Nat
  BY DEF DropThreads, IntakeTypes, IntakeTypeOK
<1> QED
  BY <1>1, <1>2, <1>3, <1>4 DEF IntakeTypes, IntakeTypeOK, Delivery, Goroutine

\* Every step of a goroutine keeps the types: one step of the proof per action.
LEMMA IntakeStepTypes ==
    ASSUME IntakeTypes, NEW t \in Threads, IntakeStep(t)
    PROVE  IntakeTypes'
<1>0. /\ DBTypeOK
      /\ switch \in [Repos -> Switches]
      /\ dups \in Nat
      /\ resets \in Nat
      /\ dups + 1 \in Nat
      /\ crashes + 1 \in Nat
      /\ Nobody.at = "free"
  BY DEF IntakeTypes, IntakeTypeOK, DBTypeOK, Nobody
<1>1. CASE Publish(t)
  <2>1. DBTypeOK'
    BY <1>0, <1>1 DEF Publish, dbVars, budgetVars, DBTypeOK
  <2> QED
    BY <1>0, <1>1, <2>1, PublishMoves, BecomesTypes DEF Publish
<1>2. CASE PublishFails(t)
  <2>1. DBTypeOK'
    BY <1>0, <1>2 DEF PublishFails, dbVars, budgetVars, DBTypeOK
  <2> QED
    BY <1>0, <1>2, <2>1, PublishFailsMoves, BecomesTypes, GoesTypes DEF PublishFails
<1>3. CASE Ignore(t)
  <2>1. DBTypeOK'
    BY <1>0, <1>3 DEF Ignore, dbVars, budgetVars, DBTypeOK
  <2> QED
    BY <1>0, <1>3, <2>1, IgnoreMoves, BecomesTypes, GoesTypes DEF Ignore
<1>4. CASE LookupFails(t)
  <2>1. DBTypeOK'
    BY <1>0, <1>4, FaultTypes DEF LookupFails, dbVars, DBTypeOK
  <2> QED
    BY <1>0, <1>4, <2>1, LookupFailsMoves, BecomesTypes, GoesTypes DEF LookupFails
<1>5. CASE AcceptPush(t) \/ AcceptComment(t)
  <2>1. DBTypeOK'
    BY <1>0, <1>5, FaultTypes DEF AcceptPush, AcceptComment, dbVars, budgetVars, DBTypeOK
  <2>2. PICK step \in {"read", "create"}, b \in Branches :
            Becomes(t, [Goes(t, step) EXCEPT !.branch = b], Mine(t))
    BY <1>5, AcceptMoves
  <2>3. [Goes(t, step) EXCEPT !.branch = b].del = threads[t].del
    BY GoesTypes DEF Goroutine
  <2>4. /\ threads[t].at # "free"
        /\ UNCHANGED <<switch, topic, dups, resets>>
    BY <1>5 DEF AcceptPush, AcceptComment
  <2> QED
    BY <1>0, <2>1, <2>2, <2>3, <2>4, BecomesTypes
<1>6. CASE ReadSettings(t)
  <2>1. DBTypeOK'
    BY <1>0, <1>6, FaultTypes DEF ReadSettings, dbVars, DBTypeOK
  <2>2. PICK g : Becomes(t, g, Mine(t)) /\ g.del = threads[t].del
    <3> DEFINE W == [Goes(t, "write") EXCEPT !.seen = switch[RepoOf(t)],
                                             !.ver = repos[RepoOf(t)].ver]
    <3>1. W.del = threads[t].del /\ Goes(t, "create").del = threads[t].del
      BY GoesTypes DEF Goroutine
    <3>2. Becomes(t, W, Mine(t)) \/ Becomes(t, Goes(t, "create"), Mine(t))
      BY <1>6, ReadSettingsMoves
    <3> QED
      BY <3>1, <3>2
  <2>3. /\ threads[t].at # "free"
        /\ UNCHANGED <<switch, topic, dups, resets>>
    BY <1>6 DEF ReadSettings
  <2> QED
    BY <1>0, <2>1, <2>2, <2>3, BecomesTypes
<1>7. CASE WriteSettings(t)
  <2>1. RepoOf(t) \in Repos /\ threads[t] \in Goroutine
    BY <1>7, EventTypes, MineChanged DEF WriteSettings
  <2>2. repos' \in [Repos -> [live : BOOLEAN, ver : Nat]] /\ faults' \in Nat
    BY <1>0, <1>7, <2>1, FaultTypes, QueryTypes DEF WriteSettings, DBTypeOK
  <2>3. DBTypeOK'
    BY <1>0, <1>7, <2>2 DEF WriteSettings, DBTypeOK
  <2>4. threads[t].seen \in Switches
    BY <2>1 DEF Goroutine
  <2>5. switch' \in [Repos -> Switches]
    BY <1>0, <1>7, <2>4 DEF WriteSettings
  <2> QED
    BY <1>0, <1>7, <2>3, <2>5, WriteSettingsMoves, BecomesTypes, GoesTypes DEF WriteSettings
<1>8. CASE CreateJob(t)
  <2>1. PICK j \in JobIds :
           /\ CreateJobWithBranch(j, RepoOf(t), TriggerOf(EventOf(t)), threads[t].branch)
           /\ Becomes(t, [Goes(t, "readback") EXCEPT !.job = j],
                      [Mine(t) EXCEPT !.jobs = @ \cup {j}])
    BY <1>8, CreateJobMoves DEF CreateJob
  <2>2. /\ RepoOf(t) \in Repos
        /\ threads[t].branch \in Branches \cup {NoBranch}
        /\ TriggerOf(EventOf(t)) \in Triggers
        /\ threads[t].at # "free"
    BY <1>8, EventTypes, MineChanged DEF CreateJob, Goroutine, TriggerOf, Triggers
  <2>3. jobs' \in [JobIds -> JobRow]
    BY <1>0, <2>1, <2>2, QueryTypes
  <2>4. DBTypeOK'
    BY <1>0, <1>8, <2>3 DEF CreateJob, budgetVars, DBTypeOK
  <2>5. [Goes(t, "readback") EXCEPT !.job = j].del = threads[t].del
    BY GoesTypes DEF Goroutine
  <2> QED
    BY <1>0, <1>8, <2>1, <2>2, <2>4, <2>5, BecomesTypes DEF CreateJob
<1>9. CASE InsertFails(t) \/ Undecodable(t)
  <2>1. DBTypeOK'
    BY <1>0, <1>9, FaultTypes DEF InsertFails, Undecodable, budgetVars, dbVars, DBTypeOK
  <2> QED
    BY <1>0, <1>9, <2>1, FailsMoves, BecomesTypes, GoesTypes DEF InsertFails, Undecodable
<1>10. CASE ReadBack(t)
  <2>1. DBTypeOK'
    BY <1>0, <1>10, FaultTypes DEF ReadBack, dbVars, DBTypeOK
  <2> QED
    BY <1>0, <1>10, <2>1, ReadBackMoves, BecomesTypes, GoesTypes DEF ReadBack
<1>11. CASE ReadBackPanics(t)
  <2>1. DBTypeOK'
    BY <1>0, <1>11 DEF ReadBackPanics, dbVars, DBTypeOK
  <2>2. CASE DropThreads
    BY <2>1, <2>2, DropTypes
  <2>3. CASE ~ DropThreads
    BY <1>0, <1>11, <2>1, <2>3, PanicMoves, BecomesTypes DEF ReadBackPanics
  <2> QED
    BY <2>2, <2>3
<1>12. CASE Finish(t)
  <2>1. DBTypeOK'
    BY <1>0, <1>12 DEF Finish, dbVars, budgetVars, DBTypeOK
  <2>2. PICK e : Becomes(t, Nobody, e)
    BY <1>12, FinishMoves
  <2>3. topic' \subseteq topic \cup {threads[t].del} /\ dups' \in Nat
    BY <1>0, <1>12, FinishMoves
  <2> QED
    BY <1>0, <1>12, <2>1, <2>2, <2>3, BecomesTypes DEF Finish
<1> QED
  BY <1>1, <1>2, <1>3, <1>4, <1>5, <1>6, <1>7, <1>8, <1>9, <1>10, <1>11, <1>12
  DEF IntakeStep, Process
\* A goroutine that takes a delivery in hand is a goroutine.
LEMMA TakesTypes ==
    ASSUME NEW g \in Goroutine, NEW n \in 1 .. MaxDeliveries, NEW b \in BOOLEAN,
           NEW step \in {"publish", "lookup"}
    PROVE  LET h == [g EXCEPT !.at = step, !.del = n, !.http = b]
               k == [g EXCEPT !.at = step, !.del = n] IN
           /\ h \in Goroutine /\ h.at = step /\ h.del = n /\ h.http = b
           /\ k \in Goroutine /\ k.at = step /\ k.del = n /\ k.http = g.http
<1>1. n \in 0 .. MaxDeliveries
  BY IntakeAssumption
<1> QED
  BY <1>1 DEF Goroutine

\* A delivery comes in at the end of the sequence.
LEMMA ReceiveMoves ==
    ASSUME IntakeTypes, NEW t \in Threads, NEW e \in Events, Receive(t, e)
    PROVE  LET n == Len(deliveries) + 1 IN
           /\ n \in 1 .. MaxDeliveries
           /\ n \notin DOMAIN deliveries
           /\ deliveries' \in Seq(Delivery)
           /\ Len(deliveries') = n
           /\ DOMAIN deliveries' = DOMAIN deliveries \cup {n}
           /\ deliveries'[n] = [event |-> e, jobs |-> {}, ignored |-> FALSE,
                                blind |-> FALSE, reply |-> "waiting"]
           /\ \A d \in DOMAIN deliveries : deliveries'[d] = deliveries[d]
           /\ threads' \in [Threads -> Goroutine]
           /\ threads'[t].at \in {"publish", "lookup"}
           /\ threads'[t].del = n
           /\ threads'[t].http
           /\ \A u \in Threads : u # t => threads'[u] = threads[u]
<1> DEFINE n == Len(deliveries) + 1
           new == [event |-> e, jobs |-> {}, ignored |-> FALSE, blind |-> FALSE,
                   reply |-> "waiting"]
<1>1. new \in Delivery
  BY DEF Delivery
<1>2. /\ deliveries' = Append(deliveries, new)
      /\ n \in 1 .. MaxDeliveries
  BY IntakeShapes DEF Receive
<1>3. /\ deliveries' \in Seq(Delivery)
      /\ Len(deliveries') = n
      /\ deliveries'[n] = new
      /\ \A d \in 1 .. Len(deliveries) : deliveries'[d] = deliveries[d]
  BY <1>1, <1>2, IntakeShapes, AppendProperties
<1>4. DOMAIN deliveries' = DOMAIN deliveries \cup {n}
  BY <1>3, IntakeShapes, LenProperties
<1>5. PICK step \in {"publish", "lookup"} :
          threads' = [threads EXCEPT ![t].at = step, ![t].del = n, ![t].http = TRUE]
  BY DEF Receive
<1>6. threads[t] \in Goroutine
  BY IntakeShapes
<1>7. [threads[t] EXCEPT !.at = step, !.del = n, !.http = TRUE] \in Goroutine
  BY <1>2, <1>6, TakesTypes
<1>8. threads' = [threads EXCEPT ![t] = [threads[t] EXCEPT !.at = step, !.del = n, !.http = TRUE]]
  BY <1>5
<1>9. /\ threads' \in [Threads -> Goroutine]
      /\ threads'[t] = [threads[t] EXCEPT !.at = step, !.del = n, !.http = TRUE]
      /\ \A u \in Threads : u # t => threads'[u] = threads[u]
  BY <1>7, <1>8, IntakeShapes
<1>10. threads'[t].at = step /\ threads'[t].del = n /\ threads'[t].http
  BY <1>6, <1>9 DEF Goroutine
<1> QED
  BY <1>2, <1>3, <1>4, <1>9, <1>10, IntakeShapes

\* A message is handed to a goroutine.
LEMMA PullMoves ==
    ASSUME IntakeTypes, NEW t \in Threads, NEW d \in topic, Pull(t, d)
    PROVE  /\ d \in DOMAIN deliveries
           /\ threads' \in [Threads -> Goroutine]
           /\ threads'[t].at = "lookup"
           /\ threads'[t].del = d
           /\ ~ threads'[t].http
           /\ \A u \in Threads : u # t => threads'[u] = threads[u]
<1>1. d \in DOMAIN deliveries /\ d \in 1 .. MaxDeliveries
  BY IntakeShapes DEF IntakeTypes, IntakeTypeOK
<1>2. threads[t] = Nobody /\ Nobody \in Goroutine /\ ~ Nobody.http
  BY NobodyTypes DEF IntakeTypes, Pull, Nobody
<1>3. [threads[t] EXCEPT !.at = "lookup", !.del = d] \in Goroutine
  BY <1>1, <1>2, TakesTypes
<1>4. threads' = [threads EXCEPT ![t] = [threads[t] EXCEPT !.at = "lookup", !.del = d]]
  BY DEF Pull
<1>5. /\ threads' \in [Threads -> Goroutine]
      /\ threads'[t] = [threads[t] EXCEPT !.at = "lookup", !.del = d]
      /\ \A u \in Threads : u # t => threads'[u] = threads[u]
  BY <1>3, <1>4, IntakeShapes
<1>6. /\ threads'[t].at = "lookup"
      /\ threads'[t].del = d
      /\ threads'[t].http = threads[t].http
  BY <1>2, <1>5 DEF Goroutine
<1> QED
  BY <1>1, <1>2, <1>5, <1>6

\* So do deliveries that come in, users and the death of the server.
LEMMA ReceiveTypes ==
    ASSUME IntakeTypes, NEW t \in Threads, NEW e \in Events, Receive(t, e)
    PROVE  IntakeTypes'
<1>1. DBTypeOK' /\ switch' \in [Repos -> Switches] /\ {dups, resets}' \subseteq Nat
  BY DEF Receive, IntakeTypes, IntakeTypeOK, DBTypeOK, dbVars, budgetVars
<1>2. topic' \subseteq DOMAIN deliveries'
  BY ReceiveMoves DEF Receive, IntakeTypes, IntakeTypeOK
<1>3. InHand'
  <2>1. Len(deliveries') <= MaxDeliveries
    <3>1. Len(deliveries') = Len(deliveries) + 1 /\ Len(deliveries) + 1 \in 1 .. MaxDeliveries
      BY ReceiveMoves
    <3> QED
      BY <3>1, IntakeShapes
  <2>2. threads'[t].del \in DOMAIN deliveries'
    BY ReceiveMoves
  <2>3. \A u \in Threads : u # t /\ threads'[u].at # "free" => threads'[u].del \in DOMAIN deliveries'
    BY ReceiveMoves DEF IntakeTypes, InHand
  <2> QED
    BY <2>1, <2>2, <2>3 DEF InHand
<1> QED
  BY <1>1, <1>2, <1>3, ReceiveMoves DEF IntakeTypes, IntakeTypeOK, Delivery, Goroutine

LEMMA PullTypes ==
    ASSUME IntakeTypes, NEW t \in Threads, NEW d \in topic, Pull(t, d)
    PROVE  IntakeTypes'
<1>1. DBTypeOK' /\ switch' \in [Repos -> Switches] /\ {dups, resets}' \subseteq Nat
  BY DEF Pull, IntakeTypes, IntakeTypeOK, DBTypeOK, dbVars, budgetVars
<1>2. topic' \subseteq DOMAIN deliveries' /\ deliveries' = deliveries
  BY DEF Pull, IntakeTypes, IntakeTypeOK
<1>3. InHand'
  BY <1>2, PullMoves DEF IntakeTypes, InHand
<1> QED
  BY <1>1, <1>2, <1>3, PullMoves, IntakeShapes DEF IntakeTypes, IntakeTypeOK, Delivery, Goroutine

LEMMA UsersTypes ==
    ASSUME IntakeTypes, NEW r \in Repos, SaveSwitches(r) \/ PurgeRepo(r)
    PROVE  IntakeTypes'
<1>0. DBTypeOK /\ switch \in [Repos -> Switches]
  BY DEF IntakeTypes, IntakeTypeOK
<1>1. CASE SaveSwitches(r)
  <2>1. DBTypeOK'
    BY <1>0, <1>1, QueryTypes DEF SaveSwitches, budgetVars, DBTypeOK
  <2>2. switch' \in [Repos -> Switches]
    BY <1>0, <1>1 DEF SaveSwitches
  <2> QED
    BY <1>1, <2>1, <2>2 DEF SaveSwitches, IntakeTypes, IntakeTypeOK, InHand
<1>2. CASE PurgeRepo(r)
  <2>1. PurgeRows(r) /\ (UNCHANGED repos \/ repos' = [repos EXCEPT ![r] = [live |-> FALSE, ver |-> 0]])
    BY <1>2 DEF PurgeRepo, ResetRepoData, DeleteRepo
  <2>2. repos' \in [Repos -> [live : BOOLEAN, ver : Nat]]
    <3>1. [live |-> FALSE, ver |-> 0] \in [live : BOOLEAN, ver : Nat]
      OBVIOUS
    <3> QED
      BY <1>0, <2>1, <3>1 DEF DBTypeOK
  <2>3. DBTypeOK'
    BY <1>0, <1>2, <2>1, <2>2, PurgeTypes DEF PurgeRepo, budgetVars, DBTypeOK
  <2>4. resets' \in Nat
    BY <1>2 DEF PurgeRepo, IntakeTypes, IntakeTypeOK
  <2> QED
    BY <1>2, <2>3, <2>4 DEF PurgeRepo, IntakeTypes, IntakeTypeOK, InHand
<1> QED
  BY <1>1, <1>2

intakeAll == <<dbVars, budgetVars, intakeVars>>

LEMMA IntakeNextTypes == IntakeTypes /\ [IntakeNext]_intakeAll => IntakeTypes'
<1> SUFFICES ASSUME IntakeTypes, [IntakeNext]_intakeAll PROVE IntakeTypes'
  OBVIOUS
<1>1. CASE IntakeCrash
  <2>1. DBTypeOK'
    BY <1>1 DEF IntakeCrash, IntakeTypes, IntakeTypeOK, DBTypeOK, dbVars
  <2> QED
    BY <1>1, <2>1, DropTypes DEF IntakeCrash
<1>2. CASE UNCHANGED intakeAll
  BY <1>2 DEF intakeAll, intakeVars, dbVars, budgetVars, IntakeTypes, IntakeTypeOK, DBTypeOK, InHand
<1> QED
  BY <1>1, <1>2, IntakeStepTypes, ReceiveTypes, PullTypes, UsersTypes DEF IntakeNext

LEMMA IntakeInitTypes == IntakeInit => IntakeTypes
<1> SUFFICES ASSUME IntakeInit PROVE IntakeTypes
  OBVIOUS
<1>1. jobs \in [JobIds -> JobRow]
  BY JobRowTypes DEF IntakeInit, DBInit, Statuses
<1>2. DBTypeOK
  BY <1>1 DEF IntakeInit, DBInit, DBTypeOK, Cells
<1>3. deliveries \in Seq(Delivery) /\ Len(deliveries) = 0 /\ DOMAIN deliveries = {}
  BY EmptySeq, LenProperties DEF IntakeInit
<1>4. PICK r \in Repos : TRUE
  BY DBAssumption
<1>5. switch[r] \in Switches
  BY <1>4 DEF IntakeInit
<1>6. (CHOOSE s \in Switches : TRUE) \in Switches
  BY <1>5
<1>7. Nobody \in Goroutine /\ Nobody.at = "free"
  BY <1>6, DBAssumption, IntakeAssumption DEF Nobody, Goroutine
<1>8. InHand
  BY <1>3, <1>7, IntakeAssumption DEF IntakeInit, InHand
<1>9. threads \in [Threads -> Goroutine]
  BY <1>7 DEF IntakeInit
<1> QED
  BY <1>2, <1>3, <1>8, <1>9 DEF IntakeInit, IntakeTypes, IntakeTypeOK, Delivery, Goroutine

\* The intake's state is always well typed: a busy goroutine has one of the
\* deliveries in hand, and the topic holds only deliveries of GitHub.
LEMMA IntakeTypeCorrect == IntakeSpec => []IntakeTypes
BY IntakeInitTypes, IntakeNextTypes, PTL DEF IntakeSpec, intakeAll
-----------------------------------------------------------------------------
(* What one step does. *)

\* In sum: the server dies, or one goroutine moves, and its delivery keeps its
\* event and its jobs.
LEMMA StepBecomes ==
    ASSUME IntakeTypes, NEW t \in Threads, IntakeStep(t)
    PROVE  \/ DropThreads
           \/ /\ threads[t].at # "free"
              /\ \E g, e : /\ Becomes(t, g, e)
                           /\ e.event = Mine(t).event
                           /\ Mine(t).jobs \subseteq e.jobs
<1>1. CASE ReadBackPanics(t)
  <2>1. CASE DropThreads
    BY <2>1
  <2>2. CASE ~ DropThreads
    <3>1. threads[t].at # "free" /\ Becomes(t, Nobody, [Mine(t) EXCEPT !.reply = "lost"])
      BY <1>1, <2>2, PanicMoves DEF ReadBackPanics
    <3>2. Mine(t) \in Delivery
      BY <3>1, MineChanged
    <3>3. /\ [Mine(t) EXCEPT !.reply = "lost"].event = Mine(t).event
          /\ [Mine(t) EXCEPT !.reply = "lost"].jobs = Mine(t).jobs
      BY <3>2 DEF Delivery
    <3> QED
      BY <3>1, <3>3
  <2> QED
    BY <2>1, <2>2
<1>2. CASE ~ ReadBackPanics(t)
  <2>1. threads[t].at # "free"
    BY <1>2 DEF IntakeStep, Process, Publish, PublishFails, Ignore, LookupFails, AcceptPush,
       AcceptComment, ReadSettings, WriteSettings, CreateJob, InsertFails, Undecodable, ReadBack, Finish
  <2>2. Mine(t) \in Delivery
    BY <2>1, MineChanged
  <2>3. CASE CreateJob(t)
    <3>1. PICK j \in JobIds : Becomes(t, [Goes(t, "readback") EXCEPT !.job = j],
                                      [Mine(t) EXCEPT !.jobs = @ \cup {j}])
      BY <2>3, CreateJobMoves DEF CreateJob
    <3>2. /\ [Mine(t) EXCEPT !.jobs = @ \cup {j}].event = Mine(t).event
          /\ [Mine(t) EXCEPT !.jobs = @ \cup {j}].jobs = Mine(t).jobs \cup {j}
      BY <2>2 DEF Delivery
    <3> QED
      BY <2>1, <3>1, <3>2
  <2>4. CASE ~ CreateJob(t)
    <3>1. \/ \E g : Becomes(t, g, Mine(t))
          \/ \E g : Becomes(t, g, [Mine(t) EXCEPT !.ignored = TRUE])
          \/ \E g : Becomes(t, g, [Mine(t) EXCEPT !.blind = TRUE])
          \/ \E g : \E a \in {"queued", "done", "error"} :
                 Becomes(t, g, [Mine(t) EXCEPT !.reply = a])
      <4>1. CASE Publish(t) \/ PublishFails(t) \/ Ignore(t) \/ LookupFails(t)
        BY <4>1, PublishMoves, PublishFailsMoves, IgnoreMoves, LookupFailsMoves
      <4>2. CASE WriteSettings(t) \/ InsertFails(t) \/ Undecodable(t) \/ ReadBack(t)
        BY <4>2, WriteSettingsMoves, FailsMoves, ReadBackMoves
      <4>3. CASE ReadSettings(t)
        BY <4>3, ReadSettingsMoves
      <4>4. CASE AcceptPush(t) \/ AcceptComment(t)
        BY <4>4, AcceptMoves
      <4>5. CASE Finish(t)
        BY <4>5, FinishMoves
      <4> QED
        BY <1>2, <2>4, <4>1, <4>2, <4>3, <4>4, <4>5 DEF IntakeStep, Process
    <3>2. /\ [Mine(t) EXCEPT !.ignored = TRUE].event = Mine(t).event
          /\ [Mine(t) EXCEPT !.ignored = TRUE].jobs = Mine(t).jobs
          /\ [Mine(t) EXCEPT !.blind = TRUE].event = Mine(t).event
          /\ [Mine(t) EXCEPT !.blind = TRUE].jobs = Mine(t).jobs
          /\ \A a \in {"queued", "done", "error"} :
                 /\ [Mine(t) EXCEPT !.reply = a].event = Mine(t).event
                 /\ [Mine(t) EXCEPT !.reply = a].jobs = Mine(t).jobs
      BY <2>2 DEF Delivery
    <3> QED
      BY <2>1, <3>1, <3>2
  <2> QED
    BY <2>3, <2>4
<1> QED
  BY <1>1, <1>2

\* No delivery is forgotten, and none becomes another.
LEMMA DeliveriesKept ==
    ASSUME IntakeTypes, [IntakeNext]_intakeAll, NEW d \in DOMAIN deliveries
    PROVE  /\ d \in DOMAIN deliveries'
           /\ deliveries'[d].event = deliveries[d].event
           /\ deliveries[d].jobs \subseteq deliveries'[d].jobs
<1>1. CASE UNCHANGED deliveries
  BY <1>1
<1>2. CASE DropThreads
  BY <1>2, DropMoves
<1>3. ASSUME NEW t \in Threads, IntakeStep(t), ~ DropThreads
      PROVE  /\ d \in DOMAIN deliveries'
             /\ deliveries'[d].event = deliveries[d].event
             /\ deliveries[d].jobs \subseteq deliveries'[d].jobs
  BY <1>3, StepBecomes DEF Becomes, Mine
<1>4. ASSUME NEW t \in Threads, NEW e \in Events, Receive(t, e)
      PROVE  /\ d \in DOMAIN deliveries'
             /\ deliveries'[d].event = deliveries[d].event
             /\ deliveries[d].jobs \subseteq deliveries'[d].jobs
  BY <1>4, ReceiveMoves
<1>5. CASE \/ IntakeCrash \/ UNCHANGED intakeAll
           \/ \E t \in Threads, i \in topic : Pull(t, i)
           \/ \E r \in Repos : SaveSwitches(r) \/ PurgeRepo(r)
  BY <1>1, <1>2, <1>5 DEF IntakeCrash, Pull, SaveSwitches, PurgeRepo, intakeAll, intakeVars
<1> QED
  BY <1>2, <1>3, <1>4, <1>5 DEF IntakeNext

-----------------------------------------------------------------------------
(* No delivery is dropped silently.  The invariant is not inductive by itself: *)
(* a goroutine that is about to answer or to ack must have something to show.  *)

Handled(e) == e.jobs # {} \/ e.ignored \/ e.blind

LookedAt == \A t \in Threads : threads[t].at \in {"ok", "readback"} => Handled(Mine(t))

DropInv == LookedAt /\ NoSilentDrop

\* What a step of a goroutine owes to keep DropInv.
LEMMA BecomesKeepsDrop ==
    ASSUME IntakeTypes, DropInv, NEW t \in Threads, threads[t].at # "free",
           NEW g, NEW e, Becomes(t, g, e),
           Handled(Mine(t)) => Handled(e),
           g.at \in {"ok", "readback"} => g.del = threads[t].del /\ Handled(e),
           topic \ {threads[t].del} \subseteq topic',
           e.reply \in {"queued", "done"} => threads[t].del \in topic' \/ Handled(e)
    PROVE  DropInv'
<1> DEFINE d == threads[t].del
<1>0. d \in DOMAIN deliveries /\ DOMAIN deliveries' = DOMAIN deliveries
  BY MineChanged DEF Becomes
<1>1. \A i \in DOMAIN deliveries : deliveries'[i] = IF i = d THEN e ELSE deliveries[i]
  BY <1>0 DEF Becomes
<1>2. \A i \in DOMAIN deliveries : Handled(deliveries[i]) => Handled(deliveries'[i])
  BY <1>1 DEF Mine
<1>3. ASSUME NEW u \in Threads, threads'[u].at \in {"ok", "readback"}
      PROVE  Handled(deliveries'[threads'[u].del])
  <2>1. CASE u = t
    BY <1>0, <1>1, <1>3, <2>1 DEF Becomes
  <2>2. CASE u # t
    <3>1. threads'[u] = threads[u]
      BY <2>2 DEF Becomes
    <3>2. Handled(deliveries[threads[u].del]) /\ threads[u].del \in DOMAIN deliveries
      BY <1>3, <3>1 DEF DropInv, LookedAt, Mine, IntakeTypes, InHand
    <3> QED
      BY <1>2, <3>1, <3>2
  <2> QED
    BY <2>1, <2>2
<1>4. ASSUME NEW i \in DOMAIN deliveries, deliveries'[i].reply \in {"queued", "done"}
      PROVE  i \in topic' \/ Handled(deliveries'[i])
  <2>1. CASE i = d
    BY <1>1, <1>4, <2>1
  <2>2. CASE i # d
    BY <1>1, <1>4, <2>2 DEF DropInv, NoSilentDrop, Handled
  <2> QED
    BY <2>1, <2>2
<1>5. LookedAt'
  BY <1>3 DEF LookedAt, Mine
<1>6. NoSilentDrop'
  BY <1>0, <1>4 DEF NoSilentDrop, Handled
<1> QED
  BY <1>5, <1>6 DEF DropInv

LEMMA DropKeepsDrop ==
    ASSUME IntakeTypes, DropInv, DropThreads
    PROVE  DropInv'
<1>1. LookedAt'
  BY DropMoves DEF Nobody, LookedAt
<1>2. NoSilentDrop'
  BY DropMoves DEF DropThreads, DropInv, NoSilentDrop
<1> QED
  BY <1>1, <1>2 DEF DropInv

LEMMA IntakeStepDrops ==
    ASSUME IntakeTypes, DropInv, NEW t \in Threads, IntakeStep(t)
    PROVE  DropInv'
<1> DEFINE d == threads[t].del
<1>0. /\ threads[t].at # "free" => Mine(t) \in Delivery /\ d \in DOMAIN deliveries
      /\ Nobody.at = "free"
  BY MineChanged DEF Nobody
<1>1. threads[t].at # "free" /\ Mine(t).reply \in {"queued", "done"} => d \in topic \/ Handled(Mine(t))
  BY <1>0 DEF DropInv, NoSilentDrop, Mine, Handled
<1>2. CASE Publish(t)
  <2>1. Handled(Mine(t)) => Handled([Mine(t) EXCEPT !.reply = "queued"])
    BY <1>0, <1>2 DEF Publish, Handled, Delivery
  <2> QED
    BY <1>0, <1>2, <2>1, PublishMoves, BecomesKeepsDrop DEF Publish
<1>3. CASE PublishFails(t)
  BY <1>0, <1>1, <1>3, PublishFailsMoves, GoesTypes, BecomesKeepsDrop DEF PublishFails
<1>4. CASE Ignore(t)
  <2>1. Handled([Mine(t) EXCEPT !.ignored = TRUE])
    BY <1>0, <1>4 DEF Ignore, Handled, Delivery
  <2> QED
    BY <1>4, <2>1, IgnoreMoves, GoesTypes, BecomesKeepsDrop DEF Ignore
<1>5. CASE LookupFails(t)
  <2>1. Handled([Mine(t) EXCEPT !.blind = TRUE])
    BY <1>0, <1>5 DEF LookupFails, Handled, Delivery
  <2> QED
    BY <1>5, <2>1, LookupFailsMoves, GoesTypes, BecomesKeepsDrop DEF LookupFails
<1>6. CASE AcceptPush(t) \/ AcceptComment(t)
  <2>1. PICK step \in {"read", "create"}, b \in Branches :
            Becomes(t, [Goes(t, step) EXCEPT !.branch = b], Mine(t))
    BY <1>6, AcceptMoves
  <2>2. [Goes(t, step) EXCEPT !.branch = b].at = step
    BY GoesTypes DEF Goroutine
  <2>3. threads[t].at # "free" /\ topic' = topic
    BY <1>6 DEF AcceptPush, AcceptComment
  <2> QED
    BY <1>1, <2>1, <2>2, <2>3, BecomesKeepsDrop
<1>7. CASE ReadSettings(t)
  <2> DEFINE W == [Goes(t, "write") EXCEPT !.seen = switch[RepoOf(t)],
                                           !.ver = repos[RepoOf(t)].ver]
  <2>1. W.at = "write" /\ Goes(t, "create").at = "create"
    BY GoesTypes DEF Goroutine
  <2>2. Becomes(t, W, Mine(t)) \/ Becomes(t, Goes(t, "create"), Mine(t))
    BY <1>7, ReadSettingsMoves
  <2>3. threads[t].at # "free" /\ topic' = topic
    BY <1>7 DEF ReadSettings
  <2> QED
    BY <1>1, <2>1, <2>2, <2>3, BecomesKeepsDrop
<1>8. CASE WriteSettings(t)
  BY <1>1, <1>8, WriteSettingsMoves, GoesTypes, BecomesKeepsDrop DEF WriteSettings
<1>9. CASE CreateJob(t)
  <2>1. PICK j \in JobIds :
           Becomes(t, [Goes(t, "readback") EXCEPT !.job = j],
                   [Mine(t) EXCEPT !.jobs = @ \cup {j}])
    BY <1>9, CreateJobMoves DEF CreateJob
  <2>2. Handled([Mine(t) EXCEPT !.jobs = @ \cup {j}])
    BY <1>0, <1>9 DEF CreateJob, Handled, Delivery
  <2>3. [Goes(t, "readback") EXCEPT !.job = j].del = threads[t].del
    BY GoesTypes DEF Goroutine
  <2> QED
    BY <1>9, <2>1, <2>2, <2>3, BecomesKeepsDrop DEF CreateJob
<1>10. CASE InsertFails(t) \/ Undecodable(t)
  BY <1>1, <1>10, FailsMoves, GoesTypes, BecomesKeepsDrop DEF InsertFails, Undecodable
<1>11. CASE ReadBack(t)
  <2>1. Handled(Mine(t))
    BY <1>11 DEF ReadBack, DropInv, LookedAt
  <2> QED
    BY <1>11, <2>1, ReadBackMoves, GoesTypes, BecomesKeepsDrop DEF ReadBack
<1>12. CASE ReadBackPanics(t)
  <2>1. CASE DropThreads
    BY <2>1, DropKeepsDrop
  <2>2. CASE ~ DropThreads
    <3>1. Handled(Mine(t)) /\ Mine(t) \in Delivery
      BY <1>0, <1>12 DEF ReadBackPanics, DropInv, LookedAt
    <3>2. Handled([Mine(t) EXCEPT !.reply = "lost"])
      BY <3>1 DEF Handled, Delivery
    <3> QED
      BY <1>0, <1>12, <2>2, <3>2, PanicMoves, BecomesKeepsDrop DEF ReadBackPanics
  <2> QED
    BY <2>1, <2>2
<1>13. CASE Finish(t)
  <2>0. threads[t].at \in {"ok", "bad"} /\ Mine(t) \in Delivery
    BY <1>0, <1>13 DEF Finish
  <2>1. threads[t].at = "ok" => Handled(Mine(t))
    BY DEF DropInv, LookedAt
  <2>2. CASE threads[t].http
    <3>1. PICK a \in {"done", "error"} :
              /\ a = "done" => threads[t].at = "ok"
              /\ Becomes(t, Nobody, [Mine(t) EXCEPT !.reply = a])
              /\ topic' = topic
      BY <1>13, <2>2, FinishMoves
    <3>2. /\ Handled(Mine(t)) => Handled([Mine(t) EXCEPT !.reply = a])
          /\ [Mine(t) EXCEPT !.reply = a].reply = a
      BY <2>0 DEF Handled, Delivery
    <3> QED
      BY <1>0, <2>0, <2>1, <3>1, <3>2, BecomesKeepsDrop
  <2>3. CASE ~ threads[t].http
    <3>1. /\ Becomes(t, Nobody, Mine(t))
          /\ topic \ {d} \subseteq topic'
          /\ threads[t].at # "ok" => topic' = topic
      BY <1>13, <2>3, FinishMoves
    <3> QED
      BY <1>0, <1>1, <2>0, <2>1, <3>1, BecomesKeepsDrop
  <2> QED
    BY <2>2, <2>3
<1> QED
  BY <1>2, <1>3, <1>4, <1>5, <1>6, <1>7, <1>8, <1>9, <1>10, <1>11, <1>12, <1>13
  DEF IntakeStep, Process

LEMMA IntakeNextDrops ==
    ASSUME IntakeTypes, DropInv, [IntakeNext]_intakeAll
    PROVE  DropInv'
<1>1. ASSUME NEW t \in Threads, NEW e \in Events, Receive(t, e)
      PROVE  DropInv'
  <2>1. topic' = topic
    BY <1>1 DEF Receive
  <2>2. NoSilentDrop'
    <3> DEFINE n == Len(deliveries) + 1
    <3>0. /\ DOMAIN deliveries' = DOMAIN deliveries \cup {n}
          /\ deliveries'[n] = [event |-> e, jobs |-> {}, ignored |-> FALSE,
                               blind |-> FALSE, reply |-> "waiting"]
          /\ \A d \in DOMAIN deliveries : deliveries'[d] = deliveries[d]
      BY <1>1, ReceiveMoves
    <3>1. deliveries'[n].reply = "waiting"
      BY <3>0
    <3> HIDE DEF n
    <3> QED
      BY <2>1, <3>0, <3>1 DEF DropInv, NoSilentDrop
  <2>3. ASSUME NEW u \in Threads, threads'[u].at \in {"ok", "readback"}
        PROVE  Handled(deliveries'[threads'[u].del])
    <3>1. u # t /\ threads'[u] = threads[u]
      BY <1>1, <2>3, ReceiveMoves
    <3>2. threads[u].del \in DOMAIN deliveries /\ Handled(deliveries[threads[u].del])
      BY <2>3, <3>1 DEF DropInv, LookedAt, Mine, IntakeTypes, InHand
    <3> QED
      BY <1>1, <3>1, <3>2, ReceiveMoves
  <2> QED
    BY <2>2, <2>3 DEF DropInv, LookedAt, Mine
<1>2. ASSUME NEW t \in Threads, NEW d \in topic, Pull(t, d)
      PROVE  DropInv'
  <2>1. topic' = topic /\ deliveries' = deliveries
    BY <1>2 DEF Pull
  <2> QED
    BY <1>2, <2>1, PullMoves DEF DropInv, LookedAt, NoSilentDrop, Mine
<1>3. CASE IntakeCrash
  BY <1>3, DropKeepsDrop DEF IntakeCrash
<1>4. CASE UNCHANGED intakeAll \/ \E r \in Repos : SaveSwitches(r) \/ PurgeRepo(r)
  BY <1>4 DEF intakeAll, intakeVars, SaveSwitches, PurgeRepo, DropInv, LookedAt, NoSilentDrop, Mine
<1> QED
  BY <1>1, <1>2, <1>3, <1>4, IntakeStepDrops DEF IntakeNext

\* A delivery that GitHub was told is taken care of is in the topic still, has a
\* job, or was looked at: whatever fails, crashes, or comes twice.
THEOREM NothingDroppedSilently == IntakeSpec => []NoSilentDrop
<1>1. IntakeInit => DropInv
  BY IntakeInitTypes, EmptySeq DEF IntakeInit, DropInv, LookedAt, NoSilentDrop, Nobody
<1>2. IntakeTypes /\ DropInv /\ [IntakeNext]_intakeAll => DropInv'
  BY IntakeNextDrops
<1>3. IntakeSpec => []DropInv
  BY <1>1, <1>2, IntakeTypeCorrect, PTL DEF IntakeSpec, intakeAll
<1>4. DropInv => NoSilentDrop
  BY DEF DropInv
<1> QED
  BY <1>3, <1>4, PTL
-----------------------------------------------------------------------------
(* The directive of a comment.  What a goroutine read of the settings is what *)
(* they are still, unless their version has moved on.                         *)

SeenFresh ==
    \A t \in Threads : threads[t].at = "write" /\ repos[RepoOf(t)].live =>
        /\ threads[t].ver <= repos[RepoOf(t)].ver
        /\ threads[t].ver = repos[RepoOf(t)].ver => threads[t].seen = switch[RepoOf(t)]

\* Settings that are saved get a new version; a repository that is gone stays so.
Moves == \A r \in Repos :
    /\ repos'[r].live => repos[r].live
    /\ \/ repos'[r] = repos[r] /\ switch'[r] = switch[r]
       \/ repos'[r].ver = repos[r].ver + 1
       \/ ~ repos'[r].live

LEMMA UpsertMoves ==
    ASSUME IntakeTypes, NEW r \in Repos, UpsertRepoSettings(r),
           \A q \in Repos : q # r \/ ~ repos[r].live => switch'[q] = switch[q]
    PROVE  Moves
<1>1. repos \in [Repos -> [live : BOOLEAN, ver : Nat]]
  BY DEF IntakeTypes, IntakeTypeOK, DBTypeOK
<1>2. CASE repos[r].live
  <2>1. repos' = [repos EXCEPT ![r] = [repos[r] EXCEPT !.ver = repos[r].ver + 1]]
    BY <1>2 DEF UpsertRepoSettings
  <2>2. \A q \in Repos : q # r => repos'[q] = repos[q]
    BY <1>1, <2>1
  <2>3. repos'[r] = [repos[r] EXCEPT !.ver = repos[r].ver + 1] /\ repos[r] \in [live : BOOLEAN, ver : Nat]
    BY <1>1, <2>1
  <2>4. repos'[r].ver = repos[r].ver + 1 /\ repos'[r].live = repos[r].live
    BY <2>3
  <2> QED
    BY <2>2, <2>4 DEF Moves
<1>3. CASE ~ repos[r].live
  BY <1>3 DEF UpsertRepoSettings, Moves
<1> QED
  BY <1>2, <1>3

LEMMA NextMoves ==
    ASSUME IntakeTypes, [IntakeNext]_intakeAll
    PROVE  Moves
<1>1. CASE UNCHANGED <<repos, switch>>
  BY <1>1 DEF Moves
<1>2. ASSUME NEW t \in Threads, IntakeStep(t)
      PROVE  Moves
  <2>1. CASE WriteSettings(t)
    <3>1. threads[t].at # "free" /\ RepoOf(t) \in Repos
      BY <2>1, EventTypes DEF WriteSettings
    <3>2. CASE UNCHANGED <<repos, switch>>
      BY <1>1, <3>2
    <3>3. CASE ~ UNCHANGED <<repos, switch>>
      <4>1. /\ UpsertRepoSettings(RepoOf(t))
            /\ switch' = IF repos[RepoOf(t)].live
                         THEN [switch EXCEPT ![RepoOf(t)] = threads[t].seen] ELSE switch
        BY <2>1, <3>3 DEF WriteSettings
      <4>2. \A q \in Repos : q # RepoOf(t) \/ ~ repos[RepoOf(t)].live => switch'[q] = switch[q]
        BY <3>1, <4>1 DEF IntakeTypes, IntakeTypeOK
      <4> QED
        BY <3>1, <4>1, <4>2, UpsertMoves
    <3> QED
      BY <3>2, <3>3
  <2>2. CASE ~ WriteSettings(t)
    <3>1. UNCHANGED <<repos, switch>>
      BY <1>2, <2>2 DEF IntakeStep, Process, Publish, PublishFails, Ignore, LookupFails, AcceptPush,
         AcceptComment, ReadSettings, CreateJob, InsertFails, Undecodable, ReadBack, ReadBackPanics, Finish,
         DropThreads, dbVars
    <3> QED
      BY <1>1, <3>1
  <2> QED
    BY <2>1, <2>2
<1>3. ASSUME NEW r \in Repos, SaveSwitches(r)
      PROVE  Moves
  <2>1. \A q \in Repos : q # r \/ ~ repos[r].live => switch'[q] = switch[q]
    BY <1>3 DEF SaveSwitches, IntakeTypes, IntakeTypeOK
  <2> QED
    BY <1>3, <2>1, UpsertMoves DEF SaveSwitches
<1>4. ASSUME NEW r \in Repos, PurgeRepo(r)
      PROVE  Moves
  <2>1. switch' = switch
    BY <1>4 DEF PurgeRepo
  <2>2. repos' = repos \/ repos' = [repos EXCEPT ![r] = [live |-> FALSE, ver |-> 0]]
    BY <1>4 DEF PurgeRepo, ResetRepoData, DeleteRepo
  <2>3. \A q \in Repos : repos'[q] = repos[q] \/ repos'[q] = [live |-> FALSE, ver |-> 0]
    BY <2>2 DEF IntakeTypes, IntakeTypeOK, DBTypeOK
  <2> QED
    BY <2>1, <2>3 DEF Moves
<1>5. CASE \/ IntakeCrash \/ UNCHANGED intakeAll
           \/ \E t \in Threads, e \in Events : Receive(t, e)
           \/ \E t \in Threads, d \in topic : Pull(t, d)
  BY <1>1, <1>5 DEF IntakeCrash, DropThreads, Receive, Pull, intakeAll, intakeVars, dbVars
<1> QED
  BY <1>2, <1>3, <1>4, <1>5 DEF IntakeNext

\* A goroutine is about to write only if it was so before, or has just read.
LEMMA OnlyReadersWrite ==
    ASSUME IntakeTypes, [IntakeNext]_intakeAll, NEW t \in Threads, threads'[t].at = "write"
    PROVE  /\ RepoOf(t)' = RepoOf(t)
           /\ RepoOf(t) \in Repos
           /\ \/ threads[t].at = "write" /\ threads'[t] = threads[t]
              \/ /\ threads'[t].ver = repos[RepoOf(t)].ver
                 /\ threads'[t].seen = switch[RepoOf(t)]
                 /\ UNCHANGED <<repos, switch>>
<1>1. CASE IntakeStep(t)
  <2>1. ASSUME NEW g, NEW e, Becomes(t, g, e), g.at # "write"
        PROVE  FALSE
    BY <2>1 DEF Becomes
  <2>2. \A step \in {"lookup", "read", "create", "readback", "ok", "bad"} :
           Goes(t, step).at # "write" /\ Nobody.at # "write"
    BY GoesTypes DEF Nobody
  <2>3. ~ (Publish(t) \/ PublishFails(t) \/ Ignore(t) \/ LookupFails(t))
    BY <2>1, <2>2, PublishMoves, PublishFailsMoves, IgnoreMoves, LookupFailsMoves
  <2>4. ~ (WriteSettings(t) \/ InsertFails(t) \/ Undecodable(t) \/ ReadBack(t) \/ Finish(t))
    BY <2>1, <2>2, WriteSettingsMoves, FailsMoves, ReadBackMoves, FinishMoves
  <2>5. ~ (AcceptPush(t) \/ AcceptComment(t))
    <3>1. \A step \in {"read", "create"}, b \in Branches :
              [Goes(t, step) EXCEPT !.branch = b].at # "write"
      BY GoesTypes DEF Goroutine
    <3> QED
      BY <2>1, <3>1, AcceptMoves
  <2>6. ~ CreateJob(t)
    <3>1. \A j \in JobIds : [Goes(t, "readback") EXCEPT !.job = j].at # "write"
      BY GoesTypes DEF Goroutine
    <3> QED
      BY <2>1, <3>1, CreateJobMoves DEF CreateJob
  <2>7. ~ ReadBackPanics(t)
    <3>1. ~ DropThreads
      BY <2>2, DropMoves
    <3> QED
      BY <2>1, <2>2, <3>1, PanicMoves DEF ReadBackPanics
  <2>8. ReadSettings(t)
    BY <1>1, <2>3, <2>4, <2>5, <2>6, <2>7 DEF IntakeStep, Process
  <2> DEFINE W == [Goes(t, "write") EXCEPT !.seen = switch[RepoOf(t)],
                                           !.ver = repos[RepoOf(t)].ver]
  <2>9. Becomes(t, W, Mine(t)) /\ RepoOf(t) \in Repos
    BY <2>1, <2>2, <2>8, ReadSettingsMoves
  <2>10. /\ Goes(t, "write") \in Goroutine
         /\ threads'[t] = W
    BY <2>9, GoesTypes DEF Becomes
  <2>11. /\ W.del = threads[t].del
         /\ W.seen = switch[RepoOf(t)]
         /\ W.ver = repos[RepoOf(t)].ver
    BY <2>10, GoesTypes DEF Goroutine
  <2>12. UNCHANGED <<repos, switch, deliveries>>
    BY <2>8 DEF ReadSettings, dbVars
  <2> QED
    BY <2>9, <2>10, <2>11, <2>12 DEF RepoOf, EventOf
<1>2. CASE threads'[t] = threads[t] /\ threads[t].at = "write"
  <2>1. threads[t].del \in DOMAIN deliveries
    BY <1>2 DEF IntakeTypes, InHand
  <2>2. deliveries'[threads[t].del].event = deliveries[threads[t].del].event
    BY <2>1, DeliveriesKept
  <2> QED
    BY <1>2, <2>2, EventTypes DEF RepoOf, EventOf
<1>3. CASE ~ IntakeStep(t) /\ ~ (\E e \in Events : Receive(t, e)) /\ ~ (\E d \in topic : Pull(t, d))
  <2>1. ~ DropThreads
    BY DropMoves DEF Nobody
  <2>2. threads'[t] = threads[t]
    <3>1. ASSUME NEW u \in Threads, u # t, IntakeStep(u)
          PROVE  threads'[t] = threads[t]
      BY <2>1, <3>1, StepBecomes DEF Becomes
    <3>2. ASSUME NEW u \in Threads, u # t, NEW e \in Events, Receive(u, e)
          PROVE  threads'[t] = threads[t]
      BY <3>2, ReceiveMoves
    <3>3. ASSUME NEW u \in Threads, u # t, NEW d \in topic, Pull(u, d)
          PROVE  threads'[t] = threads[t]
      BY <3>3, PullMoves
    <3>4. CASE \/ IntakeCrash \/ UNCHANGED intakeAll
               \/ \E r \in Repos : SaveSwitches(r) \/ PurgeRepo(r)
      BY <2>1, <3>4 DEF IntakeCrash, SaveSwitches, PurgeRepo, intakeAll, intakeVars
    <3> QED
      BY <1>3, <3>1, <3>2, <3>3, <3>4 DEF IntakeNext
  <2> QED
    BY <1>2, <2>2
<1>4. CASE (\E e \in Events : Receive(t, e)) \/ (\E d \in topic : Pull(t, d))
  BY <1>4, ReceiveMoves, PullMoves
<1> QED
  BY <1>1, <1>3, <1>4

\* The version that a goroutine has seen is the one of the settings only if the
\* switches are those it has seen.
LEMMA NextSeen ==
    ASSUME IntakeTypes, SeenFresh, [IntakeNext]_intakeAll
    PROVE  SeenFresh'
<1> SUFFICES ASSUME NEW t \in Threads, threads'[t].at = "write", repos'[RepoOf(t)'].live
             PROVE  /\ threads'[t].ver <= repos'[RepoOf(t)'].ver
                    /\ threads'[t].ver = repos'[RepoOf(t)'].ver
                           => threads'[t].seen = switch'[RepoOf(t)']
  BY DEF SeenFresh
<1> DEFINE r == RepoOf(t)
<1>1. r \in Repos /\ RepoOf(t)' = r
  BY OnlyReadersWrite
<1>2. Moves /\ repos[r].ver \in Nat
  BY <1>1, NextMoves DEF IntakeTypes, IntakeTypeOK, DBTypeOK
<1>3. CASE /\ threads'[t].ver = repos[r].ver
           /\ threads'[t].seen = switch[r]
           /\ UNCHANGED <<repos, switch>>
  BY <1>1, <1>2, <1>3
<1>4. CASE threads[t].at = "write" /\ threads'[t] = threads[t]
  <2>1. threads[t].ver \in Nat
    BY IntakeShapes DEF Goroutine
  <2>2. /\ repos[r].live
        /\ (repos'[r] = repos[r] /\ switch'[r] = switch[r]) \/ repos'[r].ver = repos[r].ver + 1
    BY <1>1, <1>2 DEF Moves
  <2>3. /\ threads[t].ver <= repos[r].ver
        /\ threads[t].ver = repos[r].ver => threads[t].seen = switch[r]
    BY <1>4, <2>2 DEF SeenFresh
  <2> HIDE DEF r
  <2> QED
    BY <1>1, <1>2, <1>4, <2>1, <2>2, <2>3
<1> QED
  BY <1>3, <1>4, OnlyReadersWrite

\* The write-back changes the switches only over a save that came in between.
LEMMA NextKeepsSwitches ==
    ASSUME IntakeTypes, SeenFresh, [IntakeNext]_intakeAll, NEW t \in Threads,
           threads[t].at = "write", threads'[t].at # "write", switch' # switch
    PROVE  threads[t].ver # repos[RepoOf(t)].ver
<1>1. ~ DropThreads
  BY DEF DropThreads
<1>2. ASSUME NEW u \in Threads, u # t, IntakeStep(u)
      PROVE  FALSE
  BY <1>1, <1>2, StepBecomes DEF Becomes
<1>3. CASE IntakeStep(t)
  <2>1. WriteSettings(t)
    BY <1>1, <1>3 DEF IntakeStep, Process, Publish, PublishFails, Ignore, LookupFails, AcceptPush,
       AcceptComment, ReadSettings, CreateJob, InsertFails, Undecodable, ReadBack, ReadBackPanics, Finish
  <2>2. /\ repos[RepoOf(t)].live
        /\ switch' = [switch EXCEPT ![RepoOf(t)] = threads[t].seen]
    BY <2>1 DEF WriteSettings
  <2>3. RepoOf(t) \in Repos
    BY EventTypes
  <2>4. threads[t].seen # switch[RepoOf(t)]
    BY <2>2, <2>3 DEF IntakeTypes, IntakeTypeOK
  <2> QED
    BY <2>2, <2>4 DEF SeenFresh
<1>4. ASSUME NEW r \in Repos, SaveSwitches(r) \/ PurgeRepo(r)
      PROVE  FALSE
  BY <1>4 DEF SaveSwitches, PurgeRepo
<1>5. CASE \/ IntakeCrash \/ UNCHANGED intakeAll
           \/ \E u \in Threads, e \in Events : Receive(u, e)
           \/ \E u \in Threads, d \in topic : Pull(u, d)
  BY <1>1, <1>5 DEF IntakeCrash, Receive, Pull, intakeAll, intakeVars
<1> QED
  BY <1>2, <1>3, <1>4, <1>5 DEF IntakeNext

\* Between a directive's read and its write, only a save of the settings can be
\* lost: whichever goroutines, purges and deaths come in between.
THEOREM DirectivesKeepSwitches == IntakeSpec => DirectiveKeepsSwitches
<1>1. IntakeInit => SeenFresh
  BY DEF IntakeInit, SeenFresh, Nobody
<1>2. IntakeTypes /\ SeenFresh /\ [IntakeNext]_intakeAll => SeenFresh'
  BY NextSeen
<1>3. IntakeTypes /\ SeenFresh /\ [IntakeNext]_intakeAll =>
          [\A t \in Threads :
               threads[t].at = "write" /\ threads'[t].at # "write" /\ switch' # switch
                   => threads[t].ver # repos[RepoOf(t)].ver]_intakeAll
  BY NextKeepsSwitches
<1> QED
  BY <1>1, <1>2, <1>3, IntakeTypeCorrect, PTL DEF IntakeSpec, DirectiveKeepsSwitches, intakeAll

-----------------------------------------------------------------------------
(* Extra jobs.  What may still become a job is a debt: a goroutine that has    *)
(* yet to insert or will send its message back, and a message that no          *)
(* subscriber holds.  Every debt beyond one of each delivery has been paid     *)
(* for by a message handed out twice, a failed statement or a death.           *)

OwingSteps == {"publish", "lookup", "read", "write", "create", "bad"}

Owes == {t \in Threads : threads[t].at \in OwingSteps}

Unheld == {d \in topic : \A t \in Threads : threads[t].del = d => threads[t].http}

AllJobs == UNION {deliveries[d].jobs : d \in DOMAIN deliveries}

Due == {d \in DOMAIN deliveries : \/ deliveries[d].jobs # {}
                                  \/ d \in Unheld
                                  \/ \E t \in Owes : threads[t].del = d}

DebtsPaid ==
    Cardinality(AllJobs) + Cardinality(Owes) + Cardinality(Unheld)
        <= Cardinality(Due) + dups + faults + crashes * Cardinality(Threads)

\* One element more, one element less.
LEMMA OneMore ==
    ASSUME NEW S, IsFiniteSet(S), NEW T, NEW x, T \subseteq S \cup {x}
    PROVE  IsFiniteSet(T) /\ Cardinality(T) \in Nat /\ Cardinality(T) <= Cardinality(S) + 1
<1>0. Cardinality(S) \in Nat
  BY FS_CardinalityType
<1>1. /\ IsFiniteSet(S \cup {x})
      /\ Cardinality(S \cup {x}) <= Cardinality(S) + 1
  BY <1>0, FS_AddElement
<1>2. IsFiniteSet(T) /\ Cardinality(T) <= Cardinality(S \cup {x})
  BY <1>1, FS_Subset
<1> QED
  BY <1>0, <1>1, <1>2, FS_CardinalityType

LEMMA OneLess ==
    ASSUME NEW S, IsFiniteSet(S), NEW x \in S, NEW T, T \subseteq S \ {x}
    PROVE  IsFiniteSet(T) /\ Cardinality(T) \in Nat /\ Cardinality(T) + 1 <= Cardinality(S)
<1>1. /\ IsFiniteSet(S \ {x})
      /\ Cardinality(S) \in Nat
      /\ Cardinality(S \ {x}) = Cardinality(S) - 1
  BY FS_RemoveElement, FS_CardinalityType
<1>2. IsFiniteSet(T) /\ Cardinality(T) <= Cardinality(S \ {x})
  BY <1>1, FS_Subset
<1> QED
  BY <1>1, <1>2, FS_CardinalityType

LEMMA UnionBound ==
    ASSUME NEW S, IsFiniteSet(S), NEW T, IsFiniteSet(T)
    PROVE  /\ IsFiniteSet(S \cup T)
           /\ Cardinality(S \cup T) \in Nat
           /\ Cardinality(S \cup T) <= Cardinality(S) + Cardinality(T)
<1>1. IsFiniteSet(S \cup T) /\ Cardinality(S \cup T) = Cardinality(S) + Cardinality(T) - Cardinality(S \cap T)
  BY FS_Union
<1>2. IsFiniteSet(S \cap T)
  BY FS_Intersection
<1>3. Cardinality(S \cap T) \in Nat /\ Cardinality(S) \in Nat /\ Cardinality(T) \in Nat
  BY <1>2, FS_CardinalityType
<1>4. Cardinality(S \cup T) \in Nat
  BY <1>1, FS_CardinalityType
<1> QED
  BY <1>1, <1>3, <1>4

\* No more values than arguments.
LEMMA NoMoreValues ==
    ASSUME NEW S, IsFiniteSet(S), NEW f, NEW T, \A y \in T : \E x \in S : f[x] = y
    PROVE  IsFiniteSet(T) /\ Cardinality(T) \in Nat /\ Cardinality(T) <= Cardinality(S)
<1> DEFINE U == {x \in S : f[x] \in T}
           g == [x \in U |-> f[x]]
<1>1. IsFiniteSet(U) /\ Cardinality(U) <= Cardinality(S)
  BY FS_Subset
<1>2. g \in [U -> T] /\ \A y \in T : \E x \in U : g[x] = y
  OBVIOUS
<1>3. g \in Surjection(U, T)
  BY <1>2 DEF Surjection
<1>4. IsFiniteSet(T) /\ Cardinality(T) <= Cardinality(U)
  BY <1>1, <1>3, FS_Surjection
<1> QED
  BY <1>1, <1>4, FS_CardinalityType

\* The sets are finite.
Finite ==
    /\ IsFiniteSet(AllJobs) /\ Cardinality(AllJobs) \in Nat
    /\ IsFiniteSet(Owes) /\ Cardinality(Owes) \in Nat
    /\ IsFiniteSet(topic)
    /\ IsFiniteSet(Unheld) /\ Cardinality(Unheld) \in Nat
    /\ IsFiniteSet(Due) /\ Cardinality(Due) \in Nat
    /\ IsFiniteSet(Threads) /\ Cardinality(Threads) \in Nat
    /\ {dups, faults, crashes} \subseteq Nat

LEMMA FiniteDebts == IntakeTypes => Finite
<1> SUFFICES ASSUME IntakeTypes PROVE Finite
  OBVIOUS
<1>1. IsFiniteSet(JobIds)
  BY FS_Interval, DBAssumption DEF JobIds
<1>2. AllJobs \subseteq JobIds
  <2>1. \A d \in DOMAIN deliveries : deliveries[d].jobs \subseteq JobIds
    BY IntakeShapes DEF Delivery
  <2> QED
    BY <2>1 DEF AllJobs
<1>3. IsFiniteSet(DOMAIN deliveries)
  BY IntakeShapes, FS_Interval
<1>4. topic \subseteq DOMAIN deliveries
  BY DEF IntakeTypes, IntakeTypeOK
<1>5. Owes \subseteq Threads /\ Unheld \subseteq DOMAIN deliveries /\ Due \subseteq DOMAIN deliveries
  BY <1>4 DEF Owes, Unheld, Due
<1>6. IsFiniteSet(Threads)
  BY IntakeAssumption
<1>7. {dups, faults, crashes} \subseteq Nat
  BY DEF IntakeTypes, IntakeTypeOK, DBTypeOK
<1> QED
  BY <1>1, <1>2, <1>3, <1>4, <1>5, <1>6, <1>7, FS_Subset, FS_CardinalityType DEF Finite

LEMMA FiniteDebtsNext == IntakeTypes' => Finite'
BY FiniteDebts, PTL

\* The balance of a step, with p the price it pays.
LEMMA Balance ==
    ASSUME IntakeTypes, IntakeTypes', DebtsPaid, NEW p \in Nat,
           Cardinality(AllJobs') + Cardinality(Owes') + Cardinality(Unheld') + Cardinality(Due)
               <= Cardinality(AllJobs) + Cardinality(Owes) + Cardinality(Unheld)
                  + Cardinality(Due') + p,
           dups + faults + p <= dups' + faults',
           crashes' = crashes
    PROVE  DebtsPaid'
<1> DEFINE c == crashes * Cardinality(Threads)
<1>0. Finite /\ Finite'
  BY FiniteDebts, FiniteDebtsNext
<1>1. c \in Nat
  BY <1>0 DEF Finite
<1>2. crashes' * Cardinality(Threads) = c
  OBVIOUS
<1>3. Cardinality(AllJobs) + Cardinality(Owes) + Cardinality(Unheld)
          <= Cardinality(Due) + dups + faults + c
  BY DEF DebtsPaid
<1>4. /\ Cardinality(AllJobs)' \in Nat /\ Cardinality(Owes)' \in Nat
      /\ Cardinality(Unheld)' \in Nat /\ Cardinality(Due)' \in Nat
      /\ {dups', faults'} \subseteq Nat
  BY <1>0 DEF Finite
<1> HIDE DEF c
<1>5. Cardinality(AllJobs') + Cardinality(Owes') + Cardinality(Unheld')
          <= Cardinality(Due') + dups' + faults' + c
  BY <1>0, <1>1, <1>3, <1>4 DEF Finite
<1> QED
  BY <1>2, <1>5 DEF DebtsPaid
-----------------------------------------------------------------------------
(* What a step of one goroutine does to the four sets. *)

\* Goroutine t keeps its delivery or lets go of all.
Holds(t, g) == g = Nobody \/ (g.del = threads[t].del /\ g.http = threads[t].http)

\* Deliveries are numbered from 1.
LEMMA Numbered == IntakeTypes => 0 \notin DOMAIN deliveries /\ 0 \notin topic
<1> SUFFICES ASSUME IntakeTypes PROVE 0 \notin DOMAIN deliveries /\ topic \subseteq DOMAIN deliveries
  OBVIOUS
<1>1. 0 \notin DOMAIN deliveries
  BY IntakeShapes
<1> QED
  BY <1>1 DEF IntakeTypes, IntakeTypeOK

LEMMA OwesAfter ==
    ASSUME IntakeTypes, NEW t \in Threads, NEW g, NEW e, Becomes(t, g, e)
    PROVE  Owes' = IF g.at \in OwingSteps THEN Owes \cup {t} ELSE Owes \ {t}
BY DEF Becomes, Owes

LEMMA JobsAfter ==
    ASSUME IntakeTypes, NEW t \in Threads, threads[t].at # "free",
           NEW g, NEW e, Becomes(t, g, e)
    PROVE  /\ e.jobs = Mine(t).jobs => AllJobs' = AllJobs
           /\ AllJobs' \subseteq AllJobs \cup e.jobs
<1>1. threads[t].del \in DOMAIN deliveries
  BY MineChanged
<1> QED
  BY <1>1 DEF Becomes, AllJobs, Mine

LEMMA UnheldAfter ==
    ASSUME IntakeTypes, NEW t \in Threads, threads[t].at # "free",
           NEW g, NEW e, Becomes(t, g, e), Holds(t, g),
           topic' \subseteq topic \cup {threads[t].del}
    PROVE  /\ Unheld' \subseteq Unheld \cup {threads[t].del}
           /\ topic' \subseteq topic
              /\ (g # Nobody \/ threads[t].http \/ threads[t].del \notin topic')
                 => Unheld' \subseteq Unheld
<1> DEFINE d == threads[t].del
<1>0. d \in DOMAIN deliveries /\ d # 0 /\ 0 \notin topic /\ Nobody.del = 0
  BY MineChanged, Numbered DEF Nobody
<1>1. \A u \in Threads : u # t => threads'[u] = threads[u]
  BY DEF Becomes
<1>2. ASSUME NEW x \in Unheld', x # d
      PROVE  x \in Unheld
  BY <1>1, <1>2 DEF Unheld
<1>3. ASSUME d \in Unheld', topic' \subseteq topic, g # Nobody \/ threads[t].http \/ d \notin topic'
      PROVE  d \in Unheld
  <2>1. threads[t].http
    BY <1>3 DEF Unheld, Becomes, Holds
  <2> QED
    BY <1>1, <1>3, <2>1 DEF Unheld
<1> QED
  BY <1>2, <1>3

LEMMA DueAfter ==
    ASSUME IntakeTypes, NEW t \in Threads, threads[t].at # "free",
           NEW g, NEW e, Becomes(t, g, e), Holds(t, g),
           topic \ {threads[t].del} \subseteq topic'
    PROVE  /\ Due \ {threads[t].del} \subseteq Due'
           /\ e.jobs # {} => Due \subseteq Due'
           /\ threads[t].del \in Unheld' => Due \subseteq Due'
           /\ g.at \in OwingSteps => Due \subseteq Due'
           /\ t \notin Owes /\ e.jobs = Mine(t).jobs /\ (threads[t].http => topic \subseteq topic')
                 => Due \subseteq Due'
<1> DEFINE d == threads[t].del
<1>0. /\ d \in DOMAIN deliveries
      /\ \A x \in DOMAIN deliveries : x # 0
      /\ DOMAIN deliveries' = DOMAIN deliveries
      /\ Nobody.del = 0
      /\ Nobody.at \notin OwingSteps
  BY MineChanged, Numbered DEF Nobody, Becomes, OwingSteps
<1>1. \A u \in Threads : u # t => threads'[u] = threads[u]
  BY DEF Becomes
<1>2. threads'[t].del \in {0, d}
  BY <1>0 DEF Becomes, Holds
<1>3. ASSUME NEW x \in Due, x # d
      PROVE  x \in Due'
  <2>1. x \in DOMAIN deliveries' /\ deliveries'[x] = deliveries[x] /\ x # 0
    BY <1>0, <1>3 DEF Due, Becomes
  <2>2. CASE x \in Unheld
    <3>1. x \in Unheld'
      BY <1>1, <1>2, <1>3, <2>1, <2>2 DEF Unheld
    <3> QED
      BY <2>1, <3>1 DEF Due
  <2>3. ASSUME NEW u \in Owes, threads[u].del = x
        PROVE  x \in Due'
    <3>1. u # t /\ threads'[u] = threads[u]
      BY <1>1, <1>3, <2>3 DEF Owes
    <3>2. u \in Owes'
      BY <2>3, <3>1 DEF Owes
    <3> QED
      BY <2>1, <2>3, <3>1, <3>2 DEF Due
  <2>4. CASE deliveries[x].jobs # {}
    BY <2>1, <2>4 DEF Due
  <2> QED
    BY <2>2, <2>3, <2>4 DEF Due
<1>4. ASSUME e.jobs # {}
      PROVE  d \in Due'
  BY <1>0, <1>4 DEF Due, Becomes
<1>5. ASSUME d \in Unheld'
      PROVE  d \in Due'
  BY <1>0, <1>5 DEF Due
<1>6. ASSUME g.at \in OwingSteps
      PROVE  d \in Due'
  <2>1. threads'[t].del = d /\ threads'[t].at \in OwingSteps
    BY <1>0, <1>6 DEF Becomes, Holds
  <2>2. t \in Owes'
    BY <2>1 DEF Owes
  <2> QED
    BY <1>0, <2>1, <2>2 DEF Due
<1>7. ASSUME t \notin Owes, e.jobs = Mine(t).jobs, threads[t].http => topic \subseteq topic', d \in Due
      PROVE  d \in Due'
  <2>1. CASE d \in Unheld
    <3>1. threads[t].http /\ d \in topic'
      BY <1>7, <2>1 DEF Unheld
    <3>2. \A u \in Threads : threads'[u].del = d => threads'[u].http
      BY <1>0, <1>1, <2>1, <3>1 DEF Unheld, Becomes, Holds
    <3> QED
      BY <1>5, <3>1, <3>2 DEF Unheld
  <2>2. ASSUME NEW u \in Owes, threads[u].del = d
        PROVE  d \in Due'
    <3>1. u # t /\ threads'[u] = threads[u]
      BY <1>1, <1>7, <2>2 DEF Owes
    <3>2. u \in Owes'
      BY <2>2, <3>1 DEF Owes
    <3> QED
      BY <1>0, <2>2, <3>1, <3>2 DEF Due
  <2>3. CASE deliveries[d].jobs # {}
    BY <1>4, <1>7, <2>3 DEF Mine
  <2> QED
    BY <1>7, <2>1, <2>2, <2>3 DEF Due
<1> QED
  BY <1>3, <1>4, <1>5, <1>6, <1>7

\* Goroutine t goes on and nothing changes for the four sets.
LEMMA GoesOnPaid ==
    ASSUME IntakeTypes, IntakeTypes', DebtsPaid, NEW t \in Threads, threads[t].at # "free",
           NEW g, NEW e, Becomes(t, g, e), Holds(t, g), e.jobs = Mine(t).jobs,
           t \in Owes <=> g.at \in OwingSteps,
           \/ topic' = topic
           \/ ~ threads[t].http /\ t \notin Owes /\ topic' = topic \ {threads[t].del},
           g # Nobody \/ threads[t].http \/ threads[t].del \notin topic',
           dups + faults <= dups' + faults', crashes' = crashes
    PROVE  DebtsPaid'
<1>1. Owes' = Owes
  BY OwesAfter
<1>2. AllJobs' = AllJobs
  BY JobsAfter
<1>3. Unheld' \subseteq Unheld
  BY UnheldAfter
<1>4. Due \subseteq Due'
  BY DueAfter
<1>5. Finite /\ Finite'
  BY FiniteDebts, FiniteDebtsNext
<1>6. Cardinality(Unheld') <= Cardinality(Unheld) /\ Cardinality(Due) <= Cardinality(Due')
  BY <1>3, <1>4, <1>5, FS_Subset DEF Finite
<1>7. dups + faults + 0 <= dups' + faults'
  BY <1>5 DEF Finite
<1>8. Cardinality(AllJobs') + Cardinality(Owes') + Cardinality(Unheld') + Cardinality(Due)
          <= Cardinality(AllJobs) + Cardinality(Owes) + Cardinality(Unheld) + Cardinality(Due') + 0
  BY <1>1, <1>2, <1>5, <1>6 DEF Finite
<1> QED
  BY <1>7, <1>8, Balance

\* Goroutine t runs up one debt, and pays for it.
LEMMA PaysPaid ==
    ASSUME IntakeTypes, IntakeTypes', DebtsPaid, NEW t \in Threads, threads[t].at # "free",
           NEW g, NEW e, Becomes(t, g, e), Holds(t, g), e.jobs = Mine(t).jobs,
           \/ g.at \in OwingSteps /\ topic' = topic
           \/ /\ t \in Owes <=> g.at \in OwingSteps
              /\ topic \subseteq topic'
              /\ topic' \subseteq topic \cup {threads[t].del},
           g # Nobody \/ threads[t].http \/ topic' = topic,
           g.at \in OwingSteps \/ t \notin Owes,
           g # Nobody \/ t \notin Owes,
           g.at \in OwingSteps => g # Nobody,
           dups + faults + 1 <= dups' + faults', crashes' = crashes
    PROVE  DebtsPaid'
<1>2. AllJobs' = AllJobs
  BY JobsAfter
<1>4. Due \subseteq Due'
  BY DueAfter
<1>5. Finite /\ Finite'
  BY FiniteDebts, FiniteDebtsNext
<1>6. Cardinality(Due) <= Cardinality(Due')
  BY <1>4, <1>5, FS_Subset DEF Finite
<1>7. Cardinality(Owes') + Cardinality(Unheld') <= Cardinality(Owes) + Cardinality(Unheld) + 1
  <2>1. CASE t \in Owes <=> g.at \in OwingSteps
    <3>1. Owes' = Owes
      BY <2>1, OwesAfter
    <3>2. Unheld' \subseteq Unheld \cup {threads[t].del}
      BY UnheldAfter
    <3>3. Cardinality(Unheld') <= Cardinality(Unheld) + 1
      BY <1>5, <3>2, OneMore DEF Finite
    <3> QED
      BY <1>5, <3>1, <3>3 DEF Finite
  <2>2. CASE g.at \in OwingSteps /\ topic' = topic
    <3>1. Owes' \subseteq Owes \cup {t}
      BY <2>2, OwesAfter
    <3>2. Unheld' \subseteq Unheld
      BY <2>2, UnheldAfter
    <3>3. Cardinality(Unheld') <= Cardinality(Unheld)
      BY <1>5, <3>2, FS_Subset DEF Finite
    <3>4. Cardinality(Owes') <= Cardinality(Owes) + 1
      BY <1>5, <3>1, OneMore DEF Finite
    <3> QED
      BY <1>5, <3>3, <3>4 DEF Finite
  <2> QED
    BY <2>1, <2>2
<1>8. Cardinality(AllJobs') + Cardinality(Owes') + Cardinality(Unheld') + Cardinality(Due)
          <= Cardinality(AllJobs) + Cardinality(Owes) + Cardinality(Unheld) + Cardinality(Due') + 1
  BY <1>2, <1>5, <1>6, <1>7 DEF Finite
<1> QED
  BY <1>8, Balance

\* Goroutine t is done with its debt, or turns it into a message.
LEMMA SettlesPaid ==
    ASSUME IntakeTypes, IntakeTypes', DebtsPaid, NEW t \in Owes,
           NEW g, NEW e, Becomes(t, g, e), Holds(t, g), e.jobs = Mine(t).jobs,
           g.at \notin OwingSteps,
           topic \subseteq topic', topic' \subseteq topic \cup {threads[t].del},
           dups + faults <= dups' + faults', crashes' = crashes
    PROVE  DebtsPaid'
<1>0. t \in Threads /\ threads[t].at # "free"
  BY DEF Owes, OwingSteps
<1>1. Owes' = Owes \ {t}
  BY <1>0, OwesAfter
<1>2. AllJobs' = AllJobs
  BY <1>0, JobsAfter
<1>5. Finite /\ Finite'
  BY FiniteDebts, FiniteDebtsNext
<1>6. Cardinality(Owes') + 1 <= Cardinality(Owes)
  BY <1>1, <1>5, OneLess DEF Finite
<1>7. Cardinality(Unheld') + Cardinality(Due) <= Cardinality(Unheld) + Cardinality(Due') + 1
  <2>1. CASE threads[t].del \in Unheld'
    <3>1. Due \subseteq Due' /\ Unheld' \subseteq Unheld \cup {threads[t].del}
      BY <1>0, <2>1, DueAfter, UnheldAfter
    <3>2. Cardinality(Due) <= Cardinality(Due') /\ Cardinality(Unheld') <= Cardinality(Unheld) + 1
      BY <1>5, <3>1, OneMore, FS_Subset DEF Finite
    <3> QED
      BY <1>5, <3>2 DEF Finite
  <2>2. CASE threads[t].del \notin Unheld'
    <3>1. Unheld' \subseteq Unheld /\ Due \subseteq Due' \cup {threads[t].del}
      BY <1>0, <2>2, DueAfter, UnheldAfter
    <3>2. Cardinality(Unheld') <= Cardinality(Unheld) /\ Cardinality(Due) <= Cardinality(Due') + 1
      BY <1>5, <3>1, OneMore, FS_Subset DEF Finite
    <3> QED
      BY <1>5, <3>2 DEF Finite
  <2> QED
    BY <2>1, <2>2
<1>8. Cardinality(AllJobs') + Cardinality(Owes') + Cardinality(Unheld') + Cardinality(Due)
          <= Cardinality(AllJobs) + Cardinality(Owes) + Cardinality(Unheld) + Cardinality(Due') + 0
  BY <1>2, <1>5, <1>6, <1>7 DEF Finite
<1>9. dups + faults + 0 <= dups' + faults'
  BY <1>5 DEF Finite
<1> QED
  BY <1>8, <1>9, Balance

\* Goroutine t turns its debt into a job.
LEMMA InsertsPaid ==
    ASSUME IntakeTypes, IntakeTypes', DebtsPaid, NEW t \in Owes, NEW j,
           NEW g, NEW e, Becomes(t, g, e), Holds(t, g), e.jobs = Mine(t).jobs \cup {j},
           g.at \notin OwingSteps, g # Nobody, topic' = topic,
           dups' = dups, faults' = faults, crashes' = crashes
    PROVE  DebtsPaid'
<1>0. t \in Threads /\ threads[t].at # "free" /\ threads[t].del \in DOMAIN deliveries
  BY MineChanged DEF Owes, OwingSteps
<1>1. Owes' = Owes \ {t}
  BY <1>0, OwesAfter
<1>2. AllJobs' \subseteq AllJobs \cup {j}
  <2>1. Mine(t).jobs \subseteq AllJobs
    BY <1>0 DEF AllJobs, Mine
  <2> QED
    BY <1>0, <2>1, JobsAfter
<1>3. Unheld' \subseteq Unheld
  BY <1>0, UnheldAfter
<1>4. Due \subseteq Due'
  BY <1>0, DueAfter
<1>5. Finite /\ Finite'
  BY FiniteDebts, FiniteDebtsNext
<1>6. /\ Cardinality(Owes') + 1 <= Cardinality(Owes)
      /\ Cardinality(AllJobs') <= Cardinality(AllJobs) + 1
      /\ Cardinality(Unheld') <= Cardinality(Unheld)
      /\ Cardinality(Due) <= Cardinality(Due')
  BY <1>1, <1>2, <1>3, <1>4, <1>5, OneLess, OneMore, FS_Subset DEF Finite
<1>8. Cardinality(AllJobs') + Cardinality(Owes') + Cardinality(Unheld') + Cardinality(Due)
          <= Cardinality(AllJobs) + Cardinality(Owes) + Cardinality(Unheld) + Cardinality(Due') + 0
  BY <1>5, <1>6 DEF Finite
<1>9. dups + faults + 0 <= dups' + faults'
  BY <1>5 DEF Finite
<1> QED
  BY <1>8, <1>9, Balance
\* The death of the server: each goroutine may leave a message behind.
LEMMA DropPaid ==
    ASSUME IntakeTypes, IntakeTypes', DebtsPaid, DropThreads,
           crashes' = crashes + 1, faults' = faults
    PROVE  DebtsPaid'
<1> DEFINE held == {d \in topic : \E t \in Threads : threads[t].del = d}
           owed == {d \in Due : \E t \in Owes : threads[t].del = d}
           del  == [t \in Threads |-> threads[t].del]
<1>1. Finite /\ Finite'
  BY FiniteDebts, FiniteDebtsNext
<1>2. /\ Owes' = {}
      /\ AllJobs' = AllJobs
      /\ \A t \in Threads : threads'[t].del = 0 /\ threads'[t].at = "free"
  BY DropMoves DEF Owes, AllJobs, Nobody, OwingSteps
<1>3. topic' = topic /\ dups' = dups /\ 0 \notin topic
  BY Numbered DEF DropThreads
<1>4. Unheld' \subseteq Unheld \cup held
  BY <1>3 DEF Unheld
<1>5. Cardinality(held) <= Cardinality(Threads) /\ Cardinality(held) \in Nat /\ IsFiniteSet(held)
  <2>1. \A y \in held : \E t \in Threads : del[t] = y
    OBVIOUS
  <2> HIDE DEF held, del
  <2> QED
    BY <1>1, <2>1, NoMoreValues DEF Finite
<1>6. Cardinality(owed) <= Cardinality(Owes) /\ Cardinality(owed) \in Nat /\ IsFiniteSet(owed)
  <2>1. \A y \in owed : \E t \in Owes : del[t] = y
    BY DEF Owes
  <2> HIDE DEF owed, del
  <2> QED
    BY <1>1, <2>1, NoMoreValues DEF Finite
<1>7. Due \subseteq Due' \cup owed
  <2> SUFFICES ASSUME NEW d \in Due, d \notin owed PROVE d \in Due'
    OBVIOUS
  <2>1. d \in DOMAIN deliveries' /\ deliveries'[d].jobs = deliveries[d].jobs
    BY DropMoves DEF Due
  <2>2. d \in Unheld => d \in Unheld'
    BY <1>2, <1>3 DEF Unheld
  <2> QED
    BY <2>1, <2>2 DEF Due
<1>8. Cardinality(Unheld') <= Cardinality(Unheld) + Cardinality(Threads)
  <2>1. IsFiniteSet(Unheld \cup held) /\ Cardinality(Unheld \cup held) <= Cardinality(Unheld) + Cardinality(held)
    <3> HIDE DEF held
    <3> QED
      BY <1>1, <1>5, UnionBound DEF Finite
  <2>2. Cardinality(Unheld') <= Cardinality(Unheld \cup held) /\ Cardinality(Unheld \cup held) \in Nat
    BY <1>4, <2>1, FS_Subset, FS_CardinalityType
  <2> HIDE DEF held
  <2> QED
    BY <1>1, <1>5, <2>1, <2>2 DEF Finite
<1>9. Cardinality(Due) <= Cardinality(Due') + Cardinality(Owes)
  <2>1. IsFiniteSet(Due' \cup owed) /\ Cardinality(Due' \cup owed) <= Cardinality(Due') + Cardinality(owed)
    <3> HIDE DEF owed
    <3> QED
      BY <1>1, <1>6, UnionBound DEF Finite
  <2>2. Cardinality(Due) <= Cardinality(Due' \cup owed) /\ Cardinality(Due' \cup owed) \in Nat
    BY <1>7, <2>1, FS_Subset, FS_CardinalityType
  <2> HIDE DEF owed
  <2> QED
    BY <1>1, <1>6, <2>1, <2>2 DEF Finite
<1>10. Cardinality(Owes') = 0
  BY <1>2, FS_EmptySet
<1> DEFINE c == crashes * Cardinality(Threads)
<1>11. c \in Nat /\ crashes' * Cardinality(Threads) = c + Cardinality(Threads)
  BY <1>1 DEF Finite
<1>12. Cardinality(AllJobs) + Cardinality(Owes) + Cardinality(Unheld)
          <= Cardinality(Due) + dups + faults + c
  BY DEF DebtsPaid
<1> HIDE DEF c
<1>13. Cardinality(AllJobs') + Cardinality(Owes') + Cardinality(Unheld')
          <= Cardinality(Due') + dups' + faults' + (c + Cardinality(Threads))
  BY <1>1, <1>2, <1>3, <1>8, <1>9, <1>10, <1>11, <1>12 DEF Finite
<1> QED
  BY <1>11, <1>13 DEF DebtsPaid

\* Every step of a goroutine: one step of the proof per action.
LEMMA IntakeStepPaid ==
    ASSUME IntakeTypes, IntakeTypes', DebtsPaid, NEW t \in Threads, IntakeStep(t)
    PROVE  DebtsPaid'
<1> DEFINE d == threads[t].del
<1>0. /\ threads[t].at # "free" => Mine(t) \in Delivery /\ threads[t] \in Goroutine
      /\ Holds(t, Nobody)
      /\ Nobody.at = "free" /\ Nobody.at \notin OwingSteps
      /\ {dups, faults, crashes} \subseteq Nat
  BY MineChanged, FiniteDebts DEF Holds, Nobody, OwingSteps, Finite
<1>a. \A step \in {"lookup", "read", "write", "create", "readback", "ok", "bad"} :
          /\ Holds(t, Goes(t, step))
          /\ Goes(t, step).at = step
          /\ Goes(t, step) # Nobody
  BY <1>0, GoesTypes DEF Holds
<1>b. t \in Owes <=> threads[t].at \in OwingSteps
  BY DEF Owes
<1>1. CASE Publish(t)
  <2>1. [Mine(t) EXCEPT !.reply = "queued"].jobs = Mine(t).jobs
    BY <1>0, <1>1 DEF Publish, Delivery
  <2>2. t \in Owes /\ UNCHANGED <<dups, faults, crashes>> /\ topic' = topic \cup {d}
    BY <1>1, <1>b DEF Publish, OwingSteps, budgetVars
  <2>3. dups + faults <= dups' + faults'
    BY <1>0, <2>2
  <2> QED
    BY <1>0, <1>1, <2>1, <2>2, <2>3, PublishMoves, SettlesPaid
<1>2. CASE PublishFails(t)
  <2>1. t \in Owes /\ "lookup" \in OwingSteps /\ threads[t].at # "free"
    BY <1>2, <1>b DEF PublishFails, OwingSteps
  <2>2. UNCHANGED <<faults, crashes>>
    BY <1>2 DEF PublishFails, budgetVars
  <2>3. CASE UNCHANGED <<topic, dups>>
    <3>1. dups + faults <= dups' + faults'
      BY <1>0, <2>2, <2>3
    <3> QED
      BY <1>2, <1>a, <2>1, <2>2, <2>3, <3>1, PublishFailsMoves, GoesOnPaid
  <2>4. CASE dups' = dups + 1 /\ topic' = topic \cup {d}
    <3>1. dups + faults + 1 <= dups' + faults'
      BY <1>0, <2>2, <2>4
    <3> QED
      BY <1>2, <1>a, <2>1, <2>2, <2>4, <3>1, PublishFailsMoves, PaysPaid
  <2> QED
    BY <1>2, <2>3, <2>4 DEF PublishFails
<1>3. CASE Ignore(t)
  <2>1. [Mine(t) EXCEPT !.ignored = TRUE].jobs = Mine(t).jobs
    BY <1>0, <1>3 DEF Ignore, Delivery
  <2>2. t \in Owes /\ UNCHANGED <<topic, dups, faults, crashes>> /\ "ok" \notin OwingSteps
    BY <1>3, <1>b DEF Ignore, OwingSteps, budgetVars
  <2>3. dups + faults <= dups' + faults'
    BY <1>0, <2>2
  <2> QED
    BY <1>3, <1>a, <2>1, <2>2, <2>3, IgnoreMoves, SettlesPaid
<1>4. CASE LookupFails(t)
  <2>1. [Mine(t) EXCEPT !.blind = TRUE].jobs = Mine(t).jobs
    BY <1>0, <1>4 DEF LookupFails, Delivery
  <2>2. t \in Owes /\ UNCHANGED <<topic, dups, crashes>> /\ "ok" \notin OwingSteps
    BY <1>4, <1>b DEF LookupFails, OwingSteps
  <2>3. dups + faults <= dups' + faults'
    BY <1>0, <1>4, <2>2, FaultTypes DEF LookupFails
  <2> QED
    BY <1>4, <1>a, <2>1, <2>2, <2>3, LookupFailsMoves, SettlesPaid
<1>5. ASSUME NEW g, Becomes(t, g, Mine(t)), Holds(t, g), g # Nobody, g.at \in OwingSteps,
             threads[t].at \in OwingSteps, topic' = topic, dups' = dups, crashes' = crashes,
             faults' = faults \/ DBFault
      PROVE  DebtsPaid'
  <2>1. dups + faults <= dups' + faults'
    BY <1>0, <1>5, FaultTypes
  <2>2. threads[t].at # "free"
    BY <1>5 DEF OwingSteps
  <2> QED
    BY <1>5, <1>b, <2>1, <2>2, GoesOnPaid
<1>6. CASE AcceptPush(t) \/ AcceptComment(t)
  <2>1. PICK step \in {"read", "create"}, b \in Branches :
            Becomes(t, [Goes(t, step) EXCEPT !.branch = b], Mine(t))
    BY <1>6, AcceptMoves
  <2>2. threads[t].at = "lookup"
    BY <1>6 DEF AcceptPush, AcceptComment
  <2>3. /\ [Goes(t, step) EXCEPT !.branch = b].at = step
        /\ [Goes(t, step) EXCEPT !.branch = b].del = threads[t].del
        /\ [Goes(t, step) EXCEPT !.branch = b].http = threads[t].http
    BY GoesTypes DEF Goroutine
  <2>4. Holds(t, [Goes(t, step) EXCEPT !.branch = b]) /\ [Goes(t, step) EXCEPT !.branch = b] # Nobody
    BY <1>0, <2>3 DEF Holds
  <2>5. /\ UNCHANGED <<topic, dups, crashes>>
        /\ faults' = faults \/ DBFault
    BY <1>6 DEF AcceptPush, AcceptComment, budgetVars
  <2> QED
    BY <1>5, <2>1, <2>2, <2>3, <2>4, <2>5 DEF OwingSteps
<1>7. CASE ReadSettings(t)
  <2> DEFINE W == [Goes(t, "write") EXCEPT !.seen = switch[RepoOf(t)],
                                           !.ver = repos[RepoOf(t)].ver]
  <2>1. threads[t].at = "read"
    BY <1>7 DEF ReadSettings
  <2>2. W.at = "write" /\ W.del = threads[t].del /\ W.http = threads[t].http
    BY GoesTypes DEF Goroutine
  <2>3. Holds(t, W) /\ W # Nobody
    BY <1>0, <2>2 DEF Holds
  <2>4. UNCHANGED <<topic, dups, crashes>> /\ (faults' = faults \/ DBFault)
    BY <1>7 DEF ReadSettings
  <2>5. Becomes(t, W, Mine(t)) \/ Becomes(t, Goes(t, "create"), Mine(t))
    BY <1>7, ReadSettingsMoves
  <2> HIDE DEF W
  <2> QED
    BY <1>5, <1>a, <2>1, <2>2, <2>3, <2>4, <2>5 DEF OwingSteps
<1>8. CASE WriteSettings(t) \/ InsertFails(t) \/ Undecodable(t)
  <2>1. threads[t].at \in {"write", "create", "lookup"}
    BY <1>8 DEF WriteSettings, InsertFails, Undecodable
  <2>2. UNCHANGED <<topic, dups, crashes>> /\ (faults' = faults \/ DBFault)
    BY <1>8 DEF WriteSettings, InsertFails, Undecodable, budgetVars
  <2>3. Becomes(t, Goes(t, "create"), Mine(t)) \/ Becomes(t, Goes(t, "bad"), Mine(t))
    BY <1>8, WriteSettingsMoves, FailsMoves
  <2> QED
    BY <1>5, <1>a, <2>1, <2>2, <2>3 DEF OwingSteps
<1>9. CASE CreateJob(t)
  <2>1. PICK j \in JobIds :
           Becomes(t, [Goes(t, "readback") EXCEPT !.job = j],
                   [Mine(t) EXCEPT !.jobs = @ \cup {j}])
    BY <1>9, CreateJobMoves DEF CreateJob
  <2>2. threads[t].at = "create" /\ t \in Owes
    BY <1>9, <1>b DEF CreateJob, OwingSteps
  <2>3. [Mine(t) EXCEPT !.jobs = @ \cup {j}].jobs = Mine(t).jobs \cup {j}
    BY <1>0, <2>2 DEF Delivery
  <2>4. /\ [Goes(t, "readback") EXCEPT !.job = j].at = "readback"
        /\ [Goes(t, "readback") EXCEPT !.job = j].del = threads[t].del
        /\ [Goes(t, "readback") EXCEPT !.job = j].http = threads[t].http
    BY GoesTypes DEF Goroutine
  <2>5. /\ Holds(t, [Goes(t, "readback") EXCEPT !.job = j])
        /\ [Goes(t, "readback") EXCEPT !.job = j] # Nobody
        /\ "readback" \notin OwingSteps
    BY <1>0, <2>4 DEF Holds, OwingSteps
  <2>6. UNCHANGED <<topic, dups, faults, crashes>>
    BY <1>9 DEF CreateJob, budgetVars
  <2> QED
    BY <2>1, <2>2, <2>3, <2>4, <2>5, <2>6, InsertsPaid
<1>10. CASE ReadBack(t)
  <2>1. /\ threads[t].at = "readback"
        /\ threads[t].at # "free"
        /\ t \notin Owes
        /\ "ok" \notin OwingSteps
        /\ "bad" \in OwingSteps
        /\ UNCHANGED <<topic, dups, crashes>>
    BY <1>10, <1>b DEF ReadBack, OwingSteps
  <2>2. CASE Becomes(t, Goes(t, "ok"), Mine(t)) /\ faults' = faults
    <3>1. dups + faults <= dups' + faults'
      BY <1>0, <2>1, <2>2
    <3> QED
      BY <1>a, <2>1, <2>2, <3>1, GoesOnPaid
  <2>3. CASE Becomes(t, Goes(t, "bad"), Mine(t)) /\ DBFault
    <3>1. dups + faults + 1 <= dups' + faults'
      BY <1>0, <2>1, <2>3, FaultTypes
    <3> QED
      BY <1>a, <2>1, <2>3, <3>1, PaysPaid
  <2> QED
    BY <1>10, <2>2, <2>3, ReadBackMoves
<1>11. CASE ReadBackPanics(t)
  <2>1. /\ threads[t].at = "readback"
        /\ threads[t].at # "free"
        /\ t \notin Owes
        /\ faults' = faults
    BY <1>11, <1>b DEF ReadBackPanics, OwingSteps
  <2>2. CASE DropThreads /\ crashes' = crashes + 1
    BY <2>1, <2>2, DropPaid
  <2>3. CASE /\ threads[t].http
             /\ Reply(threads[t].del, "lost")
             /\ threads' = [threads EXCEPT ![t] = Nobody]
             /\ UNCHANGED <<switch, topic, dups, resets, crashes>>
    <3>1. [Mine(t) EXCEPT !.reply = "lost"].jobs = Mine(t).jobs
      BY <1>0, <2>1 DEF Delivery
    <3>2. dups + faults <= dups' + faults'
      BY <1>0, <2>1, <2>3
    <3> QED
      BY <1>0, <2>1, <2>3, <3>1, <3>2, PanicMoves, GoesOnPaid
  <2> QED
    BY <1>11, <2>2, <2>3 DEF ReadBackPanics
<1>12. CASE Finish(t)
  <2>1. /\ threads[t].at \in {"ok", "bad"}
        /\ threads[t].at # "free"
        /\ t \in Owes <=> threads[t].at = "bad"
        /\ UNCHANGED <<faults, crashes>>
    BY <1>12, <1>b DEF Finish, OwingSteps, budgetVars
  <2>2. CASE threads[t].http
    <3>1. PICK a \in {"done", "error"} :
              /\ Becomes(t, Nobody, [Mine(t) EXCEPT !.reply = a])
              /\ topic' = topic
              /\ dups' = dups
      BY <1>12, <2>2, FinishMoves
    <3>2. [Mine(t) EXCEPT !.reply = a].jobs = Mine(t).jobs
      BY <1>0, <2>1 DEF Delivery
    <3>3. dups + faults <= dups' + faults'
      BY <1>0, <2>1, <3>1
    <3>4. CASE t \in Owes
      BY <1>0, <2>1, <3>1, <3>2, <3>3, <3>4, SettlesPaid
    <3>5. CASE t \notin Owes
      BY <1>0, <2>1, <2>2, <3>1, <3>2, <3>3, <3>5, GoesOnPaid
    <3> QED
      BY <3>4, <3>5
  <2>3. CASE ~ threads[t].http
    <3>1. Becomes(t, Nobody, Mine(t))
      BY <1>12, <2>3, FinishMoves
    <3>2. CASE t \in Owes
      <4>1. topic' = topic /\ dups' = dups
        BY <1>12, <2>1, <2>3, <3>2, FinishMoves
      <4>2. dups + faults <= dups' + faults'
        BY <1>0, <2>1, <4>1
      <4> QED
        BY <1>0, <2>1, <3>1, <3>2, <4>1, <4>2, SettlesPaid
    <3>3. CASE t \notin Owes /\ topic' = topic \ {d} /\ dups' = dups
      <4>1. dups + faults <= dups' + faults'
        BY <1>0, <2>1, <3>3
      <4> QED
        BY <1>0, <2>1, <2>3, <3>1, <3>3, <4>1, GoesOnPaid
    <3>4. CASE t \notin Owes /\ topic' = topic /\ dups' = dups + 1
      <4>1. dups + faults + 1 <= dups' + faults'
        BY <1>0, <2>1, <3>4
      <4> QED
        BY <1>0, <2>1, <3>1, <3>4, <4>1, PaysPaid
    <3> QED
      BY <1>12, <2>1, <2>3, <3>2, <3>3, <3>4, FinishMoves
  <2> QED
    BY <2>2, <2>3
<1> QED
  BY <1>1, <1>2, <1>3, <1>4, <1>6, <1>7, <1>8, <1>9, <1>10, <1>11, <1>12 DEF IntakeStep, Process
\* A delivery comes in: one debt more, and one delivery that it is due to.
LEMMA ReceivePaid ==
    ASSUME IntakeTypes, IntakeTypes', DebtsPaid,
           NEW t \in Threads, NEW e \in Events, Receive(t, e)
    PROVE  DebtsPaid'
<1> DEFINE n == Len(deliveries) + 1
<1>1. /\ DOMAIN deliveries' = DOMAIN deliveries \cup {n}
      /\ n \notin DOMAIN deliveries
      /\ deliveries'[n] = [event |-> e, jobs |-> {}, ignored |-> FALSE,
                           blind |-> FALSE, reply |-> "waiting"]
      /\ \A d \in DOMAIN deliveries : deliveries'[d] = deliveries[d]
      /\ threads'[t].at \in {"publish", "lookup"}
      /\ threads'[t].del = n
      /\ \A u \in Threads : u # t => threads'[u] = threads[u]
  BY ReceiveMoves
<1>2. deliveries'[n].jobs = {}
  BY <1>1
<1>3. /\ threads[t] = Nobody
      /\ UNCHANGED <<topic, dups, faults, crashes>>
      /\ topic \subseteq DOMAIN deliveries
  BY DEF Receive, budgetVars, IntakeTypes, IntakeTypeOK
<1>4. Finite /\ Finite'
  BY FiniteDebts, FiniteDebtsNext
<1> HIDE DEF n
<1>5. AllJobs' = AllJobs
  BY <1>1, <1>2 DEF AllJobs
<1>6. Owes' = Owes \cup {t}
  BY <1>1 DEF Owes, OwingSteps
<1>7. Unheld' = Unheld
  BY <1>1, <1>3, Numbered DEF Unheld, Nobody
<1>8. Due \cup {n} \subseteq Due'
  <2>1. ASSUME NEW d \in Due
        PROVE  d \in Due'
    <3>1. d \in DOMAIN deliveries /\ deliveries'[d] = deliveries[d]
      BY <1>1, <2>1 DEF Due
    <3>2. ASSUME NEW u \in Owes, threads[u].del = d
          PROVE  u \in Owes' /\ threads'[u].del = d
      BY <1>1, <1>3, <1>6, <3>2 DEF Owes, Nobody, OwingSteps
    <3> QED
      BY <1>1, <1>7, <3>1, <3>2 DEF Due
  <2>2. n \in Due'
    BY <1>1, <1>6 DEF Due
  <2> QED
    BY <2>1, <2>2
<1>9. n \notin Due
  BY <1>1 DEF Due
<1>10. Cardinality(Due) + 1 <= Cardinality(Due')
  <2>1. Due \subseteq Due' \ {n} /\ n \in Due'
    BY <1>8, <1>9
  <2> QED
    BY <1>4, <2>1, OneLess DEF Finite
<1>11. Cardinality(Owes') <= Cardinality(Owes) + 1
  BY <1>4, <1>6, OneMore DEF Finite
<1>12. Cardinality(AllJobs') + Cardinality(Owes') + Cardinality(Unheld') + Cardinality(Due)
          <= Cardinality(AllJobs) + Cardinality(Owes) + Cardinality(Unheld) + Cardinality(Due') + 0
  BY <1>4, <1>5, <1>7, <1>10, <1>11 DEF Finite
<1>13. dups + faults + 0 <= dups' + faults'
  BY <1>3, <1>4 DEF Finite
<1> QED
  BY <1>3, <1>12, <1>13, Balance

\* A message is handed out: its debt moves to the goroutine, or is paid for.
LEMMA PullPaid ==
    ASSUME IntakeTypes, IntakeTypes', DebtsPaid,
           NEW t \in Threads, NEW d \in topic, Pull(t, d)
    PROVE  DebtsPaid'
<1>1. /\ d \in DOMAIN deliveries
      /\ threads'[t].at = "lookup"
      /\ threads'[t].del = d
      /\ ~ threads'[t].http
      /\ \A u \in Threads : u # t => threads'[u] = threads[u]
  BY PullMoves
<1>2. /\ threads[t] = Nobody
      /\ UNCHANGED <<deliveries, topic, faults, crashes>>
  BY DEF Pull, budgetVars
<1>3. Finite /\ Finite'
  BY FiniteDebts, FiniteDebtsNext
<1>4. AllJobs' = AllJobs
  BY <1>2 DEF AllJobs
<1>5. Owes' = Owes \cup {t}
  BY <1>1 DEF Owes, OwingSteps
<1>6. Unheld' = Unheld \ {d}
  BY <1>1, <1>2, Numbered DEF Unheld, Nobody
<1>7. Due \subseteq Due'
  <2> SUFFICES ASSUME NEW x \in Due PROVE x \in Due'
    OBVIOUS
  <2>1. CASE x = d
    BY <1>1, <1>2, <1>5, <2>1 DEF Due
  <2>2. CASE x # d
    <3>1. ASSUME NEW u \in Owes, threads[u].del = x
          PROVE  u \in Owes' /\ threads'[u].del = x
      BY <1>1, <1>2, <1>5, <3>1 DEF Owes, Nobody, OwingSteps
    <3> QED
      BY <1>2, <1>6, <2>2, <3>1 DEF Due
  <2> QED
    BY <2>1, <2>2
<1>8. Cardinality(Due) <= Cardinality(Due') /\ Cardinality(Owes') <= Cardinality(Owes) + 1
  BY <1>3, <1>5, <1>7, OneMore, FS_Subset DEF Finite
<1>9. CASE \A u \in Threads : threads[u].del # d
  <2>1. d \in Unheld
    BY <1>9 DEF Unheld
  <2>2. Cardinality(Unheld') + 1 <= Cardinality(Unheld)
    BY <1>3, <1>6, <2>1, OneLess DEF Finite
  <2>3. dups + faults + 0 <= dups' + faults'
    <3>1. dups' = dups \/ dups' = dups + 1
      BY DEF Pull
    <3> QED
      BY <1>2, <1>3, <3>1 DEF Finite
  <2>4. Cardinality(AllJobs') + Cardinality(Owes') + Cardinality(Unheld') + Cardinality(Due)
          <= Cardinality(AllJobs) + Cardinality(Owes) + Cardinality(Unheld) + Cardinality(Due') + 0
    BY <1>3, <1>4, <1>8, <2>2 DEF Finite
  <2> QED
    BY <1>2, <2>3, <2>4, Balance
<1>10. CASE dups' = dups + 1
  <2>1. Cardinality(Unheld') <= Cardinality(Unheld)
    BY <1>3, <1>6, FS_Subset DEF Finite
  <2>2. dups + faults + 1 <= dups' + faults'
    BY <1>2, <1>3, <1>10 DEF Finite
  <2>3. Cardinality(AllJobs') + Cardinality(Owes') + Cardinality(Unheld') + Cardinality(Due)
          <= Cardinality(AllJobs) + Cardinality(Owes) + Cardinality(Unheld) + Cardinality(Due') + 1
    BY <1>3, <1>4, <1>8, <2>1 DEF Finite
  <2> QED
    BY <1>2, <2>2, <2>3, Balance
<1> QED
  BY <1>9, <1>10 DEF Pull

LEMMA IntakeNextPaid ==
    ASSUME IntakeTypes, DebtsPaid, [IntakeNext]_intakeAll
    PROVE  DebtsPaid'
<1>1. IntakeTypes'
  BY IntakeNextTypes
<1>2. CASE IntakeCrash
  BY <1>1, <1>2, DropPaid DEF IntakeCrash
<1>3. CASE UNCHANGED intakeAll \/ \E r \in Repos : SaveSwitches(r) \/ PurgeRepo(r)
  <2>1. UNCHANGED <<threads, deliveries, topic, dups, faults, crashes>>
    BY <1>3 DEF SaveSwitches, PurgeRepo, intakeAll, intakeVars, budgetVars
  <2> QED
    BY <2>1 DEF DebtsPaid, AllJobs, Owes, Unheld, Due
<1> QED
  BY <1>1, <1>2, <1>3, IntakeStepPaid, ReceivePaid, PullPaid DEF IntakeNext

\* When all debts are paid, extra jobs are.
LEMMA PaidAccounts == IntakeTypes /\ DebtsPaid => ExtraJobsAccounted
<1> SUFFICES ASSUME IntakeTypes, DebtsPaid PROVE ExtraJobsAccounted
  OBVIOUS
<1> DEFINE served == {d \in DOMAIN deliveries : deliveries[d].jobs # {}}
           owed   == {d \in Due : \E t \in Owes : threads[t].del = d}
           del    == [t \in Threads |-> threads[t].del]
           c      == crashes * Cardinality(Threads)
<1>1. Finite
  BY FiniteDebts
<1>2. Due \subseteq (served \cup Unheld) \cup owed /\ served \subseteq Due
  BY DEF Due
<1>3. Cardinality(owed) <= Cardinality(Owes) /\ Cardinality(owed) \in Nat /\ IsFiniteSet(owed)
  <2>1. \A y \in owed : \E t \in Owes : del[t] = y
    BY DEF Owes
  <2> HIDE DEF owed, del
  <2> QED
    BY <1>1, <2>1, NoMoreValues DEF Finite
<1>4. ExtraJobsAccounted <=> Cardinality(AllJobs) <= Cardinality(served) + dups + faults + c
  BY DEF ExtraJobsAccounted, AllJobs
<1>5. c \in Nat
  BY <1>1 DEF Finite
<1>6. Cardinality(AllJobs) + Cardinality(Owes) + Cardinality(Unheld)
          <= Cardinality(Due) + dups + faults + c
  BY DEF DebtsPaid
<1> HIDE DEF served, owed, c
<1>7. IsFiniteSet(served) /\ Cardinality(served) \in Nat
  BY <1>1, <1>2, FS_Subset, FS_CardinalityType DEF Finite
<1>8. /\ IsFiniteSet(served \cup Unheld)
      /\ Cardinality(served \cup Unheld) \in Nat
      /\ Cardinality(served \cup Unheld) <= Cardinality(served) + Cardinality(Unheld)
  BY <1>1, <1>7, UnionBound DEF Finite
<1>9. /\ IsFiniteSet((served \cup Unheld) \cup owed)
      /\ Cardinality((served \cup Unheld) \cup owed) \in Nat
      /\ Cardinality((served \cup Unheld) \cup owed)
             <= Cardinality(served \cup Unheld) + Cardinality(owed)
  BY <1>3, <1>8, UnionBound
<1>10. Cardinality(Due) <= Cardinality((served \cup Unheld) \cup owed)
  BY <1>2, <1>9, FS_Subset
<1>11. Cardinality(Due) <= Cardinality(served) + Cardinality(Unheld) + Cardinality(Owes)
  BY <1>1, <1>3, <1>7, <1>8, <1>9, <1>10 DEF Finite
<1> QED
  BY <1>1, <1>4, <1>5, <1>6, <1>7, <1>11 DEF Finite

LEMMA InitPaid == IntakeInit => DebtsPaid
<1> SUFFICES ASSUME IntakeInit PROVE DebtsPaid
  OBVIOUS
<1>1. Finite
  BY IntakeInitTypes, FiniteDebts
<1>2. DOMAIN deliveries = {} /\ topic = {}
  BY EmptySeq, LenProperties DEF IntakeInit
<1>3. AllJobs = {} /\ Owes = {} /\ Unheld = {}
  BY <1>2 DEF IntakeInit, AllJobs, Owes, Unheld, Nobody, OwingSteps
<1>4. Cardinality(AllJobs) = 0 /\ Cardinality(Owes) = 0 /\ Cardinality(Unheld) = 0
  BY <1>3, FS_EmptySet
<1>5. crashes * Cardinality(Threads) \in Nat
  BY <1>1 DEF Finite
<1> QED
  BY <1>1, <1>4, <1>5 DEF Finite, DebtsPaid

\* The intake's state is well typed, and a delivery gets no more jobs than
\* messages handed out twice, failed statements and deaths can explain.
THEOREM IntakeIsAccounted == IntakeSpec => []IntakeInv
<1>1. IntakeTypes /\ DebtsPaid /\ [IntakeNext]_intakeAll => DebtsPaid'
  BY IntakeNextPaid
<1>2. IntakeTypes /\ DebtsPaid => IntakeInv
  BY PaidAccounts DEF IntakeInv, IntakeTypes
<1> QED
  BY <1>1, <1>2, InitPaid, IntakeTypeCorrect, PTL DEF IntakeSpec, intakeAll
-----------------------------------------------------------------------------
(***************************************************************************)
(* Deliveries and their pull requests.                                     *)
(***************************************************************************)
(* Types and claims: both halves keep them, whoever moves. *)

SystemTypes == WorkerTypeOK /\ IntakeTypes /\ ExclusiveRun

\* The half that does not move keeps its types.
LEMMA WorkerSideTypes ==
    ASSUME WorkerTypeOK, DBTypeOK', UNCHANGED <<ghVars, workVars>>
    PROVE  WorkerTypeOK'
BY DEF WorkerTypeOK, ghVars, workVars

LEMMA IntakeSideTypes ==
    ASSUME IntakeTypes, DBTypeOK', UNCHANGED intakeVars
    PROVE  IntakeTypes'
BY DEF IntakeTypes, IntakeTypeOK, InHand, intakeVars

LEMMA TypesOfDB == (WorkerTypeOK => DBTypeOK) /\ (IntakeTypes => DBTypeOK)
BY DEF WorkerTypeOK, IntakeTypes, IntakeTypeOK

LEMMA TypesOfDBNext == (WorkerTypeOK' => DBTypeOK') /\ (IntakeTypes' => DBTypeOK')
BY DEF WorkerTypeOK, IntakeTypes, IntakeTypeOK

\* The rows that an intake step may write: at most one, taken from the unused.
IntakeRows == \/ jobs' = jobs
              \/ \E t \in Threads, j \in JobIds :
                     CreateJobWithBranch(j, RepoOf(t), TriggerOf(EventOf(t)), threads[t].branch)

LEMMA IntakeWrites ==
    ASSUME NEW t \in Threads, IntakeStep(t) \/ (\E d \in topic : Pull(t, d))
                                 \/ (\E e \in Events : Receive(t, e))
    PROVE  IntakeRows
BY DEF IntakeRows, IntakeStep, Process, Publish, PublishFails, Ignore, LookupFails, AcceptPush,
   AcceptComment, ReadSettings, WriteSettings, CreateJob, InsertFails, Undecodable, ReadBack, ReadBackPanics,
   Finish, Pull, Receive, dbVars

LEMMA IntakeExclusive ==
    ASSUME WorkerTypeOK, ExclusiveRun, IntakeRows, UNCHANGED workVars
    PROVE  ExclusiveRun'
<1>1. KeepsJobs
  BY DEF workVars, KeepsJobs, Busy
<1>2. KeepsHeld
  <2>1. CASE jobs' = jobs
    BY <2>1 DEF KeepsHeld
  <2>2. ASSUME NEW t \in Threads, NEW j \in JobIds,
               CreateJobWithBranch(j, RepoOf(t), TriggerOf(EventOf(t)), threads[t].branch)
        PROVE  KeepsHeld
    BY <2>2, CreateKeepsHeld
  <2> QED
    BY <2>1, <2>2 DEF IntakeRows
<1> QED
  BY <1>1, <1>2, KeepsExclusive

\* The death of the server, for both halves.
LEMMA CrashTypes ==
    ASSUME SystemTypes, NEW w \in Workers, ServerCrash(w)
    PROVE  SystemTypes'
<1>1. Crash(w) /\ DropThreads
  BY DEF ServerCrash
<1>2. WorkerTypeOK'
  <2>1. [Next]_workerVars
    BY <1>1 DEF Next
  <2> QED
    BY <2>1, NextTypes DEF SystemTypes
<1>3. ExclusiveRun'
  BY <1>1, CrashExclusive DEF SystemTypes
<1>4. IntakeTypes'
  BY <1>1, <1>2, TypesOfDBNext, DropTypes DEF SystemTypes
<1> QED
  BY <1>2, <1>3, <1>4 DEF SystemTypes

LEMMA SystemNextTypes ==
    ASSUME SystemTypes, [SystemNext]_systemVars
    PROVE  SystemTypes'
<1>1. ASSUME Next, UNCHANGED intakeVars
      PROVE  SystemTypes'
  BY <1>1, NextTypes, NextExclusive, TypesOfDBNext, IntakeSideTypes DEF SystemTypes
<1>2. ASSUME NEW w \in Workers, ServerCrash(w)
      PROVE  SystemTypes'
  BY <1>2, CrashTypes
<1>3. ASSUME NEW t \in Threads, Intake(t) \/ (\E e \in Events : Deliver(t, e))
      PROVE  SystemTypes'
  <2>1. IntakeTypes' /\ IntakeRows
    BY <1>3, IntakeStepTypes, PullTypes, ReceiveTypes, IntakeWrites DEF Intake, Deliver, SystemTypes
  <2>2. UNCHANGED <<ghVars, workVars>>
    BY <1>3 DEF Intake, Deliver
  <2> QED
    BY <2>1, <2>2, TypesOfDBNext, WorkerSideTypes, IntakeExclusive DEF SystemTypes
<1>4. CASE UNCHANGED systemVars
  <2>1. UNCHANGED workerVars /\ UNCHANGED intakeVars
    BY <1>4 DEF systemVars
  <2> QED
    BY <2>1, NextTypes, NextExclusive, TypesOfDBNext, IntakeSideTypes DEF SystemTypes
<1> QED
  BY <1>1, <1>2, <1>3, <1>4 DEF SystemNext, Next

LEMMA SystemInitTypes == Init => SystemTypes
<1>1. WorkerInit => ExclusiveRun
  BY DEF WorkerInit, ExclusiveRun, Busy
<1> QED
  BY <1>1, InitTypes, IntakeInitTypes DEF Init, SystemTypes

LEMMA SystemTypeCorrect == SystemSpec => []SystemTypes
BY SystemInitTypes, SystemNextTypes, PTL DEF SystemSpec
-----------------------------------------------------------------------------
(* What a goroutine knows that is about to insert the job of a push: it has    *)
(* read no comment, and the branch it holds is the one that was pushed.        *)

Aimed == \A t \in Threads :
    /\ threads[t].at \in {"read", "write"} => EventOf(t).kind = "comment"
    /\ threads[t].at = "create" /\ EventOf(t).kind = "push" =>
           threads[t].branch = EventOf(t).branch

\* What one step of a goroutine leaves of that.
AimedAt(t) ==
    /\ threads[t].at \in {"read", "write"} => EventOf(t).kind = "comment"
    /\ threads[t].at = "create" /\ EventOf(t).kind = "push" =>
           threads[t].branch = EventOf(t).branch

LEMMA OthersAimed ==
    ASSUME IntakeTypes, Aimed, [IntakeNext]_intakeAll, NEW u \in Threads, threads'[u] = threads[u]
    PROVE  AimedAt(u)'
<1>1. CASE threads[u].at = "free"
  BY <1>1 DEF AimedAt
<1>2. CASE threads[u].at # "free"
  <2>1. threads[u].del \in DOMAIN deliveries
    BY <1>2 DEF IntakeTypes, InHand
  <2>2. EventOf(u)' = EventOf(u)
    BY <2>1, DeliveriesKept DEF EventOf
  <2> QED
    BY <2>2 DEF Aimed, AimedAt
<1> QED
  BY <1>1, <1>2

\* A step that leaves goroutine t elsewhere, or where it may be.
LEMMA BecomesAimed ==
    ASSUME IntakeTypes, Aimed, [IntakeNext]_intakeAll, NEW t \in Threads, threads[t].at # "free",
           NEW g, NEW e, Becomes(t, g, e),
           g.at \in {"read", "write", "create"} => g.del = threads[t].del,
           g.at \in {"read", "write"} => EventOf(t).kind = "comment",
           g.at = "create" /\ EventOf(t).kind = "push" =>
               g.branch = EventOf(t).branch
    PROVE  Aimed'
<1>1. \A u \in Threads : u # t => AimedAt(u)'
  BY OthersAimed DEF Becomes
<1>2. AimedAt(t)'
  <2>1. threads'[t] = g
    BY DEF Becomes
  <2>2. CASE g.at \in {"read", "write", "create"}
    <3>1. threads[t].del \in DOMAIN deliveries
      BY DEF IntakeTypes, InHand
    <3>2. EventOf(t)' = EventOf(t)
      BY <2>1, <2>2, <3>1, DeliveriesKept DEF EventOf
    <3> QED
      BY <2>1, <3>2 DEF AimedAt
  <2>3. CASE g.at \notin {"read", "write", "create"}
    BY <2>1, <2>3 DEF AimedAt
  <2> QED
    BY <2>2, <2>3
<1> QED
  BY <1>1, <1>2 DEF Aimed, AimedAt

LEMMA DropAimed == IntakeTypes /\ DropThreads => Aimed'
BY DropMoves DEF Aimed, Nobody

LEMMA IntakeStepAims ==
    ASSUME IntakeTypes, Aimed, NEW t \in Threads, IntakeStep(t)
    PROVE  Aimed'
<1>0. [IntakeNext]_intakeAll
  BY DEF IntakeNext
<1>1. ASSUME threads[t].at # "free", NEW e, Becomes(t, Nobody, e)
      PROVE  Aimed'
  BY <1>0, <1>1, BecomesAimed DEF Nobody
<1>2. ASSUME threads[t].at # "free", NEW e, NEW step \in {"lookup", "ok", "bad"},
             Becomes(t, Goes(t, step), e)
      PROVE  Aimed'
  BY <1>0, <1>2, GoesTypes, BecomesAimed
<1>3. ASSUME threads[t].at \in {"read", "write"}, Becomes(t, Goes(t, "create"), Mine(t))
      PROVE  Aimed'
  <2>1. EventOf(t).kind = "comment"
    BY <1>3 DEF Aimed
  <2> QED
    BY <1>0, <1>3, <2>1, GoesTypes, BecomesAimed
<1>4. CASE Publish(t) \/ PublishFails(t) \/ Ignore(t) \/ LookupFails(t)
  BY <1>1, <1>2, <1>4, PublishMoves, PublishFailsMoves, IgnoreMoves, LookupFailsMoves
  DEF Publish, PublishFails, Ignore, LookupFails
<1>5. CASE AcceptPush(t)
  <2> DEFINE g == [Goes(t, "create") EXCEPT !.branch = EventOf(t).branch]
  <2>1. threads[t].at = "lookup" /\ deliveries' = deliveries
    BY <1>5 DEF AcceptPush
  <2>2. EventOf(t).branch \in Branches /\ EventOf(t).kind = "push"
    BY <1>5, <2>1, EventTypes DEF AcceptPush
  <2>3. g \in Goroutine /\ g.at = "create" /\ g.branch = EventOf(t).branch /\ g.del = threads[t].del
    BY <2>2, GoesTypes DEF Goroutine
  <2>4. threads' = [threads EXCEPT ![t] = g]
    BY <1>5 DEF AcceptPush, Goes
  <2>5. Becomes(t, g, Mine(t))
    BY <2>1, <2>3, <2>4, BecomesAlone
  <2> HIDE DEF g
  <2> QED
    BY <1>0, <2>1, <2>3, <2>5, BecomesAimed
<1>6. CASE AcceptComment(t)
  <2>1. PICK step \in {"read", "create"}, b \in Branches :
            Becomes(t, [Goes(t, step) EXCEPT !.branch = b], Mine(t))
    BY <1>6, AcceptMoves
  <2>2. threads[t].at # "free" /\ EventOf(t).kind = "comment"
    BY <1>6 DEF AcceptComment
  <2>3. [Goes(t, step) EXCEPT !.branch = b].del = threads[t].del
    BY GoesTypes DEF Goroutine
  <2> QED
    BY <1>0, <2>1, <2>2, <2>3, BecomesAimed
<1>7. CASE ReadSettings(t)
  <2> DEFINE W == [Goes(t, "write") EXCEPT !.seen = switch[RepoOf(t)],
                                           !.ver = repos[RepoOf(t)].ver]
  <2>1. threads[t].at = "read" /\ EventOf(t).kind = "comment"
    BY <1>7 DEF ReadSettings, Aimed
  <2>2. W.at = "write" /\ W.del = threads[t].del
    BY GoesTypes DEF Goroutine
  <2>3. Becomes(t, W, Mine(t)) \/ Becomes(t, Goes(t, "create"), Mine(t))
    BY <1>7, ReadSettingsMoves
  <2> HIDE DEF W
  <2> QED
    BY <1>0, <1>3, <2>1, <2>2, <2>3, BecomesAimed
<1>8. CASE WriteSettings(t)
  BY <1>3, <1>8, WriteSettingsMoves DEF WriteSettings
<1>9. CASE CreateJob(t)
  <2>1. PICK j \in JobIds :
           Becomes(t, [Goes(t, "readback") EXCEPT !.job = j],
                   [Mine(t) EXCEPT !.jobs = @ \cup {j}])
    BY <1>9, CreateJobMoves DEF CreateJob
  <2>2. [Goes(t, "readback") EXCEPT !.job = j].at = "readback"
    BY GoesTypes DEF Goroutine
  <2>3. threads[t].at # "free"
    BY <1>9 DEF CreateJob
  <2> QED
    BY <1>0, <2>1, <2>2, <2>3, BecomesAimed
<1>10. CASE InsertFails(t) \/ Undecodable(t) \/ ReadBack(t)
  BY <1>2, <1>10, FailsMoves, ReadBackMoves DEF InsertFails, Undecodable, ReadBack
<1>11. CASE ReadBackPanics(t)
  BY <1>1, <1>11, DropAimed, PanicMoves DEF ReadBackPanics
<1>12. CASE Finish(t)
  BY <1>1, <1>12, FinishMoves DEF Finish
<1> QED
  BY <1>4, <1>5, <1>6, <1>7, <1>8, <1>9, <1>10, <1>11, <1>12 DEF IntakeStep, Process

\* A delivery gets a job only from a goroutine that is about to insert one for it.
LEMMA JobsAdded ==
    ASSUME IntakeTypes, NEW t \in Threads, IntakeStep(t), NEW d \in DOMAIN deliveries,
           deliveries'[d].jobs # deliveries[d].jobs
    PROVE  /\ threads[t].at = "create"
           /\ threads[t].del = d
           /\ \E j \in JobIds :
                  /\ CreateJobWithBranch(j, RepoOf(t), TriggerOf(EventOf(t)), threads[t].branch)
                  /\ deliveries'[d].jobs = deliveries[d].jobs \cup {j}
<1>0. ~ DropThreads
  BY DropMoves
<1>1. ASSUME NEW g, NEW e, Becomes(t, g, e), threads[t].at # "free", e.jobs = Mine(t).jobs
      PROVE  FALSE
  BY <1>1 DEF Becomes, Mine
<1>2. CASE CreateJob(t)
  <2>1. PICK j \in JobIds :
           /\ CreateJobWithBranch(j, RepoOf(t), TriggerOf(EventOf(t)), threads[t].branch)
           /\ Becomes(t, [Goes(t, "readback") EXCEPT !.job = j],
                      [Mine(t) EXCEPT !.jobs = @ \cup {j}])
    BY <1>2, CreateJobMoves DEF CreateJob
  <2>2. threads[t].at = "create" /\ Mine(t) \in Delivery
    BY <1>2, MineChanged DEF CreateJob
  <2>3. [Mine(t) EXCEPT !.jobs = @ \cup {j}].jobs = Mine(t).jobs \cup {j}
    BY <2>2 DEF Delivery
  <2> QED
    BY <2>1, <2>2, <2>3 DEF Becomes, Mine
<1>3. CASE ~ CreateJob(t)
  <2>1. threads[t].at # "free"
    BY <1>0, StepBecomes
  <2>2. Mine(t) \in Delivery
    BY <2>1, MineChanged
  <2>3. /\ [Mine(t) EXCEPT !.ignored = TRUE].jobs = Mine(t).jobs
        /\ [Mine(t) EXCEPT !.blind = TRUE].jobs = Mine(t).jobs
        /\ \A a \in {"queued", "done", "error", "lost"} :
               [Mine(t) EXCEPT !.reply = a].jobs = Mine(t).jobs
    BY <2>2 DEF Delivery
  <2>4. CASE Publish(t) \/ PublishFails(t) \/ Ignore(t) \/ LookupFails(t)
    BY <1>1, <2>1, <2>3, <2>4, PublishMoves, PublishFailsMoves, IgnoreMoves, LookupFailsMoves
  <2>5. CASE WriteSettings(t) \/ InsertFails(t) \/ Undecodable(t) \/ ReadBack(t)
    BY <1>1, <2>1, <2>5, WriteSettingsMoves, FailsMoves, ReadBackMoves
  <2>6. CASE ReadSettings(t)
    BY <1>1, <2>1, <2>6, ReadSettingsMoves
  <2>7. CASE AcceptPush(t) \/ AcceptComment(t)
    BY <1>1, <2>1, <2>7, AcceptMoves
  <2>8. CASE Finish(t)
    BY <1>1, <2>1, <2>3, <2>8, FinishMoves
  <2>9. CASE ReadBackPanics(t)
    BY <1>0, <1>1, <2>1, <2>3, <2>9, PanicMoves DEF ReadBackPanics
  <2> QED
    BY <1>3, <2>4, <2>5, <2>6, <2>7, <2>8, <2>9 DEF IntakeStep, Process
<1> QED
  BY <1>2, <1>3

\* A step of the system is one of the intake, which neither GitHub nor a
\* worker sees, or one of the other half, with the intake alone or dead.
Handles(t) ==
    /\ \/ IntakeStep(t)
       \/ \E d \in topic : Pull(t, d)
       \/ \E e \in Events : Receive(t, e)
    /\ UNCHANGED <<ghVars, workVars>>

LEMMA SystemSides ==
    ASSUME [SystemNext]_systemVars
    PROVE  \/ \E t \in Threads : Handles(t)
           \/ [Next]_workerVars /\ (UNCHANGED intakeVars \/ DropThreads)
<1>1. ASSUME NEW w \in Workers, ServerCrash(w)
      PROVE  Next /\ DropThreads
  BY <1>1 DEF ServerCrash, Next
<1>2. CASE UNCHANGED systemVars
  BY <1>2 DEF systemVars
<1> QED
  BY <1>1, <1>2 DEF SystemNext, Next, Intake, Deliver, Handles

LEMMA SystemNextAims ==
    ASSUME IntakeTypes, Aimed, [SystemNext]_systemVars
    PROVE  Aimed'
<1>1. ASSUME NEW t \in Threads, IntakeStep(t)
      PROVE  Aimed'
  BY <1>1, IntakeStepAims
<1>2. ASSUME NEW t \in Threads, [IntakeNext]_intakeAll,
             threads'[t].at \notin {"read", "write", "create"},
             \A u \in Threads : u # t => threads'[u] = threads[u]
      PROVE  Aimed'
  <2>1. \A u \in Threads : u # t => AimedAt(u)'
    BY <1>2, OthersAimed
  <2>2. AimedAt(t)'
    BY <1>2 DEF AimedAt
  <2> QED
    BY <2>1, <2>2 DEF Aimed, AimedAt
<1>3. ASSUME NEW t \in Threads, NEW d \in topic, Pull(t, d)
      PROVE  Aimed'
  <2>1. [IntakeNext]_intakeAll
    BY <1>3 DEF IntakeNext
  <2> QED
    BY <1>2, <1>3, <2>1, PullMoves
<1>4. ASSUME NEW t \in Threads, NEW e \in Events, Receive(t, e)
      PROVE  Aimed'
  <2>1. [IntakeNext]_intakeAll
    BY <1>4 DEF IntakeNext
  <2>2. threads'[t].at \in {"publish", "lookup"} /\ \A u \in Threads : u # t => threads'[u] = threads[u]
    BY <1>4, ReceiveMoves
  <2> QED
    BY <1>2, <2>1, <2>2
<1>5. CASE UNCHANGED intakeVars
  BY <1>5 DEF intakeVars, Aimed, EventOf
<1> QED
  BY <1>1, <1>3, <1>4, <1>5, SystemSides, DropAimed DEF Handles

\* Where the jobs of a delivery come from, after a step of the system.
Inserts(d) == \E t \in Threads, j \in JobIds :
    /\ threads[t].at = "create" /\ threads[t].del = d
    /\ CreateJobWithBranch(j, RepoOf(t), TriggerOf(EventOf(t)), threads[t].branch)
    /\ deliveries'[d].jobs = deliveries[d].jobs \cup {j}
    /\ UNCHANGED <<ghVars, workVars>>

LEMMA JobsFrom ==
    ASSUME IntakeTypes, [SystemNext]_systemVars, NEW d \in DOMAIN deliveries',
           deliveries'[d].jobs # {}
    PROVE  /\ d \in DOMAIN deliveries
           /\ deliveries'[d].event = deliveries[d].event
           /\ deliveries'[d].jobs = deliveries[d].jobs \/ Inserts(d)
<1>1. ASSUME NEW t \in Threads, IntakeStep(t), UNCHANGED <<ghVars, workVars>>
      PROVE  /\ d \in DOMAIN deliveries
             /\ deliveries'[d].event = deliveries[d].event
             /\ deliveries'[d].jobs = deliveries[d].jobs \/ Inserts(d)
  <2>1. d \in DOMAIN deliveries
    BY <1>1, StepBecomes, DropMoves DEF Becomes
  <2>2. [IntakeNext]_intakeAll
    BY <1>1 DEF IntakeNext
  <2>3. deliveries'[d].event = deliveries[d].event
    BY <2>1, <2>2, DeliveriesKept
  <2> QED
    BY <1>1, <2>1, <2>3, JobsAdded DEF Inserts
<1>2. ASSUME NEW t \in Threads, NEW e \in Events, Receive(t, e)
      PROVE  d \in DOMAIN deliveries /\ deliveries'[d] = deliveries[d]
  <2> DEFINE n == Len(deliveries) + 1
             new == [event |-> e, jobs |-> {}, ignored |-> FALSE, blind |-> FALSE,
                     reply |-> "waiting"]
  <2>1. /\ DOMAIN deliveries' = DOMAIN deliveries \cup {n}
        /\ deliveries'[n] = new
        /\ \A i \in DOMAIN deliveries : deliveries'[i] = deliveries[i]
    BY <1>2, ReceiveMoves
  <2>2. new.jobs = {}
    OBVIOUS
  <2> HIDE DEF n, new
  <2> QED
    BY <2>1, <2>2
<1>3. CASE deliveries' = deliveries
  BY <1>3
<1> QED
  BY <1>1, <1>2, <1>3, SystemSides, DropMoves DEF Handles, Pull, intakeVars

LEMMA SystemInitAims == Init => Aimed
BY DEF Init, IntakeInit, Aimed, Nobody

-----------------------------------------------------------------------------
(* The pull request of a push goes to the branch that was pushed: the branch   *)
(* stays with the job through its row and the memory of its worker, and the    *)
(* commit that the worker read is one the branch had.                          *)

\* The steps after the base branch was resolved.
Based == {"resolved"} \cup Fetched

\* Job j is on its way to branch b, wherever it is.
Heads(j, b) ==
    /\ jobs[j].status # "none"
    /\ jobs[j].status = "pending" => jobs[j].branch = b
    /\ \A w \in Workers : Busy(w) /\ wk[w].job = j =>
          /\ wk[w].branch = b
          /\ pc[w] \in Based => wk[w].base = b
    /\ \A p \in prs : p.job = j => p.base = b

\* The jobs of a push are on their way to its branch.
PushesHead ==
    \A d \in DOMAIN deliveries : deliveries[d].event.kind = "push" =>
        \A j \in deliveries[d].jobs : Heads(j, deliveries[d].event.branch)

\* What was read from a branch is no newer than the branch.
ReadInv ==
    /\ \A w \in Workers : pc[w] \in Fetched => wk[w].sha <= head[wk[w].repo][wk[w].base]
    /\ \A p \in prs : p.sha <= head[p.repo][p.base] /\ jobs[p.job].status # "none"

\* No row goes back to the queue, and one that waits there stays as it is.
LEMMA RowsKept ==
    ASSUME WorkerTypeOK, [Next]_workerVars, NEW j \in JobIds, jobs[j].status # "none"
    PROVE  /\ jobs'[j].status # "none"
           /\ jobs'[j].status = "pending" => jobs'[j] = jobs[j]
<1>1. ASSUME NEW i \in JobIds, ClaimNextPendingJob(i)
      PROVE  /\ jobs'[j].status # "none"
             /\ jobs'[j].status = "pending" => jobs'[j] = jobs[j]
  BY <1>1 DEF ClaimNextPendingJob, WorkerTypeOK, DBTypeOK, JobRow
<1>2. CASE \E w \in Workers : Records(w)
  <2>1. PICK w \in Workers : Records(w)
    BY <1>2
  <2>2. PICK job \in JobIds : job = wk[w].job
    BY BusyJob
  <2>3. PICK status \in Terminal : Ended(job, status)
    BY <2>1, <2>2, RecordsRow
  <2> QED
    BY <2>3, EndedRow DEF Terminal, Success
<1>3. CASE \E r \in Repos : QueueJob(r)
  <2>1. PICK i \in JobIds : \E r, trigger, b : CreateJobWithBranch(i, r, trigger, b)
    BY <1>3 DEF QueueJob, TriggerJob, WebhookJob
  <2> QED
    BY <2>1 DEF CreateJobWithBranch, WorkerTypeOK, DBTypeOK
<1>4. CASE \E r \in Repos : Reset(r) \/ Delete(r)
  BY <1>4 DEF Reset, Delete, ResetRepoData, DeleteRepo, PurgeRows, Blank
<1>5. CASE jobs' = jobs
  BY <1>5
<1>6. CASE \E w \in Workers : WorkerStep(w)
  BY <1>1, <1>2, <1>5, <1>6, WorkerSteps, SilentTables DEF Claim, ClaimUnread, SaveResult, dbVars
<1>7. CASE \E r \in Repos : Api(r)
  BY <1>3, <1>4, <1>5, <1>7 DEF Api, SaveSettings, EditCell
<1> QED
  BY <1>5, <1>6, <1>7 DEF Next, Crash, StrayPush, DevPush, workerVars, dbVars

\* A busy worker has claimed its job now, or goes on with it.
LEMMA WorkerHeads ==
    ASSUME WorkerTypeOK, NEW w \in Workers, WorkerStep(w) \/ Crash(w), Busy(w)'
    PROVE  \/ /\ wk'[w].job \in JobIds
              /\ jobs[wk'[w].job].status = "pending"
              /\ wk'[w].branch = jobs[wk'[w].job].branch
              /\ pc'[w] = "claimed"
           \/ /\ Busy(w) /\ wk'[w].job = wk[w].job /\ wk'[w].branch = wk[w].branch
              /\ pc'[w] \in Based =>
                    \/ pc[w] \in Based /\ wk'[w].base = wk[w].base
                    \/ wk'[w].base = IF wk[w].branch = NoBranch THEN DefaultBranch
                                     ELSE wk[w].branch
              /\ pc'[w] \in Fetched =>
                    /\ wk'[w].repo = wk[w].repo /\ wk'[w].base = wk[w].base
                    /\ \/ pc[w] \in Fetched /\ wk'[w].sha = wk[w].sha
                       \/ wk'[w].sha = head[wk[w].repo][wk[w].base]
<1>1. CASE Claim(w)
  <2>1. PICK j \in JobIds :
           /\ ClaimNextPendingJob(j) /\ Goto(w, "claimed")
           /\ wk' = [wk EXCEPT ![w] = [NoLocals EXCEPT !.job = j, !.repo = jobs[j].repo,
                                                       !.trigger = jobs[j].trigger,
                                                       !.branch = jobs[j].branch]]
    BY <1>1 DEF Claim
  <2>2. wk'[w].job = j /\ wk'[w].branch = jobs[j].branch
    BY <2>1 DEF NoLocals, WorkerTypeOK
  <2> QED
    BY <2>1, <2>2 DEF ClaimNextPendingJob, IsNextPending, Goto, WorkerTypeOK
<1>2. CASE ClaimUnread(w)
  BY <1>2 DEF ClaimUnread, workVars, Busy
<1>3. CASE Records(w) \/ Crash(w) \/ GiveUp(w)
  BY <1>3, RecordsRow DEF Crash, GiveUp, Leave, Goto, Busy, WorkerTypeOK
<1>4. CASE BoxStep(w)
  BY <1>4 DEF BoxStep, BoxBranch, BoxPush, BoxFails, BoxReport, BoxDone, BoxDies, BoxTimeout,
     Running, Exit, Goto, Busy, Based, Fetched, WorkerTypeOK, Locals
<1>5. CASE Resolve(w)
  BY <1>5 DEF Resolve, Goto, Busy, Based, Fetched, WorkerTypeOK, Locals
<1>6. CASE FetchMirror(w)
  BY <1>6 DEF FetchMirror, Goto, Busy, Based, Fetched, WorkerTypeOK, Locals
<1>7. CASE Clone(w) \/ CreatePullRequest(w) \/ CreateFails(w) \/ Annotate(w)
  BY <1>7 DEF Clone, CreatePullRequest, CreateFails, Annotate, Goto, Busy, Based, Fetched,
     WorkerTypeOK, Locals
<1>8. CASE CheckDuplicate(w) \/ StepFails(w) \/ ReadResult(w) \/ RecordFails(w) \/ SaveResult(w)
  BY <1>8 DEF CheckDuplicate, StepFails, ReadResult, RecordFails, SaveResult, Goto, Busy, Based,
     Fetched, WorkerTypeOK
<1> QED
  BY <1>1, <1>2, <1>3, <1>4, <1>5, <1>6, <1>7, <1>8, WorkerSteps DEF Silent

\* Pull requests come from workers that are done with their sandbox.
LEMMA NewPullRequests ==
    ASSUME WorkerTypeOK, [Next]_workerVars, NEW p \in prs', p \notin prs
    PROVE  \E w \in Workers : pc[w] = "pr" /\ p = PullRequest(w)
<1>1. CASE \E w \in Workers : WorkerStep(w)
  <2>1. PICK w \in Workers : WorkerStep(w)
    BY <1>1
  <2>2. CASE CreatePullRequest(w)
    BY <2>2 DEF CreatePullRequest
  <2>3. CASE Records(w)
    BY <2>3, RecordsRow DEF ghVars
  <2>4. CASE ~ CreatePullRequest(w) /\ ~ Records(w)
    BY <2>1, <2>4, WorkerSteps
    DEF Claim, ClaimUnread, SaveResult, Silent, Resolve, FetchMirror, CheckDuplicate, Clone,
        StepFails, BoxStep, BoxBranch, BoxPush, PushBranch, BoxFails, BoxReport, BoxDone, BoxDies,
        BoxTimeout, ReadResult, CreateFails, Annotate, RecordFails, GiveUp, ghVars
  <2> QED
    BY <2>2, <2>3, <2>4
<1>2. CASE ~ \E w \in Workers : WorkerStep(w)
  BY <1>2 DEF Next, Crash, StrayPush, PushBranch, DevPush, Api, QueueJob, TriggerJob, WebhookJob,
     SaveSettings, EditCell, Reset, Delete, workerVars, ghVars
<1> QED
  BY <1>1, <1>2

\* A worker stays where it is unless it moves itself.
LEMMA Bystanders ==
    ASSUME WorkerTypeOK, [Next]_workerVars, NEW w \in Workers
    PROVE  WorkerStep(w) \/ Crash(w) \/ (pc'[w] = pc[w] /\ wk'[w] = wk[w])
<1>1. CASE \E v \in Workers : WorkerStep(v) \/ Crash(v)
  BY <1>1, OthersStay
<1>2. CASE ~ \E v \in Workers : WorkerStep(v) \/ Crash(v)
  BY <1>2 DEF Next, StrayPush, DevPush, Api, QueueJob, TriggerJob, WebhookJob, SaveSettings,
     EditCell, Reset, Delete, workerVars, workVars
<1> QED
  BY <1>1, <1>2

\* Whatever the workers, the users and GitHub do.
LEMMA NextHeadsOn ==
    ASSUME WorkerTypeOK, [Next]_workerVars,
           NEW j \in JobIds, NEW b \in Branches, Heads(j, b)
    PROVE  Heads(j, b)'
<1>1. /\ jobs'[j].status # "none"
      /\ jobs'[j].status = "pending" => jobs'[j].branch = b
  BY RowsKept DEF Heads
<1>2. ASSUME NEW w \in Workers, Busy(w)', wk'[w].job = j
      PROVE  wk'[w].branch = b /\ (pc'[w] \in Based => wk'[w].base = b)
  <2>1. b # NoBranch
    BY DBAssumption DEF Branches, JobIds
  <2>2. CASE pc'[w] = pc[w] /\ wk'[w] = wk[w]
    BY <1>2, <2>2 DEF Heads, Busy
  <2>3. CASE WorkerStep(w) \/ Crash(w)
    BY <1>2, <2>1, <2>3, WorkerHeads DEF Heads, Based, Fetched
  <2> QED
    BY <2>2, <2>3, Bystanders
<1>3. ASSUME NEW p \in prs', p.job = j
      PROVE  p.base = b
  <2>1. CASE p \in prs
    BY <1>3, <2>1 DEF Heads
  <2>2. CASE p \notin prs
    <3>1. PICK w \in Workers : pc[w] = "pr" /\ p = PullRequest(w)
      BY <2>2, NewPullRequests
    <3>2. p.job = wk[w].job /\ p.base = wk[w].base
      BY <3>1 DEF PullRequest
    <3> QED
      BY <1>3, <3>1, <3>2 DEF Heads, Busy, Based, Fetched
  <2> QED
    BY <2>1, <2>2
<1> QED
  BY <1>1, <1>2, <1>3 DEF Heads

\* Branches move forward only.
LEMMA HeadsForward ==
    ASSUME WorkerTypeOK, WorkerTypeOK', HeadInv, [Next]_workerVars,
           NEW r \in Repos, NEW b \in Branches
    PROVE  head[r][b] <= head'[r][b] /\ head[r][b] \in Nat /\ head'[r][b] \in Nat
<1>1. head[r][b] \in Nat /\ head'[r][b] \in Nat /\ commits[r] \in Nat
  BY DEF WorkerTypeOK
<1>2. head[r][b] <= commits[r]
  BY DEF HeadInv
<1>3. head'[r][b] = head[r][b] \/ head'[r][b] > commits[r]
  BY NextGrows DEF GitHubGrows
<1> QED
  BY <1>1, <1>2, <1>3

LEMMA NextReads ==
    ASSUME WorkerTypeOK, WorkerTypeOK', ExclusiveRun, HeadInv, ReadInv, [Next]_workerVars
    PROVE  ReadInv'
<1>1. ASSUME NEW w \in Workers, pc'[w] \in Fetched
      PROVE  wk'[w].sha <= head'[wk'[w].repo][wk'[w].base]
  <2>1. wk[w].repo \in Repos /\ wk[w].base \in Branches /\ wk[w].sha \in Nat /\ wk'[w].sha \in Nat
    BY DEF WorkerTypeOK, Locals
  <2>2. /\ wk'[w].repo = wk[w].repo /\ wk'[w].base = wk[w].base
        /\ \/ pc[w] \in Fetched /\ wk'[w].sha = wk[w].sha
           \/ wk'[w].sha = head[wk[w].repo][wk[w].base]
    <3>1. CASE WorkerStep(w) \/ Crash(w)
      BY <1>1, <3>1, WorkerHeads DEF Busy, Fetched
    <3>2. CASE pc'[w] = pc[w] /\ wk'[w] = wk[w]
      BY <1>1, <3>2
    <3> QED
      BY <3>1, <3>2, Bystanders
  <2>3. wk'[w].sha <= head[wk[w].repo][wk[w].base]
    BY <2>1, <2>2, HeadsForward DEF ReadInv
  <2> QED
    BY <2>1, <2>2, <2>3, HeadsForward
<1>2. ASSUME NEW p \in prs'
      PROVE  p.sha <= head'[p.repo][p.base] /\ jobs'[p.job].status # "none"
  <2>1. p.repo \in Repos /\ p.base \in Branches /\ p.sha \in Nat /\ p.job \in JobIds
    BY <1>2 DEF WorkerTypeOK, PRs
  <2>2. p.sha <= head[p.repo][p.base] /\ jobs[p.job].status # "none"
    <3>1. CASE p \in prs
      BY <3>1 DEF ReadInv
    <3>2. CASE p \notin prs
      <4>1. PICK w \in Workers : pc[w] = "pr" /\ p = PullRequest(w)
        BY <1>2, <3>2, NewPullRequests
      <4>2. p.job = wk[w].job /\ p.repo = wk[w].repo /\ p.base = wk[w].base /\ p.sha = wk[w].sha
        BY <4>1 DEF PullRequest
      <4> QED
        BY <4>1, <4>2 DEF ReadInv, Fetched, ExclusiveRun, Busy
    <3> QED
      BY <3>1, <3>2
  <2> QED
    BY <2>1, <2>2, HeadsForward, RowsKept
<1> QED
  BY <1>1, <1>2 DEF ReadInv
-----------------------------------------------------------------------------
(* The steps of the intake. *)

SystemInv == PushInv /\ HeadInv /\ ReadInv /\ Aimed /\ PushesHead

\* A row that the intake inserts is a new one, and the others stay.
LEMMA InsertedRow ==
    ASSUME DBTypeOK, NEW j \in JobIds, NEW r, NEW trigger, NEW b,
           CreateJobWithBranch(j, r, trigger, b)
    PROVE  /\ jobs[j].status = "none"
           /\ jobs'[j].status = "pending" /\ jobs'[j].branch = b
           /\ \A i \in JobIds : i # j => jobs'[i] = jobs[i]
BY DEF CreateJobWithBranch, Blank, DBTypeOK

LEMMA IntakeRowsKept ==
    ASSUME DBTypeOK, IntakeRows
    PROVE  \A j \in JobIds :
               /\ jobs'[j].status \in {"none", "pending"} => jobs[j].status \in {"none", "pending"}
               /\ jobs[j].status # "none" => jobs'[j] = jobs[j]
BY InsertedRow DEF IntakeRows

LEMMA HandlesRows ==
    ASSUME NEW t \in Threads, Handles(t)
    PROVE  IntakeRows
BY IntakeWrites DEF Handles

\* What workers and GitHub know is not touched by the intake.
LEMMA HandlesKeeps ==
    ASSUME WorkerTypeOK, PushInv, HeadInv, ReadInv, NEW t \in Threads, Handles(t)
    PROVE  PushInv' /\ HeadInv' /\ ReadInv'
<1>1. UNCHANGED <<commits, head, prs, pc, wk, box, strays>>
  BY DEF Handles, ghVars, workVars
<1>2. \A j \in JobIds :
          /\ jobs'[j].status \in {"none", "pending"} => jobs[j].status \in {"none", "pending"}
          /\ jobs[j].status # "none" => jobs'[j] = jobs[j]
  BY HandlesRows, IntakeRowsKept DEF WorkerTypeOK
<1>3. PushInv'
  <2>1. \A v \in Workers : BoxHonest(v)'
    BY <1>1 DEF PushInv, BoxHonest
  <2>2. \A v \in Workers : Unpushed(v)' => Unpushed(v) /\ wk'[v].job = wk[v].job
    BY <1>1 DEF Unpushed
  <2> QED
    BY <1>1, <1>2, <2>1, <2>2, CalmPushes
<1>4. HeadInv'
  BY <1>1 DEF HeadInv
<1>5. ReadInv'
  <2>1. \A p \in prs : p.job \in JobIds
    BY DEF WorkerTypeOK, PRs
  <2> QED
    BY <1>1, <1>2, <2>1 DEF ReadInv
<1> QED
  BY <1>3, <1>4, <1>5

LEMMA HandlesHeads ==
    ASSUME WorkerTypeOK, NEW t \in Threads, Handles(t), NEW j \in JobIds, NEW b, Heads(j, b)
    PROVE  Heads(j, b)'
<1>1. UNCHANGED <<prs, pc, wk>>
  BY DEF Handles, ghVars, workVars
<1>2. jobs'[j] = jobs[j]
  BY HandlesRows, IntakeRowsKept DEF WorkerTypeOK, Heads
<1> QED
  BY <1>1, <1>2 DEF Heads, Busy

\* A job that was just inserted is nobody's yet.
LEMMA InsertsHead ==
    ASSUME WorkerTypeOK, ExclusiveRun, ReadInv, NEW j \in JobIds, NEW r, NEW trigger, NEW b,
           CreateJobWithBranch(j, r, trigger, b), UNCHANGED <<ghVars, workVars>>
    PROVE  Heads(j, b)'
<1>1. UNCHANGED <<prs, pc, wk>>
  BY DEF ghVars, workVars
<1>2. jobs[j].status = "none" /\ jobs'[j].status = "pending" /\ jobs'[j].branch = b
  BY InsertedRow DEF WorkerTypeOK
<1>3. \A w \in Workers : Busy(w) => wk[w].job # j
  BY <1>2 DEF ExclusiveRun
<1>4. \A p \in prs : p.job # j
  BY <1>2 DEF ReadInv
<1> QED
  BY <1>1, <1>2, <1>3, <1>4 DEF Heads, Busy

LEMMA SystemNextHeads ==
    ASSUME SystemTypes, SystemInv, [SystemNext]_systemVars
    PROVE  PushesHead'
<1>0. WorkerTypeOK /\ IntakeTypes /\ ExclusiveRun
  BY DEF SystemTypes
<1> SUFFICES ASSUME NEW d \in DOMAIN deliveries', deliveries'[d].event.kind = "push",
                    NEW j \in deliveries'[d].jobs,
                    NEW b, b = deliveries'[d].event.branch
             PROVE  Heads(j, b)'
  BY DEF PushesHead, Heads, Busy
<1>1. /\ d \in DOMAIN deliveries
      /\ deliveries'[d].event = deliveries[d].event
      /\ deliveries'[d].jobs = deliveries[d].jobs \/ Inserts(d)
  BY <1>0, JobsFrom
<1>2. b \in Branches /\ b = deliveries[d].event.branch /\ \A i \in deliveries[d].jobs : i \in JobIds
  <2>1. deliveries[d] \in Delivery
    BY <1>0, <1>1, IntakeShapes
  <2>2. deliveries[d].event \in Event /\ deliveries[d].jobs \subseteq JobIds
    BY <2>1, IntakeAssumption DEF Delivery
  <2> QED
    BY <1>1, <2>2 DEF Event
<1>3. ASSUME j \in deliveries[d].jobs
      PROVE  Heads(j, b)'
  <2>1. Heads(j, b) /\ j \in JobIds
    BY <1>1, <1>2, <1>3 DEF SystemInv, PushesHead
  <2> QED
    BY <1>0, <1>2, <2>1, NextHeadsOn, HandlesHeads, SystemSides
<1>4. ASSUME j \notin deliveries[d].jobs
      PROVE  Heads(j, b)'
  <2>1. Inserts(d)
    BY <1>1, <1>4
  <2>2. PICK t \in Threads, i \in JobIds :
           /\ threads[t].at = "create" /\ threads[t].del = d
           /\ CreateJobWithBranch(i, RepoOf(t), TriggerOf(EventOf(t)), threads[t].branch)
           /\ deliveries'[d].jobs = deliveries[d].jobs \cup {i}
           /\ UNCHANGED <<ghVars, workVars>>
    BY <2>1 DEF Inserts
  <2>3. i = j
    BY <1>4, <2>2
  <2>4. EventOf(t).kind = "push" /\ threads[t].branch = b
    BY <1>1, <1>2, <2>2 DEF EventOf, SystemInv, Aimed
  <2> QED
    BY <1>0, <2>2, <2>3, <2>4, InsertsHead DEF SystemInv
<1> QED
  BY <1>3, <1>4

LEMMA SystemNextKeeps ==
    ASSUME SystemTypes, SystemTypes', SystemInv, [SystemNext]_systemVars
    PROVE  SystemInv'
<1>0. WorkerTypeOK /\ WorkerTypeOK' /\ IntakeTypes /\ ExclusiveRun
  BY DEF SystemTypes
<1>1. PushInv' /\ HeadInv' /\ ReadInv'
  BY <1>0, SystemSides, HandlesKeeps, NextPushes, NextHeads, NextReads DEF SystemInv
<1>2. Aimed' /\ PushesHead'
  BY <1>0, SystemNextAims, SystemNextHeads DEF SystemInv
<1> QED
  BY <1>1, <1>2 DEF SystemInv

LEMMA SystemInitKeeps == Init => SystemInv
<1> SUFFICES ASSUME Init PROVE SystemInv
  OBVIOUS
<1>1. PushInv /\ HeadInv
  BY InitRecords DEF Init, RecordInv
<1>2. ReadInv
  BY DEF Init, WorkerInit, ReadInv, Fetched
<1>3. Aimed /\ PushesHead
  BY SystemInitAims DEF Init, IntakeInit, PushesHead
<1> QED
  BY <1>1, <1>2, <1>3 DEF SystemInv

\* A push is answered on the branch that was pushed, from a commit that it had,
\* whatever else is pushed, pulled or lost while the job is on its way.
THEOREM PullRequestsAnswerPushes == SystemSpec => []PullRequestsTargetPush
<1>1. SystemTypes /\ SystemTypes' /\ SystemInv /\ [SystemNext]_systemVars => SystemInv'
  BY SystemNextKeeps
<1>2. SystemInv => PullRequestsTargetPush
  BY DEF SystemInv, PushesHead, ReadInv, Heads, PullRequestsTargetPush
<1> QED
  BY <1>1, <1>2, SystemInitKeeps, SystemTypeCorrect, PTL DEF SystemSpec
=============================================================================
