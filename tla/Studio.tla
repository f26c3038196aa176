-------------------------------- MODULE Studio --------------------------------
(***************************************************************************)
(* The web studio of pkg/web/server.go: one StudioServer whose fields every*)
(* handler shares, a mutex s.mu over most of them, and goroutines that     *)
(* handlers leave behind.  The project can be switched under all of them.  *)
(*                                                                         *)
(* A request is a process; a critical section that neither blocks nor      *)
(* calls another one is one step.  A request remembers the project it read *)
(* in its local variable (root) and the strategy it points to (plan).      *)
(*                                                                         *)
(* Abstractions.  A text, a description, a result is the request it came   *)
(* from.  The catalogs have one target locale.  A scan finds candidates or *)
(* finds none.  A strategy is an object on the heap, named for the request *)
(* that made it: handlers hold pointers to it beyond the lock.             *)
(***************************************************************************)
EXTENDS Local, Naturals, FiniteSets

CONSTANTS
    Users,       \* requests ever received
    Jobs,        \* what they may ask for, a subset of AllJobs
    CatalogKeys, \* keys of the catalogs
    Start        \* the maker of the first strategy: NewStudioServer

AllJobs == {"view", "edit", "scan", "switch", "reset", "rollback", "run", "key",
            "getseo", "save", "analyze", "scout", "optimize", "seo", "applyseo"}

ASSUME StudioAssumption ==
    /\ Jobs \subseteq AllJobs
    /\ None \notin Users \cup {Start} \cup AllJobs \cup CatalogKeys
    /\ Start \notin Users

VARIABLES
    root,        \* s.ProjectRoot
    platform,    \* s.Platform: the project it was detected for
    mutex,       \* holder of s.mu between two steps, or None
    found,       \* s.Candidates: the project scanned, are there any, has a
                 \* person changed approvals or keys
    running,     \* s.IsRunning
    result,      \* s.LastResult: the request whose run it is, or None
    growth,      \* s.LastSEOResult, or None
    pointer,     \* s.SEOStrategy: a strategy on the heap
    plans,       \* the strategies on the heap
    catalog,     \* project -> key -> text on disk
    tearing,     \* project -> its catalog file is truncated, being written
    readers,     \* requests that write out the maps of growth without s.mu
    requests,    \* the requests and their local variables
    crossed,     \* history: requests during which the project was switched
    overlapped,  \* history: requests that had a catalog in hand while another
                 \* one wrote it, or read it truncated
    down         \* the Go runtime has stopped the process

studioVars == <<root, platform, mutex, found, running, result, growth, pointer,
                plans, catalog, tearing, readers, requests, crossed, overlapped, down>>

Makers   == Users \cup {Start}
Plan     == [of : Projects, desc : Users \cup {None}, goal : Users \cup {None}]
Growth   == [keywords : Users \cup {None}, copy : Users \cup {None}]
Catalog  == [CatalogKeys -> Users \cup {None, Start}]
Places   == {"idle", "done", "begin", "adopt", "scan", "disk", "detect", "match", "work",
             "publish", "relock", "encode", "think", "infer", "gather", "fetch", "put",
             "read", "truncate", "write"}

InFlight(q) == requests[q].pc \notin {"idle", "done"}
Active(q)   == /\ requests[q].job = "run"
               /\ requests[q].pc \in {"detect", "match", "work", "publish"}

\* A handler that calls performScan with s.mu in its hand never returns.
Stuck(q) == requests[q].pc = "relock"

StudioTypeOK ==
    /\ root \in Projects /\ platform \in Projects
    /\ mutex \in Users \cup {None}
    /\ found \in [of : Projects \cup {None}, some : BOOLEAN, edited : BOOLEAN]
    /\ running \in BOOLEAN
    /\ result \in Users \cup {None}
    /\ growth \in Growth \cup {None}
    /\ pointer \in Makers
    /\ plans \in [Makers -> Plan]
    /\ catalog \in [Projects -> Catalog]
    /\ tearing \in [Projects -> BOOLEAN]
    /\ requests \in [Users ->
          [job : Jobs \cup {None}, pc : Places,
           root : Projects \cup {None}, with : Projects \cup {None},
           plan : Makers, key : CatalogKeys \cup {None}, copy : Catalog]]
    /\ readers \subseteq Users
    /\ crossed \subseteq Users /\ overlapped \subseteq Users
    /\ down \in BOOLEAN
    /\ \A q \in Users :
          /\ InFlight(q) => requests[q].job # None
          /\ requests[q].pc \in Places \ {"idle", "done", "begin", "scan", "detect",
                                       "relock", "encode"}
                => requests[q].root # None
          /\ requests[q].pc \in {"work", "publish"} => requests[q].with # None
          /\ requests[q].pc = "read" => requests[q].key # None

Fresh(p) == [of |-> p, desc |-> None, goal |-> None]
Idling == [job |-> None, pc |-> "idle", root |-> None, with |-> None,
           plan |-> Start, key |-> None, copy |-> [k \in CatalogKeys |-> None]]

\* NewStudioServer detects the platform and scans.
StudioInit ==
    /\ root \in Projects /\ platform = root
    /\ mutex = None
    /\ found \in [of : {root}, some : BOOLEAN, edited : {FALSE}]
    /\ running = FALSE
    /\ result = None /\ growth = None
    /\ pointer = Start
    /\ plans = [m \in Makers |-> Fresh(root)]
    /\ catalog = [p \in Projects |-> [k \in CatalogKeys |-> Start]]
    /\ tearing = [p \in Projects |-> FALSE]
    /\ readers = {}
    /\ requests = [q \in Users |-> Idling]
    /\ crossed = {} /\ overlapped = {}
    /\ down = FALSE

Doing(q, pc, jobs) == requests[q].pc = pc /\ requests[q].job \in jobs
Step(q, pc) == requests' = [requests EXCEPT ![q].pc = pc]
\* A handler returns; what it was about is remembered for the properties.
Done(q) == requests' = [requests EXCEPT ![q].pc = "done", ![q].key = None,
                                        ![q].copy = Idling.copy,
                                        ![q].job = IF @ = "run" THEN @ ELSE None]
Free == mutex = None

projectVars == <<root, platform, mutex>>
scanVars    == <<found, running, result>>
seoVars     == <<growth, pointer, plans, readers>>
diskVars    == <<catalog, tearing, overlapped>>

Accept(q) ==
    /\ requests[q].pc = "idle"
    /\ \E j \in Jobs, p \in Projects, k \in CatalogKeys :
          requests' = [requests EXCEPT ![q].job = j,
                                 ![q].pc = IF j = "scan" THEN "scan" ELSE "begin",
                                 ![q].root = IF j = "switch" THEN p ELSE None,
                                 ![q].key = IF j = "key" THEN k ELSE None]
    /\ UNCHANGED <<projectVars, scanVars, seoVars, diskVars, crossed, down>>

(***************************************************************************)
(* The project and its candidates.                                         *)
(***************************************************************************)

\* The handlers that only look do so under s.mu, or copy the root there and
\* read files.  handleApply is one of them: it writes the files whose plan
\* carries refactored content, and GenerateRefactorPlan makes patches only.
View(q) ==
    /\ Doing(q, "begin", {"view"}) /\ Free
    /\ Done(q)
    /\ UNCHANGED <<projectVars, scanVars, seoVars, diskVars, crossed, down>>

Edit(q) ==
    /\ Doing(q, "begin", {"edit"}) /\ Free
    /\ found' \in {found, [found EXCEPT !.edited = found.some]}
    /\ Done(q)
    /\ UNCHANGED <<projectVars, running, result, seoVars, diskVars, crossed, down>>

\* Mistake: a scan looks at the root its request captured.
ScannedCaptured(q) == IF requests[q].root # None THEN requests[q].root ELSE root

ScannedProject(q) == root

\* performScan holds s.mu throughout; a scan that fails changes nothing.
PerformScan(q) ==
    /\ requests[q].pc = "scan" /\ Free
    /\ \/ UNCHANGED found
       \/ \E b \in BOOLEAN :
             found' = [of |-> ScannedProject(q), some |-> b, edited |-> FALSE]
    /\ Done(q)
    /\ UNCHANGED <<projectVars, running, result, seoVars, diskVars, crossed, down>>

\* Those who read the fields without s.mu see the new root before the rest.
SwitchRoot(q) ==
    /\ Doing(q, "begin", {"switch"}) /\ Free
    /\ mutex' = q
    /\ root' = requests[q].root
    /\ Step(q, "adopt")
    /\ UNCHANGED <<platform, scanVars, seoVars, diskVars, crossed, down>>

\* Mistake: the growth data of the old project stay.
AdoptKeepingGrowth(q) ==
    /\ requests[q].pc = "adopt"
    /\ platform' = root
    /\ found' = [of |-> None, some |-> FALSE, edited |-> FALSE]
    /\ result' = None
    /\ UNCHANGED <<growth, readers>>
    /\ plans' = [plans EXCEPT ![q] = Fresh(root)]
    /\ pointer' = q
    /\ mutex' = None
    /\ crossed' = crossed \cup {p \in Users \ {q} : InFlight(p)}
    /\ Step(q, "scan")
    /\ UNCHANGED <<root, running, diskVars, down>>

\* handleSwitchProject empties all that is about the old project.
Adopt(q) ==
    /\ requests[q].pc = "adopt"
    /\ platform' = root
    /\ found' = [of |-> None, some |-> FALSE, edited |-> FALSE]
    /\ result' = None
    /\ growth' = None /\ readers' = {}
    /\ plans' = [plans EXCEPT ![q] = Fresh(root)]
    /\ pointer' = q
    /\ mutex' = None
    /\ crossed' = crossed \cup {p \in Users \ {q} : InFlight(p)}
    /\ Step(q, "scan")
    /\ UNCHANGED <<root, running, diskVars, down>>

(***************************************************************************)
(* Handlers that copy the root under s.mu and work on its files without.   *)
(***************************************************************************)
TakeRoot(q) ==
    /\ Doing(q, "begin", {"reset", "rollback", "key"}) /\ Free
    /\ requests' = [requests EXCEPT ![q].root = root,
                              ![q].pc = IF requests[q].job = "key" THEN "read" ELSE "disk"]
    /\ UNCHANGED <<projectVars, scanVars, seoVars, diskVars, crossed, down>>

\* o has the texts it is about to write in hand.
Writing(o) == requests[o].pc \in {"truncate", "write"}

\* q writes the catalog of p under the hands of others.
Overlaps(q, p) ==
    overlapped' = overlapped \cup {o \in Users \ {q} : requests[o].root = p /\ Writing(o)}

\* q reads the catalog of p.
Reads(q, p) == overlapped' = IF tearing[p] THEN overlapped \cup {q} ELSE overlapped

\* git checkout and the removal of the demo projects' catalogs; or a
\* checkpoint's files are copied back, which may fail.
RestoreDisk(q) ==
    /\ requests[q].pc = "disk"
    /\ \/ /\ requests[q].job = "reset"
          /\ \E ps \in SUBSET Projects :
                catalog' = [p \in Projects |-> IF p \in ps THEN [k \in CatalogKeys |-> None]
                                               ELSE catalog[p]]
                /\ overlapped' = overlapped \cup
                                    {o \in Users : requests[o].root \in ps /\ Writing(o)}
          /\ Step(q, "scan")
       \/ /\ requests[q].job = "rollback"
          /\ catalog' = [catalog EXCEPT ![requests[q].root] = [k \in CatalogKeys |-> Start]]
          /\ Overlaps(q, requests[q].root)
          /\ Step(q, "scan")
       \/ requests[q].job = "rollback" /\ UNCHANGED <<catalog, overlapped>> /\ Done(q)
    /\ UNCHANGED <<projectVars, scanVars, seoVars, tearing, crossed, down>>

\* Mistake: the catalog on disk is not merged.
ReadNothing(p) == [k \in CatalogKeys |-> None]

\* What a handler reads of the catalog file of a project: a file that is
\* truncated does not parse, and an unreadable catalog is taken for none.
ReadCatalog(p) == IF tearing[p] THEN [k \in CatalogKeys |-> None] ELSE catalog[p]

ReadKey(q) ==
    /\ requests[q].pc = "read"
    /\ LET copy == [ReadCatalog(requests[q].root) EXCEPT ![requests[q].key] = q]
       IN requests' = [requests EXCEPT ![q].pc = "truncate", ![q].copy = copy]
    /\ Reads(q, requests[q].root)
    /\ UNCHANGED <<projectVars, scanVars, seoVars, catalog, tearing, crossed, down>>

\* os.WriteFile truncates the file, then fills it.
Truncate(q) ==
    /\ requests[q].pc = "truncate"
    /\ tearing' = [tearing EXCEPT ![requests[q].root] = TRUE]
    /\ Overlaps(q, requests[q].root)
    /\ Step(q, "write")
    /\ UNCHANGED <<projectVars, scanVars, seoVars, catalog, crossed, down>>

WriteCatalog(q) ==
    /\ requests[q].pc = "write"
    /\ catalog' = [catalog EXCEPT ![requests[q].root] = requests[q].copy]
    /\ tearing' = [tearing EXCEPT ![requests[q].root] = FALSE]
    /\ Overlaps(q, requests[q].root)
    /\ mutex' = IF mutex = q THEN None ELSE mutex
    /\ Done(q)
    /\ UNCHANGED <<root, platform, scanVars, seoVars, crossed, down>>

\* The file cannot be opened; the error is dropped.  (A disk that fails after
\* the truncation is left out.)
OpenFails(q) ==
    /\ requests[q].pc = "truncate"
    /\ mutex' = IF mutex = q THEN None ELSE mutex
    /\ Done(q)
    /\ UNCHANGED <<root, platform, scanVars, seoVars, diskVars, crossed, down>>

(***************************************************************************)
(* A run of the pipeline (module Pipeline) in a goroutine.  Nothing stops  *)
(* a second run.                                                           *)
(***************************************************************************)
StartRun(q) ==
    /\ Doing(q, "begin", {"run"}) /\ Free
    /\ running' = TRUE
    /\ Step(q, "detect")
    /\ UNCHANGED <<projectVars, found, result, seoVars, diskVars, crossed, down>>

\* The goroutine reads s.ProjectRoot, then s.Platform, without s.mu.  (It reads
\* the root once more for the configuration, which names the model to ask.)
RunReadsRoot(q) ==
    /\ requests[q].pc = "detect"
    /\ requests' = [requests EXCEPT ![q].pc = "match", ![q].root = root]
    /\ UNCHANGED <<projectVars, scanVars, seoVars, diskVars, crossed, down>>

RunMatches(q) ==
    /\ requests[q].pc = "match"
    /\ requests' = [requests EXCEPT ![q].pc = "work", ![q].with = platform]
    /\ UNCHANGED <<projectVars, scanVars, seoVars, diskVars, crossed, down>>

\* Mistake: a failed run leaves "running" set.
RunFailsSilently(q) ==
    /\ requests[q].pc = "match" /\ Free
    /\ UNCHANGED running
    /\ Done(q)
    /\ UNCHANGED <<projectVars, found, result, seoVars, diskVars, crossed, down>>

RunFails(q) ==
    /\ requests[q].pc = "match" /\ Free
    /\ running' = FALSE
    /\ Done(q)
    /\ UNCHANGED <<projectVars, found, result, seoVars, diskVars, crossed, down>>

\* The catalogs it writes, in one step here; none if it stops before.
RunWorks(q) ==
    /\ requests[q].pc = "work"
    /\ \E ks \in SUBSET CatalogKeys :
          catalog' = [catalog EXCEPT ![requests[q].root] =
                         [k \in CatalogKeys |-> IF k \in ks THEN q ELSE @[k]]]
    /\ Step(q, "publish")
    /\ Overlaps(q, requests[q].root)
    /\ UNCHANGED <<projectVars, scanVars, seoVars, tearing, crossed, down>>

\* The result of a run that failed is nil.
PublishRun(q) ==
    /\ requests[q].pc = "publish" /\ Free
    /\ running' = FALSE
    /\ result' \in {q, None}
    /\ Step(q, "scan")
    /\ UNCHANGED <<projectVars, found, seoVars, diskVars, crossed, down>>

(***************************************************************************)
(* The SEO studio.  Its handlers take s.mu, make sure that there are       *)
(* source strings, and let go of s.mu while models and searches answer.    *)
(***************************************************************************)

\* ensureSourceStringsExtracted calls performScan when there are no
\* candidates, with s.mu in the hand of its caller.
Relock(q) ==
    /\ Doing(q, "begin", {"getseo", "analyze", "scout", "optimize", "seo"}) /\ Free
    /\ ~found.some
    /\ mutex' = q
    /\ Step(q, "relock")
    /\ plans' \in {plans} \cup
          {[plans EXCEPT ![pointer].goal = q] : j \in {requests[q].job} \cap {"seo"}}
    /\ UNCHANGED <<root, platform, scanVars, growth, pointer, readers,
                   diskVars, crossed, down>>

NoGrowth == [keywords |-> None, copy |-> None]
Grown == IF growth = None THEN NoGrowth ELSE growth

\* The answer is encoded from the live maps after s.mu is released.
GetSEO(q) ==
    /\ Doing(q, "begin", {"getseo"}) /\ Free /\ found.some
    /\ growth' = Grown
    /\ readers' = readers \cup {q}
    /\ Step(q, "encode")
    /\ UNCHANGED <<projectVars, scanVars, pointer, plans, diskVars, crossed, down>>

Encode(q) ==
    /\ requests[q].pc = "encode"
    /\ readers' = readers \ {q}
    /\ Done(q)
    /\ UNCHANGED <<projectVars, scanVars, growth, pointer, plans, diskVars,
                   crossed, down>>

\* Category and description are saved even if empty, a goal if there is one.
SaveStudioStrategy(q) ==
    /\ Doing(q, "begin", {"save"}) /\ Free
    /\ \E d \in {q, None}, g \in {q, plans[pointer].goal} :
          plans' = [plans EXCEPT ![pointer].desc = d, ![pointer].goal = g]
    /\ Done(q)
    /\ UNCHANGED <<projectVars, scanVars, growth, pointer, readers, diskVars,
                   crossed, down>>

\* The strategy is remembered by its pointer.  RunSEO sets its goal first.
TakeStrategy(q) ==
    /\ Doing(q, "begin", {"analyze", "scout", "optimize", "seo"}) /\ Free /\ found.some
    /\ LET pc == IF requests[q].job = "analyze" THEN "put" ELSE "think"
       IN requests' = [requests EXCEPT ![q].root = root, ![q].plan = pointer, ![q].pc = pc]
    /\ plans' \in {plans} \cup
          {[plans EXCEPT ![pointer].goal = q] : j \in {requests[q].job} \cap {"seo"}}
    /\ UNCHANGED <<projectVars, scanVars, growth, pointer, readers, diskVars,
                   crossed, down>>

\* A strategy without a category gets one from a model.  Neither the look
\* nor, seconds later, the assignment holds s.mu.
AfterThinking(q) == IF requests[q].job = "seo" THEN "put" ELSE "gather"

Think(q) ==
    /\ requests[q].pc = "think"
    /\ Step(q, IF plans[requests[q].plan].desc = None THEN "infer" ELSE AfterThinking(q))
    /\ UNCHANGED <<projectVars, scanVars, seoVars, diskVars, crossed, down>>

Infer(q) ==
    /\ requests[q].pc = "infer"
    /\ plans' = [plans EXCEPT ![requests[q].plan].desc = q]
    /\ Step(q, AfterThinking(q))
    /\ UNCHANGED <<projectVars, scanVars, growth, pointer, readers, diskVars,
                   crossed, down>>

\* A map that one goroutine writes and another one iterates over can stop
\* the Go program.
MapRace == down' \in {FALSE, readers # {}}

\* The scout searches, and may fail; optimize looks for keywords that a
\* scout has left, and searches itself if there are none.
Gather(q) ==
    /\ requests[q].pc = "gather"
    /\ IF requests[q].job = "scout" THEN Step(q, "put") \/ Done(q)
       ELSE Free /\ Step(q, IF Grown.keywords = None THEN "fetch" ELSE "put")
    /\ UNCHANGED <<projectVars, scanVars, seoVars, diskVars, crossed, down>>

Fetch(q) ==
    /\ requests[q].pc = "fetch" /\ Free
    /\ growth' = [Grown EXCEPT !.keywords = q]
    /\ MapRace
    /\ Step(q, "put")
    /\ UNCHANGED <<projectVars, scanVars, pointer, plans, readers, diskVars, crossed>>

\* The results go to whatever project is open now.  Analyze and RunSEO put
\* back the strategy they took; RunSEO replaces the whole of LastSEOResult.
Put(q) ==
    /\ requests[q].pc = "put" /\ Free
    /\ \/ /\ requests[q].job = "analyze"
          /\ plans' = [plans EXCEPT ![requests[q].plan].desc = q]
          /\ pointer' = requests[q].plan
          /\ UNCHANGED <<growth, readers, down>>
       \/ /\ requests[q].job = "scout"
          /\ growth' = [Grown EXCEPT !.keywords = q]
          /\ MapRace /\ UNCHANGED <<plans, pointer, readers>>
       \/ /\ requests[q].job = "optimize"
          /\ growth' = [Grown EXCEPT !.copy = q]
          /\ MapRace /\ UNCHANGED <<plans, pointer, readers>>
       \/ /\ requests[q].job = "seo"
          /\ growth' = [keywords |-> q, copy |-> q]
          /\ readers' = {}
          /\ pointer' = requests[q].plan
          /\ UNCHANGED <<plans, down>>
    /\ Done(q)
    /\ UNCHANGED <<projectVars, scanVars, diskVars, crossed>>

\* No copy could be woven: optimize ends.  (RunStudio returns what it has.)
WeaveFails(q) ==
    /\ Doing(q, "put", {"optimize"})
    /\ Done(q)
    /\ UNCHANGED <<projectVars, scanVars, seoVars, diskVars, crossed, down>>

\* Mistake: the early return keeps the lock.
ApplyNothingLocked(q) ==
    /\ Doing(q, "begin", {"applyseo"}) /\ Free
    /\ Grown.copy = None
    /\ mutex' = q
    /\ Done(q)
    /\ UNCHANGED <<root, platform, scanVars, seoVars, diskVars, crossed, down>>

\* ApplySEO keeps s.mu from its look at the result to the last catalog.
ApplyNothing(q) ==
    /\ Doing(q, "begin", {"applyseo"}) /\ Free
    /\ Grown.copy = None
    /\ Done(q)
    /\ UNCHANGED <<projectVars, scanVars, seoVars, diskVars, crossed, down>>

ApplySEO(q) ==
    /\ Doing(q, "begin", {"applyseo"}) /\ Free
    /\ Grown.copy # None
    /\ mutex' = q
    /\ \E ks \in SUBSET CatalogKeys \ {{}} :
          requests' = [requests EXCEPT ![q].pc = "truncate", ![q].root = root,
                       ![q].copy = [k \in CatalogKeys |-> IF k \in ks THEN growth.copy
                                                    ELSE ReadCatalog(root)[k]]]
    /\ Reads(q, root)
    /\ UNCHANGED <<root, platform, scanVars, seoVars, catalog, tearing,
                   crossed, down>>
-----------------------------------------------------------------------------
ServeStudio(q) ==
    \/ View(q) \/ Edit(q) \/ PerformScan(q) \/ SwitchRoot(q) \/ Adopt(q)
    \/ TakeRoot(q) \/ RestoreDisk(q) \/ ReadKey(q) \/ Truncate(q) \/ WriteCatalog(q)
    \/ OpenFails(q) \/ StartRun(q) \/ RunReadsRoot(q) \/ RunMatches(q) \/ RunFails(q) \/ RunWorks(q)
    \/ PublishRun(q)
    \/ Relock(q) \/ GetSEO(q) \/ Encode(q) \/ SaveStudioStrategy(q) \/ TakeStrategy(q)
    \/ Think(q) \/ Infer(q) \/ Gather(q) \/ Fetch(q) \/ Put(q)
    \/ WeaveFails(q) \/ ApplyNothing(q) \/ ApplySEO(q)

StudioNext == ~down /\ \E q \in Users : Accept(q) \/ ServeStudio(q)
StudioSpec == StudioInit /\ [][StudioNext]_studioVars
-----------------------------------------------------------------------------
(***************************************************************************)
(* Properties                                                              *)
(***************************************************************************)
Adopted == \A q \in Users : requests[q].pc # "adopt"

\* What the studio shows and writes is about the open project: results,
\* keywords, copy, strategy and the texts of each catalog come from requests
\* about that project, and a run works with the platform of its project,
\* unless the project was switched under the request.
NothingForeign ==
    LET foreign(q, p) == q \in Users /\ requests[q].root # p /\ q \notin crossed
    IN Adopted =>
       /\ ~foreign(result, root)
       /\ ~foreign(Grown.keywords, root) /\ ~foreign(Grown.copy, root)
       /\ plans[pointer].of # root => \E q \in crossed : requests[q].plan = pointer
       /\ \A p \in Projects, k \in CatalogKeys : ~foreign(catalog[p][k], p)
       /\ \A q \in Users : requests[q].with # None => ~foreign(q, requests[q].with)

\* The candidates on show are those of the open project, whoever scanned
\* last: performScan reads the root under the same lock as it stores them.
CandidatesCurrent == Adopted => found.of \in {None, root}

\* "Running" is shown only while a run is at work; a run at work is shown
\* unless another run has ended since.
RunningShown ==
    /\ running => \E q \in Users : Active(q)
    /\ ~running => \A q \in Users : Active(q) =>
           \E p \in Users \ {q} : requests[p].job = "run" /\ requests[p].pc \in {"scan", "done"}

\* A text of a catalog is replaced only by a request for its key, a run, a
\* restore, copy that is applied, or a writer in whose time another one wrote
\* the same catalog: a save of one key keeps all others.
TextsKept ==
    [][\A p \in Projects, k \in CatalogKeys :
          catalog[p][k] # None /\ catalog'[p][k] # catalog[p][k] =>
             \E q \in Users :
                /\ requests'[q] # requests[q]
                /\ \/ requests[q].job \in {"run", "reset", "rollback"}
                   \/ catalog'[p][k] \in {q, Grown.copy}
                   \/ q \in overlapped]_studioVars

\* Some request can always go on while one is unanswered, unless the server
\* has stopped on its own lock or the runtime has stopped it: every other
\* critical section lets go of s.mu on each of its ways out.
OnlySelfLock ==
    \/ down \/ \E q \in Users : Stuck(q)
    \/ \A q \in Users : ~InFlight(q)
    \/ ENABLED \E q \in Users : ServeStudio(q)

\* No handler waits for the lock that it holds.  ("3. If still empty, supply
\* reasonable default keys", server.go 1463: a project without candidates is
\* served with default keys.)
NoSelfLock == \A q \in Users : Stuck(q) => mutex # q

\* All of what the studio may hold and show.
StudioInv == StudioTypeOK /\ NothingForeign /\ CandidatesCurrent /\ RunningShown
=============================================================================
