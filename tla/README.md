# langPeanut: a specification

langPeanut localizes applications. `langpeanut_local` is a command line tool, a
terminal application and a local web studio over a pipeline of agents (scan, extract,
translate, verify, repair); `langpeanut-cloud` is a server that runs that pipeline in
a sandbox for GitHub repositories and opens pull requests. This directory specifies
the parts where processes, machines and people meet. In the cloud that is the job
queue, the worker, the sandbox, the webhook intake, the handlers of the API, the login, and the
database below them all; locally it is the pipeline with its translator, its
checkpoints and its models, and the interfaces people drive it from: studio,
terminal, copilot and their settings. Paths of the cloud are relative to
`src/langpeanut-cloud/`, those of the local program to `src/langpeanut_local/`.

## Inventory

| Component | State it keeps | Operations | What makes it correct |
|---|---|---|---|
| Database (`internal/db`) | tables `repos`, `repo_settings`, `jobs`, `job_token_usage`, `repo_translation_matrix`, the SEO tables, `teams`, `users`, `installations` | the queries of `queries.go` | foreign keys hold, updates never revive rows |
| Worker (`internal/worker`, `internal/mirror`) | the locals of `runJob`; one goroutine per process | claim, resolve, fetch, dedupe, clone, sandbox, pull request, record | a job has one worker, ends once, its row says what happened |
| Sandbox (`cmd/runner`) | work copy, `result.json` | branch, pipeline, merge, commit, push, report | pushes its branch once, keeps the edits it was given |
| GitHub (external) | branch heads, pull requests | accepts pushes, opens pull requests, delivers webhooks | assumed |
| Webhook intake (`internal/api` `handleWebhook`, `ProcessWebhookEvent`) | goroutines, one per delivery | publish, decode, look up, save directive, queue job, answer | nothing acknowledged is lost, no job without a cause |
| Pub/Sub (`internal/pubsub`; the service is external) | unacked messages | publish, receive, ack, nack | at least once |
| Requests of the API (`internal/api/handlers.go`) | the rows each request has read | save, quick model switch, cell edit, copilot and hooks, key edit, translate, SEO analyze, strategy, scout, optimize, apply, configuration, trigger, reset | a column or cell changes only for who named it; jobs do not undo people |
| Login and teams (`internal/auth`, `handlers.go`, `context.go`) | session cookies, requests under way | state, callback, list installations, import, log out | a session acts for its user's team; an installation stays in the team of its account |
| Server (`cmd/server`) | none | starts and stops all of the above together | work settles after a restart |
| Pipeline (`langpeanut_local/pkg/agents/supervisor.go`, `verifier_critic.go`) | catalogs, plans and diagnostics of a run; files of the project | read, plan, translate, verify and retry, write, remember | no string is lost, code and catalogs fit, people's texts survive |
| Translator (`translator.go`, `pkg/memory/memory.go`) | result, keys without a value, batches, the translation memory | look up, pack, ask, retry, fall back | every key gets a value from the right place, the call returns |
| Checkpoints (`pkg/orchestrator`) | a directory per second: manifest and copies | create, restore | a restore gives back what was there |
| Model clients (`pkg/llm`) | attempts of a call, chunks and batches of NLLB, usage in memory and in a file | complete with retries, cut, batch, change endpoint, record, flush, reset | texts come back in their places, a call ends, requests are counted |
| Model download (`pkg/llm/nllb_downloader.go`) | the temporary file and the model | fetch from mirrors, install | the model in place is whole |
| Patches (`pkg/platforms/react_ts.go`, `pkg/agents/patch_engine.go`) | a source file | plan, sort, filter, apply, parse | no text or code is lost, the result has its import, directive and hooks |
| Studio (`pkg/web/server.go`) | one `StudioServer` behind `s.mu`, strategies on the heap, goroutines | view, edit, scan, run, switch, reset, rollback, the SEO handlers | nothing of another project is shown or written; the lock is let go |
| Terminal (`pkg/tui/app.go`) | one `Model` | every key and every message of a command | one command at a time; what is shown is of the open project |
| Settings (`pkg/memory/config.go`) | the person's file, a file for each project, copies in programs | load, change, save | no setting is lost to a change of another |
| Copilot (`pkg/web` chat, `pkg/genkit`, `pkg/chat`) | the engine's history, a bounded channel per request | ask, plan, run tools, stream, close, reset, seed | questions and answers stay together, a reply has every card once |
| Repair, scouts, other platforms | files | see "Not modelled" | not modelled |

Locally, programs meet only on disk: source files, catalogs, checkpoints,
settings, usage and the translation memory, without locks; requests of one studio also meet
in its fields. In the cloud,
components interact through the database (API, intake and worker share the
tables), through GitHub (the sandbox pushes, the worker opens the pull request,
both come back as webhooks) and through the process they live in (a crash takes
worker, handlers and subscriber together, but not a docker container).

The hard behaviours: claims of several processes on one table; a crash or a
failed statement between claim and record; the duplicate check minutes before
the record it depends on; a sandbox that is tried twice in one work copy or
outlives its worker; users who reset, delete and edit under a running job;
messages that are lost, doubled or handled by two goroutines; a service that
triggers itself; handlers that read a row, wait for a person or a model, and write
all of it; logins of one account in two browsers; locally, two runs over one directory, writes whose errors are
dropped, a kill between the code and the catalogs, batches of answers in any
order, a project that is switched under a request or a command, a page that is closed in
the middle of an answer, offsets that are stale when a patch is applied. `PROJECT.json` lists each as a hazard at its line.

## Modules

```
CloudDB ----+--> Worker --> JobSystem --+--> CloudSystem --> MCSystem
            |                 |   |     |
            |                 |   +-> MCJobs
            |                 +-> JobLedger (refinement)
            +--> WebhookIntake ---------+
                       +-> MCIntake

CloudApi, Accounts, Studio ---------+--> MCApi

Translation --+--> Translator --+---+--> MCTranslator
              |    Completion, Download
              +--> Pipeline (INSTANCE) --> MCPipeline

Local --> Studio, Terminal, Settings, Chat
Terminal, Settings, Chat, Patches --+--> MCLocal

JobSystem --> JobSystemProofs --> SystemProofs <-- CloudSystem (WebhookIntake)
SequenceProofs --+--> TranslatorProofs <-- Translator, Completion, Download
                 +--> LocalProofs      <-- Studio, Terminal, Settings, Chat
                 +--> PatchProofs      <-- Patches
Pipeline --> PipelineProofs     CloudApi, Accounts --> ApiProofs
```

- **CloudDB**: one variable per table and one operator per query. A query is one
  step: the process has one connection (`db.Open`), and multi-statement queries
  are transactions, which SQLite serialises between processes. A row of `jobs`
  keeps its place after deletion (ids are never used twice). A settings row is
  its version: every save moves `updated_at`, which is part of the hash. The
  matrix of a repository is one cell.
- **Worker**: `pc`, `wk`, `box` are where a worker is, the locals of `runJob` and
  its sandbox; a step is the code between two points where another actor can see
  or interrupt. `strays` are containers nobody waits for. `commits`, `head`, `prs`
  are GitHub. Each early `return err` is `StepFails`; `RecordFails` and `GiveUp` are
  the failing updates; `ClaimUnread` the claim whose read-back fails.
- **JobSystem**: workers with the API handlers that write under them, and the
  properties of the queue.
- **JobLedger**: what the queue promises, without any of the above: a job is
  submitted, started and ended once; an automatic job is published only if no
  job of its key is, skipped only if one is.
- **WebhookIntake**: threads that take a delivery through the queries of
  `ProcessWebhookEvent`, with the topic, the fallback to in-line processing, the
  directive of a comment and the settings switches. A body that does not decode
  (`Undecodable`) is an error each time it is handed out.
- **CloudSystem**: worker, intake and GitHub in the deployed arrangement, one
  process that dies as a whole; the pushes of jobs come back as deliveries.
- **Translation**: what the translator promises: the order in which the places a
  value can come from are asked (`Lookup`), and what a call may return for a key
  (`MayReturn`).
- **Translator**: `TranslateLocale` step by step; `ReturnsAsPromised` says that it
  keeps to Translation. Loops over Go maps visit keys in any order. A batch is a
  goroutine: it waits for a slot, asks, waits and asks again up to three times, or is
  cancelled; storing an answer is one step, as it holds the lock.
- **Pipeline**: runs of `RunEndToEnd`, each a record of locals that `at` leads from
  `refs` to `targets`; a step ends at a read or write of the disk. The
  translation of all locales is one step that returns what Translation allows,
  since it touches nothing that others see. The critic's verdict belongs to
  the step that made the data (`Verified`). A write succeeds, or fails without a word
  and leaves the file as it was or torn, or the process is killed in it.
  `Edit` and `Restore` are people in the studio or at the command line.
- **CloudApi**: requests over the rows of one repository, each in steps that end at a
  query; any query may fail, and `answer` says what its handler does then. A text is
  the request it comes from, so a property can ask who wrote what. The columns some
  handler keeps on its own (provider, override key, switches, directive) are apart;
  the matrix has a source and a target locale; a strategy has what models infer and what
  only people set. `apply` writes its cells one by one from the optimizations it read first.
- **Accounts**: browsers in the middle of a login or of a list of installations, the
  tables those write, and the session with its copy of the team.
- **Completion**: a call from its prompt to its texts: attempts with waits and a last
  one, and for NLLB the sentences that are packed into chunks, the chunks into batches, the
  endpoints of each batch, cold answers, and the texts put together again. Each process has
  a tracker that reads the usage file late, adds to it and writes it whole.
- **Download**: calls that create, write, abandon and rename one temporary path. A file is
  an inode, named for the call and the mirror it was created for; one block is
  more than the megabyte from which a file passes for the model.
- **Local**: the projects and the absent value the following four share.
- **Studio**: each handler is cut where it leaves `s.mu`; `root` and `plan` in a
  request are its locals, which may be about a project that is no longer open. The lock is
  not reentrant: `Stuck` is a request that waits for one that it may itself hold.
  `crossed` and `overlapped` name the requests under which the project was switched or
  a catalog written: the windows the properties except. A catalog that cannot be opened
  (`OpenFails`) and copy that cannot be woven (`WeaveFails`) end their request.
- **Terminal**: `Update` of each view and each message; `tasks` are the commands at
  work, with what they captured.
- **Settings**: load, change and save of each kind of interface over the three files,
  and a save that tears its file.
- **Chat**: a turn as two processes, the loop in the engine and the collector of the
  flow, with the channel between them; closing the page cancels one and not the other.
- **Patches**: one operator per part of `GenerateRefactorPlan` and of
  `ApplyRefactorPlan` over files of tokens, run after run, with developers who add components in
  between. Each token says something of its own; an import of the hook is the
  plan's very line (`i18n`) or another one (`combined`).
- **MCJobs, MCIntake, MCSystem, MCTranslator, MCPipeline, MCApi, MCLocal**: instances for
  TLC. MCJobs has a crew of one worker or of two. MCApi, MCLocal and MCTranslator hold components that share no variable: in a
  behaviour one of them runs (`menu`, `part`) while the others keep their first state, so a run
  explores the sum of their state spaces and not the product. What
  they share in the program (a lock, a table, a file) is inside one of them.
- **JobSystemProofs**, **SystemProofs**, **ApiProofs**, **TranslatorProofs**, **PipelineProofs**,
  **LocalProofs**, **PatchProofs**: theorems, over the lemmas on numbers and sequences of
  **SequenceProofs**; see "Proofs".

Operators commented "Mistake" are plausible errors in the definition that
follows them. No specification uses them; substituted for that definition they
make the property that guards it fail, which shows the property is not idle.

## Runs

| Run | Instance | Checks |
|---|---|---|
| `jobs` | 2 jobs, and either 1 worker, a manual or pushed job and then a pushed one, 4 commits, settings saved once, 1 failed statement, 1 crash, or 2 workers, jobs of comments, 2 commits, a person editing, 1 crash | `JobsInv`: types, foreign keys; no pull request for a recorded success, justified skips; `RowsTrue`: success implies a pull request, stranded rows are accounted for; a branch is pushed once; exclusive claims; edits survive later jobs |
| `ledger` | 1 worker, 2 pushes, fault and crash, fairness | refinement of JobLedger; `JobsEnd`: pending and claimed jobs end |
| `intake` | 2 threads and either 1 delivery of any kind, or of no body that decodes, with saves, reset, delete, failing lookups, and a duplicate hand-out or a crash, or 2 deliveries of a push with both; fault, fairness | nothing acknowledged is lost but to a failed lookup; only named faults make extra jobs; comments keep switches; requests end, and messages that decode |
| `system` | 1 server, a repository with its own branch prefix, 3 jobs, 2 deliveries or a crash, fairness | pull request to the pushed branch, deliveries settle |
| `translate` | 4 keys (2 of one text, 1 glossary, 1 long dictionary text), 3 words and 2 keys to a batch, 1 slot, cancellation, every set of flagged keys, online and offline; 2 calls of models in 2 processes, 2 attempts, 2 endpoints, 3 texts cut into chunks of 3 words; 2 downloads, 2 mirrors, 2 blocks; fairness | every key gets a value from the place the order of lookup says; only keys asked in vain fall back; memory keeps to its texts; answers are kept; texts are put together of their own segments; usage is counted; the model in place is whole; calls return |
| `pipeline` | 1 file, 1 locale, 2 runs (skip, replace, dry), 2 seconds; at most 2 of: a mishap, an edit, a rollback | strings are recoverable, code and catalogs agree, memory and report are true, people's texts are kept |
| `api` | 3 requests of each of four menus of handlers, 2 keys, 2 providers, 1 failed query; or 2 browsers, 3 accounts (1 with an old row), 2 installations; or 3 requests of the studio, 2 projects, 2 keys | columns and cells change only for who named them, or where a row was written in between; metrics match what was applied; sessions and installations keep to teams; the studio shows and writes what is of the open project, and lets go of its lock |
| `local` | the terminal with 2 projects, 2 strings, 2 checkpoints; 2 savers of every kind; 2 questions with 2 tools; 6 layouts of a file, every set of candidates, rewritten again and again, 2 later components | one command at a time, what is shown is current; settings survive; turns stay together and replies are complete; nothing of a file is lost, header and hooks are in place |
| `selflock` | `api`, where the studio extracts source strings for search | `NoSelfLock` is violated |
| `coldstart` | `translate` where replies have all texts, endpoints may be cold | `TextsReturnAlways` is violated |
| `rollback` | `pipeline` with two files of one name | `RestoreExact` is violated |
| `recursion` | `system` with 2 deliveries and a crash | `NoRecursion` is violated |

A property with "Inv" in its name (`JobsInv` among them), `RowsTrue`, `RowsMerged`, `SettingsKept`, `JobsEnd`,
`IntakeSettles` and `CallsReturn` are conjunctions of the named properties of one module; the
definition lists them, and each conjunct that could be wrong has a "Mistake" of its own.

Why the bounds are enough: the conflicts in this code are between two jobs of a
repository (duplicate keys), two workers (claims) or two handlers of a delivery,
so two of each reach them; `MaxCommits` leaves room for every job to push and
for developers to move the base branch in between; one fault and one crash can
fall between any two steps, and their combination with the other is covered.
Rows of different repositories never meet in a query, so one repository is used.
With two workers the deduplication is not promised (two processes can check before
either records), so `PushesDeduplicated`, `ImplementsLedger` are about one
worker, the deployed arrangement of `cmd/server/main.go` (the two workers of `jobs` have
only jobs of comments, which deduplicate nothing). `PushesDeduplicated` is about
pull requests and earlier successes on record: a job that a fault or a crash stopped after
it opened its pull request has a failed or a running row, and the next push of that commit
is localized again, in the code as in the model. `CHECK_DEADLOCK FALSE`
everywhere: once the bounds on jobs, commits and deliveries are used up the system
rightly stops.

In `api` every handler meets every other that writes the same row, in one of four
menus; a third request is there because an update is lost between two and a property may
blame only the two. Two browsers can race to create the team of one account; the organization
and the old row reach the branches of the list and of `UpsertUserByGitHub`. In the
studio two projects and a switch among three requests put a switch inside any handler.
In `local` two of everything is what a stale copy takes: two projects, a checkpoint below
another, two savers. The layouts of Patches hold a callback, an import of two lines,
a hook that is there already, by the plan's import and by another one, and a
file without a component. Two of them show what `patch_engine.go` does to imports: the file
with another import of the hook gets a second one (64 looks for one exact line), which
`HeaderInOrder` allows, as it speaks of that line; and one that ends its imports
with one of several lines gets the new line between its braces (91), is refused by the parser and ends
the run (`Refuse`).

Two instances trade one bound for another: in `system`, and in `intake` for a single
delivery, the server dies or a second message is handed out, not both in one behaviour.
Two deliveries of a push, in `intake`, meet both.

In `translate` the smallest limits force batches to be cut for words and for keys
and to wait for each other; `Volunteers` lets a model answer a key it was not asked
for. Each of the three settings comes from another place (project, environment,
provider). In `pipeline` one file is enough because runs, not files, conflict;
two checkpoints can share a second or not. `MaxInAll` lets any two of mishap, edit
and rollback come together. With one locale the critic's hints are those of errors,
and with several a hint for one locale would reach all: `PersonKept` allows
for that by name. The critic's other hints (a "long" value, `Hinted`) come only
together with an error and are not in the instance.

`jobs` uses symmetry of the workers, `api` of the requests, `local` of the projects and of the savers, and
`pipeline` of the runs, which no formula tells apart; no liveness is checked under it.

The four violated properties are statements of the repository that the code does not
keep; `PROJECT.json` "findings" quotes them. With the default prefix `NoRecursion`
holds by the test of `handlers.go:1490`; what the run shows is the prefix that settings may change.

Passing properties except windows that the code leaves open, each by name; they show that
nothing else goes wrong, not that the window is safe. A delivery whose lookup of settings
fails is acknowledged and lost (`blind` in `NoSilentDrop`). A message whose body does not
decode is nacked and handed out for ever, unless the subscription gives up on it
(`Decodes` in `MessagesDrain` and `DeliveriesSettle`). A push that is skipped may name
another base branch than the job it duplicates, since the key has no branch. Updates
are lost between a read of a row or a file and its write: the switches saved while a directive
is, rows of settings, matrix and strategy (`RowsMerged`), a catalog (`overlapped` in `TextsKept`), two savers of
settings (those that met), the usage file of two processes, and the temporary file of two
downloads (`together`); a string of two runs that met and a failed write (`OneMishap`).

## Fairness

`FairSpec` assumes weak fairness of each worker's step: the ticker of `Run` comes
back, every call returns (HTTP and git fail or answer, and failing is a step),
and the deadline of the job ends the wait for the sandbox. `IntakeFairSpec`
assumes it of each goroutine and of Pub/Sub handing out an unacked message.
`TranslatorFair` assumes it of the loops and of each goroutine of a batch: Go
schedules them, a request ends at its deadline of 45 seconds, a wait ends at its
timer; one slot is handed from goroutine to goroutine, and since each ends, weak
fairness is enough. `ModelsFair` of `translate` adds that each call of a model and each
process's tracker goes on: requests have deadlines and attempts are counted. `QueueSpec` of `ledger`,
`PairSpec` of `intake` and `BoundedSpec` of `system` state the fairness of `FairSpec`,
`IntakeFairSpec` and `SystemFairSpec`. No liveness is stated of Pipeline, whose processes may be
killed, nor of CloudApi, Accounts and the local
interfaces: their requests wait for people. (That some request of the studio can go on is the
safety property `OnlySelfLock`.) Nothing is assumed of users, developers, GitHub's deliveries, stray containers,
faults or crashes. Since faults and crashes are bounded, liveness is about what
happens when they stop; rows they strand are excepted by name (`Stranded`),
because no code repairs them.

## Proofs

Every theorem is about the specification that the runs use, for any values of the constants
that satisfy the named assumptions of its module; the runs check those assumptions on their
instances. `PROJECT.json` "theorems" lists the results, with the property of a run that
each states. A theorem `Spec => []P` is proved from an inductive invariant, built from the
parts named here; TLC has seen most of them as invariants of the runs before they were
proved. Steps of an action that leave a part alone are proved once, by a lemma on the
variables or fields it reads (`KeepsExclusive`, `SameTurns`, `RequestStep`, ...).

The assumptions say what the code gives: names of one kind are not names of another
(`DBAssumption`, `ApiAssumption`, `RowAssumption`, `FileAssumption`, `StudioAssumption`, ...; a
branch of a job is no base branch, an absent row is no row), bounds are naturals, limits
that have a default are positive, and there are finitely many files, keys, projects and processes.
Two theorems have a hypothesis of their own, one worker (`OneWorkerDeduplicates`,
`QueueImplementsLedger`); it is named below.

**SequenceProofs** has what the loops of the code need. The library's induction theorems
quantify over an operator, which the provers here cannot instantiate; but they can be
stated for a set: a set of numbers that has 0 and with each number its successor is all of
them (`Induction`, `InductionUpTo`). That follows from the least element of a set (`LeastOf`), which follows
from the library's well-foundedness of `<`. A loop is a function over its
rounds, and what holds of it is the set of rounds at which it does. `FlattenAppend`,
`FlattenConcat` and `Parted` say what concatenation does to content.

**JobSystemProofs**, about the queue.

- `TypeCorrect`: inductive as it stands; one step per action, over lemmas on what each
  query (`UpdateTypes`, `CreateTypes`, `PurgeTypes`) and each helper of the worker leaves.
- `ClaimsExclusive`: a job in hand is in one worker's hands, and its row says running as
  long as there is a row, for any number of workers. A row stops running in three ways: its
  own worker records a status and leaves the job in the same step; a purge deletes it; its
  worker dies and forgets it. A claim takes a pending row, which by the invariant nobody holds.
- `SkipsAreJustified`: the check and the record of a skip are two steps, and a purge may come
  between. `SkipInv` says that a worker about to skip still has its duplicate in the table,
  unless its own row is gone (`SkipBacked`); a purge takes both or neither, since the
  worker's locals name the repository of its row (`HoldsRow`).
- `OneWorkerDeduplicates`, where there is one worker (`ASSUME \A v, w \in Workers : v = w`, the
  deployed arrangement): `StaysFresh`, from the check until the record a push found
  fresh has no duplicate, so its pull request answers none; `InTurn`, jobs still in line
  have later ids than those in hand or with pull requests, so what is recorded afterwards
  is no earlier job. A second worker could record one in between; this is the step at which the hypothesis is needed.

The second part of JobSystemProofs is about what rows say, for any number of workers.

- `TablesStayConsistent`: ids are handed out in order and no row outlives what it belongs to;
  with `TypeCorrect` this is `JobsStaySound`.
- `RowsTellTheTruth`: `RecordInv` ties a worker's locals to GitHub. `PushInv` says of the
  sandboxes that a job may have (its own, a second try, one that was left behind) which may still
  push, and that its branch is then unborn (`Clean`); `HeadInv` that no branch is ahead of its
  repository and a job's branch is newer than its base; `OpenedInv` says that a worker about to record a success has opened its pull request.
  That stranded rows are accounted for is proved by the stranded row that one step can add
  (`StrandsOne`) against the fault or crash that step spends.
- `BranchesPushedOnce` and `EditsAreKept` are action properties from the same invariant.
- `QueueImplementsLedger`: every step of the queue is one of `JobLedger` or a stutter, under the
  mapping of `LedgerEntry` (success is publication, and only an ended row has a key), with one
  worker as above. `KeyInv` bounds the keys that may be recorded and says who may be skipped. JobLedger states no
  fairness, so this is the whole refinement; liveness of the queue is `JobsEnd`.

**SystemProofs**, first about deliveries, for any number of goroutines:

- `NothingDroppedSilently`: `LookedAt`: a goroutine about to answer well has handled its
  delivery, which has a job, was ignored for a reason, or met a lookup that was `blind`.
- `DirectivesKeepSwitches`: `SeenFresh`: switches that a directive has read and not yet written
  are those of the row, unless the row has a newer version.
- `IntakeIsAccounted`: the bound on jobs by counting. The jobs of deliveries, the goroutines that may
  still create one (`Owes`) and the messages nobody holds (`Unheld`) are together no more than the
  deliveries they are about (`Due`) and the duplicates, faults and deaths spent, a death counted
  once for each goroutine it ends (`DebtsPaid`). Each step is a lemma on the cardinalities it moves.

and then about the server with all of its parts, whatever branches the intake ignores:

- `PullRequestsAnswerPushes`: `Aimed` says what a goroutine that got past the check has for
  a branch; `PushesHead` follows the job of a push to its branch through
  rows, locals and sandboxes; `ReadInv` says that what was read of a branch is no newer than it.

**ApiProofs**, about the cloud's handlers and its accounts.

- `RowsAreSound`, `RowsStayMerged`, `CellsStayMerged`: `Handlers` says of each place in a
  handler what the request must hold there (`Prepared`), and `FirstWritten` that an
  optimize which stopped between its two writes will find the first.
- `AccountsAreSound`, `TeamsStayKept`: `Sound` adds `Underway`, what a request in the middle of its
  steps has made sure of: a login about to save has a team that exists; a list about to
  place an installation read the user's row, or is `blind`.

**TranslatorProofs**, about the way from keys to texts. `TranslatorIsSound` collects the first
three results, over lemmas of their own.

- `TranslatorTypeCorrect` together with `NoBatchesYet` and `StagesMean` (a batch that asks has an attempt left); `MemoryIsFaithful`: an answer is stored under the text it was asked for
  (`AnsweredMaps`); `FallsBackAfterAsking`: `Batched` says where a key without a value is at
  each part of the function; `AnswersAreKept`: a key which a loop has still to visit
  has no value (`NoValueYet`).
- `CallsReturnAsPromised`: `PromiseInv`: what the lookup set is what memory and
  dictionaries had (`LooksInMemory`), what is asked for is what they missed (`AsksForMissing`), and
  each key is visited, asked for or has a value that Translation allows (`Covered`, `Promised`).
- `DownloadIsSound`: as long as calls have not met, the one that streams has the
  temporary path to itself, has written it from the first block on, and the model is another
  file (`Alone`); an inode that is not made yet is nobody's (`Named`, `Future`).
- `CompletionIsSound`: a call has the pieces of the batches that are done, in order, unless a
  batch came back short, and all of them when it stops asking (`HasPieces`); the tracker of a
  process that is alone agrees with the file (`Counted`). That the pieces of a text make it up
  is `CutWhole`, by induction over the segments that `Chunks` packs and over the texts before
  the cursor; it was a hypothesis of this theorem until it was proved.

**PipelineProofs**, about runs over one project, for any number of runs, files and locales.
`PipelineIsSound` collects three invariants, each over the types (`PipelineTypeCorrect`, with a
bound on the rounds that are left).

- `ReportsAreTrue`: `InHand`: once a run has translated it has a value for each key, and a
  verdict about these values and no others; a retry asks only for flagged keys.
- `TextsAreRecoverable` and `CodeIsKnown`: a string goes from the code over a checkpoint to the
  source catalog. While runs take turns and nothing has failed, a backup is of a literal and what
  the code refers to is in the catalog or in the run that will write it (`Literals`, `Knows`).
  With one mishap: before it nothing is missing, even if runs have met (`Safe`); after it,
  a string that is in no file and no checkpoint is in the catalog, or in the run that took it
  (`Traced`). A lemma for each write says what a failed or killed write leaves.
- `MemoryStaysTrue`: values are only ever under their own keys and texts (`Keyed`); between
  runs the memory has what catalogs have from it, and a run what it carries (`Agree`).
- `PersonsAreKept`: an action property, by what each write may do to a value of a person.

**LocalProofs**, about the interfaces.

- `SettingsAreKept`: a saver that met nobody has a current copy of what it did not change
  (`CopiesCurrent`), and what it saved is in the files (`SavedSoFar`).
- `TerminalIsSound`: the cursor is on a row that the view has, and the string a key would judge
  is there (`OnRow`, `OnString`); nobody types while a command is at work (`Tidy`).
- `StudioIsSound`: `StudioRec` has ten parts. The lock is held from the switch of the root to the
  adoption of the project (`LockHeld`); requests that saw no switch work on the open project
  (`OnRoot`), and what they left in memory (`Shows`), on disk (`OnDisk`), in the
  platform (`Matched`) and on the heap (`Strategies`) is about it.
- `TextsAreKept`: whoever has the texts of a catalog in hand has those on disk, his own change
  aside, unless another wrote the catalog meanwhile (`Unchanged`).
- `TurnsStayTogether`: the last turn in the copilot's memory is a question exactly while its
  asker holds the engine's lock, and then it is his (`LastTurn`); seeds are no turns.
- `RepliesAreFaithful`: the types of the copilot, with their bounds, and that a reply shows every
  card that was made and no results or calls that were not. `Heeded`: as long as a page
  is open, what it heard followed by what is in the channel is what the engine made, for each kind of
  event. An event is appended at one end and taken from the other, and the collector that has
  left drains the rest (`OfType` of a concatenation, by induction). The bound on the
  channel is `ChatAssumption`: it holds the events of a plan, so only words of an answer are dropped.

**PatchProofs**, about rewriting a file, for any layout, any set of candidates and any number of
runs and edits in between. The assumption on layouts is what a project begins with: files
that parse, have no calls yet, at most one directive and import, and no two texts that are the
same one (texts are named by numbers, so the name stands for the place).

- `RewriteLosesNothing`: sorting gives each patch once and later ones first (`Sorted`), dropping gives
  patches that do not meet (`Apart`). While they are applied from the end, everything before
  the last one applied is the old file (`Ahead`), so each patch finds at its place what the
  plan saw there, and replaces texts by a call that says the same.
- `FileIsWhole`: a patch moves the tokens behind it by one number of places (`Shift`). Components and
  their ends move with them, so the syntax tree after the patch is the one before it,
  shifted (`Edited`): what is around a token, and which component is the innermost, is kept.
  The loop's invariant then says of each call that it has its hook or that the
  hook is among the patches still waiting (`Waiting`, `Hooked`). `PatchIInv` adds to the invariant that no two
  texts are the same (`Sayings`), which tells new calls from those that were there; the import, the directive and
  the components that developers add are insertions of the same kind.

What the proofs changed in the model. `OneMishap` of Pipeline let two files have
one name, which a rollback takes for each other (the run `rollback` shows it), so `TextRecoverable`
was false of such files; `PersonKept` was false of the next edit by a person, and of an empty
value, which counts as missing. Two
guards that overlapped in a CASE (a job's final status, the events of a page that left) were
made exclusive, as they are in the code. `OnlySelfLock` uses ENABLED and was taken out of
`StudioInv`, so that the rest of it could be proved; `TurnsTogether` speaks of positions instead of a
filtered sequence, for the same reason, and is a property of its own. Inodes of a
download were chosen among unused ones, and are now named, which a CHOOSE over content hid:
that a call makes at most one file for each mirror.

The loops of Patches, Chat and Completion that were RECURSIVE operators or folds are recursive
functions over their rounds, which the provers can read; they are evaluated to the same values.

Only model-checked:

- all liveness (`JobsEnd`, `IntakeSettles`, `DeliveriesSettle`, `CallsReturn`) and `OnlySelfLock`:
  fairness and ENABLED are out of the prover's reach;
- the four properties that the code violates.

## Not modelled, and why

The text of translations, prompts, pull requests and logs; the sealing and signing of
cookies and keys (stateless); listing endpoints, `GetSEOOverview` and other reads; the pages of
the web application; rendering. JobSystem and WebhookIntake see of the settings row only
the webhook switches and one version, and one cell of the matrix: columns and keys are in CloudApi,
which in turn sees of the worker only that it may have written the row. Two server
processes that deliver webhooks at once are covered by `jobs` for the worker
only. A branch that a job pushes has the job's id, so the equal names that two
jobs of one second would get are not seen. Repositories are not added again
after a deletion (they would get a new id). A user's old row with the same address and no
`github_id` makes the first login fail (`internal/db/queries.go:137`): the model has it
(`Legacy`), as an early return. The choice of a client for a model (`resolveClientForRepo`) and the credentials
it decrypts are left out of CloudApi: they are read, and change no row. A scan reads the working
copy as the last scan left it (`internal/api/handlers.go:846`), however old; the texts of a scan are one
(`Scanned`), so its age does not show. An optimization that is applied replaces later
edits of its cells (`handlers.go:2403`), which `CellsMerged` allows by name.

Locally: what agents do by prompts (context, scouts, directives), the repair agent (a
loop of compiler and model over texts; its rollback is that of Checkpoints), dependency
installation and the build check, formats of catalogs, and platforms other than React, which
replace ranges the same way and have no hooks. What the tools of the copilot compute is left out: they call the
components above, whose writes are modelled there. In Studio the maps that a
handler encodes after it has unlocked (`pkg/web/server.go:1527`) are read in the step before; Go
may find them changed while it reads. A disk that fails after a catalog was truncated is left
out there; Pipeline has such a write. The goroutine of a run reads the root a third time, for
the configuration that names its model (569), which no property is about. A component that a developer adds to a file which
uses the hook already gets no hook (`latecomers` in `HooksInScope`). The connection tests and the
local model's runner are processes outside. In Pipeline a source file has
one string and that string a placeholder; the three kinds of damage a patch with
stale ranges can do are one ("garbled"). A model answers only keys it was asked for
(Translator lets it answer others). A checkpoint's directory listing and old
checkpoints are not removed by anything, and that is so in the model. The rollback
of the terminal interface and of the chat calls the same function. A backup that is
torn when it is written is in the model, but `TextRecoverable` does not speak of it:
its error is dropped and a rollback would write the torn copy over the file, so
that string is lost by one failed write and a rollback after a rejected patch.
`handleApplyChanges` is left out because it writes only plans with
`RefactoredContent`, which `GenerateRefactorPlan` alone does not fill (but for
catalogs, with the content they have).

## Plan

Done: the job queue (CloudDB, Worker, JobSystem, JobLedger), the intake, their composition
(CloudSystem), Translation, Translator, Pipeline; the requests of the API (CloudApi) and who owns
what (Accounts); the model clients and the download; patches of React files; the studio, the terminal,
the settings and the copilot. Proved: what "Proofs" lists, which is every safety invariant,
action property and refinement of the runs but for those it names as only model-checked.

Left, in this order:

1. Proofs: that `Translator` implements `Translation` for a whole call, so that Pipeline's
   step is a lemma and not a reading; that pages hear events in the order in which they were sent.
2. The repair agent with its rollback between Pipeline's writes.
3. Two locales in Pipeline with the cross-locale retry, and two servers that
   deliver webhooks.
