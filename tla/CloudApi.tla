------------------------------- MODULE CloudApi -------------------------------
(***************************************************************************)
(* The handlers of internal/api/handlers.go that read rows of one          *)
(* repository, think (a person's form, a language model, a scan of the     *)
(* code) and write rows back, over the tables of internal/db/queries.go:   *)
(* repo_settings, repo_translation_matrix and the SEO tables.              *)
(*                                                                         *)
(* A request is a process.  A query is one step (one connection, see       *)
(* CloudDB); between two queries of a request any other request may act.   *)
(* A query may fail, and each handler does what its code does then.        *)
(*                                                                         *)
(* Abstractions.  A text is the request that supplied it, from its body or *)
(* from the answer of its model, or was scanned from the source code.  A   *)
(* settings row has the columns some handler treats on its own: provider   *)
(* (with the model), the override key (the provider it was given for), the *)
(* webhook switches, the directive; locales and tone                       *)
(* go with the directive.  The matrix has the source locale "en" and one   *)
(* target locale "fr".  An SEO strategy has a description (category and    *)
(* product description, which models infer) and a goal (the rest, which    *)
(* only people set).                                                       *)
(***************************************************************************)
EXTENDS Naturals, FiniteSets

CONSTANTS
    Requests,   \* requests ever received, each with a handler of its own
    Kinds,      \* what they may ask for, a subset of AllKinds
    Keys,       \* translation keys of the repository
    Providers,  \* language model providers
    NoRow,      \* the absence of a row
    NoText,     \* the empty text and the absence of a cell
    NoKey,      \* the empty override key
    Scanned,    \* a text scanned from the source code
    MaxFails    \* bound: queries that fail

AllKinds == {"save", "quick", "cell", "copilot", "strategy", "analyze", "scout",
             "optimize", "apply", "trigger", "config", "translate",
             "key", "reset"}

ASSUME ApiAssumption ==
    /\ Kinds \subseteq AllKinds
    /\ MaxFails \in Nat
    /\ NoText # Scanned /\ {NoText, Scanned} \cap Requests = {}
    /\ NoKey \notin Providers

VARIABLES
    settings,   \* row of repo_settings
    matrix,     \* repo_translation_matrix
    strategy,   \* row of repo_seo_strategies
    seo,        \* the other SEO tables: the request that last wrote to each
    woven,      \* repo_seo_optimizations: key -> text
    queued,     \* requests that inserted a job
    clone,      \* the working copy of getRepoScanDir has files
    reqs,       \* the requests and their local variables
    fails,      \* queries that have failed
    torn        \* history: an optimize or a reset came between the two
                \* writes of another optimize

apiTables == <<settings, matrix, strategy, seo, woven, queued>>
apiVars   == <<settings, matrix, strategy, seo, woven, queued, clone, reqs, fails, torn>>

Locales  == {"en", "fr"}
Cells    == Locales \X Keys
Texts    == {NoText, Scanned} \cup Requests
Row      == [provider : Providers, override : Providers \cup {NoKey},
             switches : BOOLEAN, directive : Requests \cup {NoText}]
Strategy == [desc : Requests \cup {NoText}, goal : Requests \cup {NoText}]

(***************************************************************************)
(* What a request asks for: its handler and the fields of its body that    *)
(* decide something.                                                       *)
(***************************************************************************)
Plain  == [kind : Kinds \cap {"strategy", "analyze", "scout", "optimize",
                              "apply", "translate", "reset"}]
Bodies == Plain
    \cup [kind : Kinds \cap {"save"}, provider : Providers,
          key : {"keep", "clear", "give"}, switches : {"keep", "on", "off"}]
    \cup [kind : Kinds \cap {"quick"}, provider : Providers]
    \cup [kind : Kinds \cap {"config"}, provider : Providers, field : {"provider", "directive"}]
    \cup [kind : Kinds \cap {"trigger"}, directive : BOOLEAN]
    \cup [kind : Kinds \cap {"cell", "copilot", "key"}, cell : Cells]

\* An absent row is no row of any kind.
ASSUME RowAssumption == NoRow \notin Bodies \cup Row \cup Strategy

Default == [desc |-> NoText, goal |-> NoText]

Idle == [pc |-> "idle", body |-> NoRow, row |-> NoRow, plan |-> NoRow,
         copy |-> [c \in Cells |-> NoText]]

ApiTypeOK ==
    /\ settings \in Row \cup {NoRow}
    /\ matrix \in [Cells -> Texts]
    /\ strategy \in Strategy \cup {NoRow}
    /\ seo \in [{"competitors", "keywords", "optimizations", "metrics"} ->
                  Requests \cup {NoText}]
    /\ woven \in [Keys -> Requests \cup {NoText}]
    /\ queued \subseteq Requests
    /\ clone \in BOOLEAN
    /\ \A q \in Requests :
          /\ reqs[q].pc \in {"idle", "read", "write", "ensure", "scan", "plan", "infer",
                             "first", "second", "insert", "done"}
          /\ reqs[q].body \in Bodies \cup {NoRow}
          /\ reqs[q].row \in Row \cup {NoRow}
          /\ reqs[q].plan \in Strategy \cup {NoRow}
          /\ reqs[q].copy \in [Cells -> Texts]
          /\ reqs[q].pc \notin {"idle", "done"} => reqs[q].body # NoRow
          /\ reqs[q].pc = "infer" => reqs[q].plan # NoRow
    /\ fails \in 0 .. MaxFails
    /\ torn \in BOOLEAN

ApiInit ==
    /\ settings \in {NoRow} \cup
          [provider : Providers, override : {NoKey}, switches : {TRUE}, directive : {NoText}]
    /\ matrix = [c \in Cells |-> NoText]
    /\ strategy \in {NoRow, Default}
    /\ seo = [t \in {"competitors", "keywords", "optimizations", "metrics"} |-> NoText]
    /\ woven = [k \in Keys |-> NoText]
    /\ queued = {}
    /\ clone = FALSE
    /\ reqs = [q \in Requests |-> Idle]
    /\ fails = 0
    /\ torn = FALSE

Kind(q) == reqs[q].body.kind
At(q, pc, kinds) == reqs[q].pc = pc /\ Kind(q) \in kinds

Works == UNCHANGED fails
Fails == fails < MaxFails /\ fails' = fails + 1

\* The last step of a handler: its locals go.  What it answers, and whether
\* the client of a chat is still there to hear it, changes no row.
Reply(q) ==
    reqs' = [reqs EXCEPT ![q].pc = "done", ![q].body = NoRow, ![q].row = NoRow,
                         ![q].plan = NoRow, ![q].copy = Idle.copy]
Goto(q, pc) == reqs' = [reqs EXCEPT ![q].pc = pc]

(***************************************************************************)
(* The mux starts the handler; authorizeRepo has let it pass.              *)
(***************************************************************************)
First(kind) ==
    IF kind \in {"cell", "strategy", "reset"} THEN "write"
    ELSE IF kind = "analyze" THEN "ensure"
    ELSE IF kind \in {"scout", "optimize"} THEN "plan"
    ELSE "read"

Receive(q) ==
    /\ reqs[q].pc = "idle"
    /\ \E b \in Bodies :
          reqs' = [reqs EXCEPT ![q].body = b, ![q].pc = First(b.kind)]
    /\ UNCHANGED <<settings, matrix, strategy, seo, woven, queued, clone, fails, torn>>

(***************************************************************************)
(* repo_settings: the settings form, the quick model switch and the hooks  *)
(* of the chat read the row, change some columns of what they read and     *)
(* write all of them.  A read that fails leaves the form and the switch    *)
(* with no row, as if the repository had none; a hook gives up.            *)
(***************************************************************************)
ReadSettings(q) ==
    /\ At(q, "read", {"save", "quick", "config", "trigger"})
    /\ IF Kind(q) = "trigger" /\ ~reqs[q].body.directive
       THEN Works /\ Goto(q, "insert")
       ELSE \/ Works /\ reqs' = [reqs EXCEPT ![q].pc = "write", ![q].row = settings]
            \/ Fails /\ Goto(q, "write")
    /\ UNCHANGED <<settings, matrix, strategy, seo, woven, queued, clone, torn>>

\* Mistake: a request without a key removes the stored one.
MergedButKey(q, row, b) ==
    [provider  |-> b.provider,
     override  |-> IF b.key = "give" THEN b.provider ELSE NoKey,
     switches  |-> IF b.switches = "keep" THEN row = NoRow \/ row.switches
                   ELSE b.switches = "on",
     directive |-> q]

Merged(q, row, b) ==
    [provider  |-> b.provider,
     override  |-> IF b.key = "give" THEN b.provider
                   ELSE IF b.key = "clear" \/ row = NoRow THEN NoKey ELSE row.override,
     switches  |-> IF b.switches = "keep" THEN row = NoRow \/ row.switches
                   ELSE b.switches = "on",
     directive |-> q]

Switched(row, b) ==
    IF row = NoRow
    THEN [provider |-> b.provider, override |-> NoKey, switches |-> FALSE,
          directive |-> NoText]
    ELSE [row EXCEPT !.provider = b.provider]

NewRow(q, row, b) ==
    IF b.kind = "save" THEN Merged(q, row, b)
    ELSE IF b.kind = "quick" \/ (b.kind = "config" /\ b.field = "provider")
    THEN Switched(row, b)
    ELSE [row EXCEPT !.directive = q]

WriteSettings(q) ==
    /\ At(q, "write", {"save", "quick", "config", "trigger"})
    /\ LET row  == reqs[q].row
           b    == reqs[q].body
           hook == b.kind \in {"config", "trigger"}
           then == IF b.kind = "trigger" THEN Goto(q, "insert") ELSE Reply(q)
       IN \/ hook /\ row = NoRow /\ then /\ UNCHANGED settings /\ Works
          \/ /\ ~hook \/ row # NoRow
             /\ \/ settings' = NewRow(q, row, b) /\ then /\ Works
                \/ UNCHANGED settings /\ then /\ Fails
    /\ UNCHANGED <<matrix, strategy, seo, woven, queued, clone, torn>>

\* The job trigger hook goes on to insert the job, whatever became of the
\* directive.
InsertJob(q) ==
    /\ reqs[q].pc = "insert"
    /\ \/ Works /\ queued' = queued \cup {q} /\ Reply(q)
       \/ Fails /\ UNCHANGED queued /\ Reply(q)
    /\ UNCHANGED <<settings, matrix, strategy, seo, woven, clone, torn>>

(***************************************************************************)
(* repo_translation_matrix: an edit of a cell, the copilot that asks a     *)
(* model first, and the chat hooks that write back the whole matrix.       *)
(***************************************************************************)
UpdateCell(q) ==
    /\ At(q, "write", {"cell"})
    /\ \/ Works /\ matrix' = [matrix EXCEPT ![reqs[q].body.cell] = q] /\ Reply(q)
       \/ Fails /\ UNCHANGED matrix /\ Reply(q)
    /\ UNCHANGED <<settings, strategy, seo, woven, queued, clone, torn>>

\* No settings row, no key: the copilot refuses.
CopilotAsk(q) ==
    /\ At(q, "read", {"copilot"})
    /\ \/ settings # NoRow /\ Works /\ Goto(q, "write")
       \/ Works /\ Reply(q)
       \/ Fails /\ Reply(q)
    /\ UNCHANGED <<settings, matrix, strategy, seo, woven, queued, clone, torn>>

\* The model answers; the write is applied directly or left to the person,
\* and its error is dropped.
CopilotApply(q) ==
    /\ At(q, "write", {"copilot"})
    /\ \/ Works /\ UNCHANGED matrix /\ Reply(q)
       \/ Works /\ matrix' = [matrix EXCEPT ![reqs[q].body.cell] = q] /\ Reply(q)
       \/ Fails /\ UNCHANGED matrix /\ Reply(q)
    /\ UNCHANGED <<settings, strategy, seo, woven, queued, clone, torn>>

\* A hook whose read fails goes on with an empty matrix.
ReadMatrix(q) ==
    /\ At(q, "read", {"key", "translate"})
    /\ \/ Works /\ reqs' = [reqs EXCEPT ![q].pc = "write", ![q].copy = matrix]
       \/ Fails /\ Goto(q, "write")
    /\ UNCHANGED <<settings, matrix, strategy, seo, woven, queued, clone, torn>>

\* The cells that the body of a request names.
Asked(q) == IF Kind(q) \in {"cell", "copilot", "key"} THEN {reqs[q].body.cell}
            ELSE IF Kind(q) = "translate" THEN {"fr"} \X Keys
            ELSE IF Kind(q) = "reset" THEN Cells
            ELSE {}

\* UpsertTranslationMatrix writes the cells it is given and deletes none.
Upserted(old, new) == [c \in Cells |-> IF new[c] = NoText THEN old[c] ELSE new[c]]

WriteMatrix(q) ==
    /\ At(q, "write", {"key", "translate"})
    /\ LET new == [c \in Cells |-> IF c \in Asked(q) THEN q ELSE reqs[q].copy[c]]
       IN \/ Works /\ matrix' = Upserted(matrix, new) /\ Reply(q)
          \/ Fails /\ UNCHANGED matrix /\ Reply(q)
    /\ UNCHANGED <<settings, strategy, seo, woven, queued, clone, torn>>

(***************************************************************************)
(* The SEO studio.  ensureSourceStringsExtracted takes the source texts of *)
(* the matrix or, when it has none, scans the working copy and writes them *)
(* to the matrix; a failed read looks like an empty matrix.                *)
(***************************************************************************)
AfterEnsure(q) == IF Kind(q) = "analyze" THEN "plan" ELSE "infer"

\* Mistake: a matrix without translations counts as empty.
HasTarget(copy) == \E k \in Keys : copy[<<"fr", k>>] # NoText

HasSource(copy) == \E k \in Keys : copy[<<"en", k>>] # NoText

EnsureRead(q) ==
    /\ reqs[q].pc = "ensure"
    /\ \/ /\ Works
          /\ reqs' = [reqs EXCEPT ![q].copy = matrix,
                         ![q].pc = IF HasSource(matrix) THEN AfterEnsure(q) ELSE "scan"]
       \/ Fails /\ Goto(q, "scan")
    /\ UNCHANGED <<settings, matrix, strategy, seo, woven, queued, clone, torn>>

\* getRepoScanDir: a working copy is kept for ever once it has files.  Else
\* one is cloned, or the directory of the last job is read in place, or
\* there is nothing to scan.
EnsureScan(q) ==
    /\ reqs[q].pc = "scan"
    /\ clone' \in {clone, TRUE}
    /\ LET copy == [c \in Cells |-> IF c[1] = "en" THEN Scanned ELSE reqs[q].copy[c]]
       IN \/ /\ reqs' = [reqs EXCEPT ![q].copy = copy, ![q].pc = AfterEnsure(q)]
             /\ \/ Works /\ matrix' = Upserted(matrix, copy)
                \/ Fails /\ UNCHANGED matrix
          \/ /\ IF Kind(q) = "analyze" THEN Reply(q) ELSE Goto(q, "infer")
             /\ UNCHANGED matrix /\ Works
    /\ UNCHANGED <<settings, strategy, seo, woven, queued, torn>>

SaveStrategy(q) ==
    /\ At(q, "write", {"strategy"})
    /\ \/ Works /\ strategy' = [desc |-> q, goal |-> q] /\ Reply(q)
       \/ Fails /\ UNCHANGED strategy /\ Reply(q)
    /\ UNCHANGED <<settings, matrix, seo, woven, queued, clone, torn>>

\* Mistake: the scout goes on without a strategy.
OnlyOptimizeNeedsStrategy(q) == Kind(q) = "optimize"

\* Analyze makes up a strategy when it reads none; the others refuse.
NeedsStrategy(q) == Kind(q) \in {"scout", "optimize"}

ReadStrategy(q) ==
    /\ reqs[q].pc = "plan"
    /\ \E failed \in BOOLEAN :
          LET plan == IF failed THEN NoRow ELSE strategy
          IN /\ IF failed THEN Fails ELSE Works
             /\ IF plan = NoRow /\ NeedsStrategy(q) THEN Reply(q)
                ELSE IF Kind(q) = "analyze"
                THEN reqs' = [reqs EXCEPT ![q].pc = "infer",
                                 ![q].plan = IF plan = NoRow THEN Default ELSE plan]
                ELSE reqs' = [reqs EXCEPT ![q].pc = "ensure", ![q].plan = plan]
    /\ UNCHANGED <<settings, matrix, strategy, seo, woven, queued, clone, torn>>

\* Mistake: the other columns are those of a new strategy.
DescribedAfresh(q) == [Default EXCEPT !.desc = q]

Described(q) == [reqs[q].plan EXCEPT !.desc = q]

\* A model describes the product.  Analyze and the scout write the whole
\* strategy they read with the new description; the scout drops the error.
InferOverview(q) ==
    /\ At(q, "infer", {"analyze", "scout"})
    /\ LET next == IF Kind(q) = "analyze" THEN Reply(q) ELSE Goto(q, "first")
       IN \/ Works /\ UNCHANGED strategy /\ next     \* no description
          \/ Works /\ strategy' = Described(q) /\ next
          \/ Fails /\ UNCHANGED strategy /\ next
    /\ UNCHANGED <<settings, matrix, seo, woven, queued, clone, torn>>

\* The scout writes competitors, then keywords; errors are dropped.
WriteFindings(q) ==
    /\ Kind(q) = "scout" /\ reqs[q].pc \in {"first", "second"}
    /\ LET first == reqs[q].pc = "first"
           table == IF first THEN "competitors" ELSE "keywords"
       IN \/ Works /\ UNCHANGED seo /\ first /\ Reply(q)   \* the search fails
          \/ /\ \/ Works /\ seo' = [seo EXCEPT ![table] = q]
                \/ Fails /\ UNCHANGED seo
             /\ IF first THEN Goto(q, "second") ELSE Reply(q)
    /\ UNCHANGED <<settings, matrix, strategy, woven, queued, clone, torn>>

\* Optimize weaves some of the keys it has text for (three made-up keys when
\* it has none), writes the optimizations, then their metrics; errors are
\* dropped.
Between(q) == At(q, "second", {"optimize"})

Weave(q) ==
    /\ At(q, "infer", {"optimize"})
    /\ LET known == {k \in Keys : \E l \in Locales : reqs[q].copy[<<l, k>>] # NoText}
       IN \E ks \in SUBSET (IF known = {} THEN Keys ELSE known) :
             /\ known # {} => ks # {}
             /\ \/ /\ Works
                   /\ woven' = [k \in Keys |-> IF k \in ks THEN q ELSE woven[k]]
                   /\ seo' = [seo EXCEPT !["optimizations"] = q]
                \/ Fails /\ UNCHANGED <<woven, seo>>
    /\ Goto(q, "second")
    /\ torn' = (torn \/ \E p \in Requests \ {q} : Between(p))
    /\ UNCHANGED <<settings, matrix, strategy, queued, clone>>

\* Mistake: metrics that are there are not replaced.
InsertMetrics(q) ==
    /\ Between(q)
    /\ \/ Works /\ seo' = IF seo["metrics"] = NoText THEN [seo EXCEPT !["metrics"] = q] ELSE seo
       \/ Fails /\ UNCHANGED seo
    /\ Reply(q)
    /\ UNCHANGED <<settings, matrix, strategy, woven, queued, clone, torn>>

WriteMetrics(q) ==
    /\ Between(q)
    /\ \/ Works /\ seo' = [seo EXCEPT !["metrics"] = q]
       \/ Fails /\ UNCHANGED seo
    /\ Reply(q)
    /\ UNCHANGED <<settings, matrix, strategy, woven, queued, clone, torn>>

\* Apply reads the optimizations and writes their cells one by one, counting
\* those it could not write too; ToApply is what it still has in hand.
ReadWoven(q) ==
    /\ At(q, "read", {"apply"})
    /\ \/ /\ Works
          /\ IF \A k \in Keys : woven[k] = NoText
             THEN Reply(q)
             ELSE reqs' = [reqs EXCEPT ![q].pc = "write",
                              ![q].copy = [c \in Cells |-> IF c[1] = "fr" THEN woven[c[2]]
                                                           ELSE NoText]]
       \/ Fails /\ Reply(q)
    /\ UNCHANGED <<settings, matrix, strategy, seo, woven, queued, clone, torn>>

ToApply(q) == {c \in Cells : reqs[q].copy[c] # NoText}

ApplyCell(q) ==
    /\ At(q, "write", {"apply"})
    /\ \E c \in ToApply(q) :
          /\ \/ Works /\ matrix' = [matrix EXCEPT ![c] = reqs[q].copy[c]]
             \/ Fails /\ UNCHANGED matrix
          /\ IF ToApply(q) = {c} THEN Reply(q)
             ELSE reqs' = [reqs EXCEPT ![q].copy[c] = NoText]
    /\ UNCHANGED <<settings, strategy, seo, woven, queued, clone, torn>>

\* ResetRepoData empties the tables but the settings in one transaction; the
\* handler then removes the working copy.
ResetTables(q) ==
    /\ At(q, "write", {"reset"})
    /\ \/ /\ Works
          /\ matrix' = [c \in Cells |-> NoText]
          /\ strategy' = NoRow
          /\ seo' = [t \in DOMAIN seo |-> NoText]
          /\ woven' = [k \in Keys |-> NoText]
          /\ queued' = {}
          /\ torn' = (torn \/ \E p \in Requests : Between(p))
          /\ Goto(q, "second")
       \/ Fails /\ Reply(q) /\ UNCHANGED <<matrix, strategy, seo, woven, queued, torn>>
    /\ UNCHANGED <<settings, clone>>

RemoveCopy(q) ==
    /\ At(q, "second", {"reset"})
    /\ clone' = FALSE /\ Reply(q)
    /\ UNCHANGED <<settings, matrix, strategy, seo, woven, queued, fails, torn>>

Serve(q) ==
    /\ reqs[q].pc \notin {"idle", "done"}
    /\ \/ ReadSettings(q) \/ WriteSettings(q) \/ InsertJob(q)
       \/ UpdateCell(q) \/ CopilotAsk(q) \/ CopilotApply(q) \/ ReadMatrix(q) \/ WriteMatrix(q)
       \/ EnsureRead(q) \/ EnsureScan(q) \/ SaveStrategy(q) \/ ReadStrategy(q)
       \/ InferOverview(q) \/ WriteFindings(q) \/ Weave(q) \/ WriteMetrics(q)
       \/ ReadWoven(q) \/ ApplyCell(q)
       \/ ResetTables(q) \/ RemoveCopy(q)

ApiNext == \E q \in Requests : Receive(q) \/ Serve(q)
ApiSpec == ApiInit /\ [][ApiNext]_apiVars
-----------------------------------------------------------------------------
(***************************************************************************)
(* Properties                                                              *)
(***************************************************************************)
Acts(q) == reqs'[q] # reqs[q]

\* The columns of the settings row that the body of a request names.
Named(q) ==
    LET b == reqs[q].body
    IN IF b.kind = "save"
       THEN {"provider", "directive"} \cup (IF b.key = "keep" THEN {} ELSE {"override"})
                                      \cup (IF b.switches = "keep" THEN {} ELSE {"switches"})
       ELSE IF b.kind = "config" THEN {b.field}
       ELSE IF b.kind = "quick" THEN {"provider"} ELSE {"directive"}

\* A handler that saves settings changes a column that its request did not
\* name only if the row is no longer the one it read: another request saved
\* in between, or its read failed.  (handleUpsertSettings keeps the override
\* key and the switches, handleQuickSwitchModel and the hooks all the rest.)
SettingsMerged ==
    [][settings # NoRow /\ settings' # settings =>
         \E q \in Requests :
            /\ Acts(q)
            /\ \/ reqs[q].row # settings
               \/ \A f \in DOMAIN settings \ Named(q) : settings'[f] = settings[f]]_apiVars

\* A text of the matrix is replaced only by a request for its cell, by an
\* optimization that is applied, or by a writer of the whole matrix that read
\* the cell before the text came there.
\* (The hooks of the chat write back all they read; the scan for source
\* texts writes only where it saw none.)
CellsMerged ==
    [][\A c \in Cells : matrix[c] # NoText /\ matrix'[c] # matrix[c] =>
         \E q \in Requests :
            /\ Acts(q)
            /\ \/ c \in Asked(q)
               \/ Kind(q) = "apply" /\ matrix'[c] = reqs[q].copy[c]
               \/ reqs[q].copy[c] # matrix[c]]_apiVars

\* What people set in the SEO strategy (goal, scope, locales) is not undone
\* by a model's description, unless they set it while the model was at work.
GoalKept ==
    [][strategy # NoRow /\ strategy' # NoRow /\ strategy'.goal # strategy.goal =>
         \E q \in Requests :
            Acts(q) /\ (Kind(q) = "strategy" \/ reqs[q].plan # strategy)]_apiVars

\* The metrics of the SEO studio are those of the optimizations beside them,
\* unless an optimize is between its two writes, another one or a reset came
\* between them, or a write failed.
MetricsMatch ==
    \/ seo["metrics"] = seo["optimizations"]
    \/ torn \/ fails > 0
    \/ \E q \in Requests : Between(q)

\* All of what a state of these rows may be.
ApiInv == ApiTypeOK /\ MetricsMatch

\* Rows and matrices that are written whole undo no column and no cell that
\* somebody else has set.
RowsMerged == SettingsMerged /\ GoalKept /\ CellsMerged
=============================================================================
