------------------------------ MODULE ApiProofs ------------------------------
(***************************************************************************)
(* The requests of the cloud server: handlers that read rows, think and    *)
(* write them back, for any number of requests, keys and failures; and who *)
(* owns what, for any number of accounts, browsers, installations and      *)
(* teams.  The two share no variable.                                      *)
(*                                                                         *)
(* ApiRec adds to the types what a handler has made sure of by the step it *)
(* is at: one that infers has a strategy, one that scans the code has seen *)
(* no source text, and one that is between the two writes of an optimize   *)
(* finds its own first write, unless the history says otherwise.           *)
(*                                                                         *)
(* For accounts the invariant adds to the types what a request in the      *)
(* middle has made sure of (Underway); every step then only adds rows.     *)
(***************************************************************************)
EXTENDS CloudApi, Accounts, TLAPS

Steps == {"idle", "read", "write", "ensure", "scan", "plan", "infer",
          "first", "second", "insert", "done"}
Handler == [pc : Steps, body : Bodies \cup {NoRow}, row : Row \cup {NoRow},
            plan : Strategy \cup {NoRow}, copy : [Cells -> Texts]]

\* A handler at work has a body, and what it did before its step.
Prepared(r) ==
    /\ r.pc \notin {"idle", "done"} => r.body # NoRow
    /\ r.pc = "infer" => r.plan # NoRow
    /\ r.pc \in {"ensure", "scan"} /\ r.body.kind # "analyze" => r.plan # NoRow
    /\ r.pc \in {"idle", "ensure"} => r.copy = Idle.copy
    /\ r.pc = "plan" =>
          \/ r.body.kind = "analyze"
          \/ r.body.kind \in {"scout", "optimize"} /\ r.copy = Idle.copy
    /\ r.pc = "scan" => ~HasSource(r.copy)

Handlers == reqs \in [Requests -> Handler] /\ \A q \in Requests : Prepared(reqs[q])

\* The conjuncts of ApiTypeOK about the tables and the history.
Tables ==
    /\ settings \in Row \cup {NoRow}
    /\ matrix \in [Cells -> Texts]
    /\ strategy \in Strategy \cup {NoRow}
    /\ seo \in [{"competitors", "keywords", "optimizations", "metrics"} ->
                  Requests \cup {NoText}]
    /\ woven \in [Keys -> Requests \cup {NoText}]
    /\ queued \subseteq Requests
    /\ clone \in BOOLEAN /\ fails \in 0 .. MaxFails /\ torn \in BOOLEAN

\* Between its two writes an optimize finds the first one.
FirstWritten ==
    \A q \in Requests : Between(q) => seo["optimizations"] = q \/ torn \/ fails > 0

ApiRec == Handlers /\ Tables /\ FirstWritten /\ MetricsMatch

\* Only request q moves on, and becomes r.
Moves(q, r) ==
    /\ reqs' \in [Requests -> Handler]
    /\ reqs'[q] = r
    /\ \A p \in Requests : p # q => reqs'[p] = reqs[p]

Replied(r) == [r EXCEPT !.pc = "done", !.body = NoRow, !.row = NoRow,
                        !.plan = NoRow, !.copy = Idle.copy]

LEMMA RecImpliesInv == ApiRec => ApiInv
BY DEF ApiRec, Handlers, Prepared, Tables, ApiInv, ApiTypeOK, Handler, Steps

-----------------------------------------------------------------------------
(* How a handler moves on. *)

LEMMA EmptyCopy == Idle.copy \in [Cells -> Texts] /\ ~HasSource(Idle.copy)
                   /\ \A c \in Cells : Idle.copy[c] = NoText
BY DEF Idle, Texts, HasSource, Cells, Locales

LEMMA GotoMoves ==
    ASSUME Handlers, NEW q \in Requests, NEW pc \in Steps, Goto(q, pc)
    PROVE  /\ [reqs[q] EXCEPT !.pc = pc] \in Handler
           /\ Moves(q, [reqs[q] EXCEPT !.pc = pc])
<1>1. reqs[q] \in Handler /\ reqs \in [Requests -> Handler]
  BY DEF Handlers
<1>2. [reqs[q] EXCEPT !.pc = pc] \in Handler
  BY <1>1 DEF Handler
<1> QED
  BY <1>1, <1>2 DEF Goto, Moves

LEMMA ReplyMoves ==
    ASSUME Handlers, NEW q \in Requests, Reply(q)
    PROVE  Replied(reqs[q]) \in Handler /\ Moves(q, Replied(reqs[q]))
<1>1. reqs[q] \in Handler /\ reqs \in [Requests -> Handler]
  BY DEF Handlers
<1>2. Replied(reqs[q]) \in Handler
  BY <1>1, EmptyCopy DEF Handler, Replied, Steps
<1>3. reqs' = [reqs EXCEPT ![q] = Replied(reqs[q])]
  BY <1>1, Zenon DEF Reply, Replied
<1> QED
  BY <1>1, <1>2, <1>3 DEF Moves

\* A step of one handler that leaves it prepared leaves all of them prepared.
LEMMA MovesHandlers ==
    ASSUME Handlers, NEW q \in Requests, NEW r, Moves(q, r), Prepared(r)
    PROVE  Handlers'
BY DEF Handlers, Moves

LEMMA ReplyHandlers ==
    ASSUME Handlers, NEW q \in Requests, Reply(q)
    PROVE  Handlers' /\ reqs'[q].pc = "done" /\ reqs'[q].body = NoRow
                     /\ \A p \in Requests \ {q} : reqs'[p] = reqs[p]
<1>1. reqs[q] \in Handler /\ Moves(q, Replied(reqs[q]))
  BY ReplyMoves DEF Handlers
<1>2. /\ Replied(reqs[q]).pc = "done" /\ Replied(reqs[q]).body = NoRow
      /\ Replied(reqs[q]).copy = Idle.copy
  BY <1>1 DEF Replied, Handler
<1>3. Prepared(Replied(reqs[q]))
  BY <1>2 DEF Prepared
<1> QED
  BY <1>1, <1>2, <1>3, MovesHandlers DEF Moves

LEMMA GotoHandlers ==
    ASSUME Handlers, NEW q \in Requests, NEW pc \in Steps, Goto(q, pc),
           reqs[q].pc \notin {"idle", "done"},
           pc \notin {"idle", "ensure", "plan"},
           pc = "infer" => reqs[q].plan # NoRow,
           pc = "scan" => reqs[q].pc = "ensure"
    PROVE  Handlers' /\ reqs'[q] = [reqs[q] EXCEPT !.pc = pc]
                     /\ \A p \in Requests \ {q} : reqs'[p] = reqs[p]
<1> DEFINE r == [reqs[q] EXCEPT !.pc = pc]
<1>1. Moves(q, r) /\ reqs[q] \in Handler /\ Prepared(reqs[q])
  BY GotoMoves DEF Handlers
<1>2. r.pc = pc /\ r.body = reqs[q].body /\ r.plan = reqs[q].plan /\ r.copy = reqs[q].copy
  BY <1>1 DEF Handler
<1> HIDE DEF r
<1>3. Prepared(r)
  BY <1>1, <1>2, EmptyCopy DEF Prepared
<1>4. Handlers'
  BY <1>1, <1>3, MovesHandlers
<1> QED
  BY <1>1, <1>4 DEF Moves, r

\* A handler that also stores what it read.
LEMMA StoreHandlers ==
    ASSUME Handlers, NEW q \in Requests, NEW r \in Handler,
           reqs' = [reqs EXCEPT ![q] = r], Prepared(r)
    PROVE  Handlers' /\ Moves(q, r)
BY MovesHandlers DEF Handlers, Moves

LEMMA Started ==
    ASSUME Handlers, NEW q \in Requests, Receive(q)
    PROVE  Handlers' /\ reqs'[q].pc = First(reqs'[q].body.kind)
                     /\ \A p \in Requests \ {q} : reqs'[p] = reqs[p]
<1>1. PICK b \in Bodies : reqs' = [reqs EXCEPT ![q].body = b, ![q].pc = First(b.kind)]
  BY DEF Receive
<1>2. reqs[q] \in Handler /\ reqs \in [Requests -> Handler] /\ reqs[q].copy = Idle.copy
  BY DEF Receive, Handlers, Prepared
<1> DEFINE r == [reqs[q] EXCEPT !.body = b, !.pc = First(b.kind)]
<1>3. /\ r \in Handler /\ r.pc = First(b.kind) /\ r.body = b /\ r.copy = Idle.copy
  BY <1>2 DEF Handler, First, Steps
<1>4. reqs' = [reqs EXCEPT ![q] = r]
  BY <1>1, <1>2
<1> HIDE DEF r
<1>5. b # NoRow
  BY RowAssumption
<1>6. Prepared(r)
  BY <1>3, <1>5 DEF Prepared, First
<1> QED
  BY <1>3, <1>4, <1>6, StoreHandlers DEF Moves

LEMMA AfterSettings ==
    ASSUME Handlers, Tables, NEW q \in Requests, ReadSettings(q) \/ WriteSettings(q) \/ InsertJob(q)
    PROVE  Handlers'
<1>1. CASE Reply(q)
  BY <1>1, ReplyHandlers
<1>2. CASE \E pc \in {"write", "insert"} : Goto(q, pc) /\ reqs[q].pc \in {"read", "write"}
  BY <1>2, GotoHandlers DEF Steps
<1>3. CASE /\ At(q, "read", {"save", "quick", "config", "trigger"})
           /\ reqs' = [reqs EXCEPT ![q].pc = "write", ![q].row = settings]
  <2> DEFINE r == [reqs[q] EXCEPT !.pc = "write", !.row = settings]
  <2>1. reqs[q] \in Handler /\ reqs \in [Requests -> Handler] /\ Prepared(reqs[q])
    BY DEF Handlers
  <2>2. r \in Handler /\ r.pc = "write" /\ r.body = reqs[q].body
    BY <2>1 DEF Handler, Steps, Tables
  <2>3. reqs' = [reqs EXCEPT ![q] = r]
    BY <1>3, <2>1
  <2> HIDE DEF r
  <2>4. Prepared(r)
    BY <1>3, <2>1, <2>2 DEF Prepared, At
  <2> QED
    BY <2>2, <2>3, <2>4, StoreHandlers
<1> QED
  BY <1>1, <1>2, <1>3 DEF ReadSettings, WriteSettings, InsertJob, At

LEMMA AfterMatrix ==
    ASSUME Handlers, Tables, NEW q \in Requests,
           UpdateCell(q) \/ CopilotAsk(q) \/ CopilotApply(q) \/ ReadMatrix(q) \/ WriteMatrix(q)
    PROVE  Handlers'
<1>1. CASE Reply(q)
  BY <1>1, ReplyHandlers
<1>2. CASE Goto(q, "write") /\ reqs[q].pc = "read"
  BY <1>2, GotoHandlers DEF Steps
<1>3. CASE /\ At(q, "read", {"key", "translate"})
           /\ reqs' = [reqs EXCEPT ![q].pc = "write", ![q].copy = matrix]
  <2> DEFINE r == [reqs[q] EXCEPT !.pc = "write", !.copy = matrix]
  <2>1. reqs[q] \in Handler /\ reqs \in [Requests -> Handler] /\ Prepared(reqs[q])
    BY DEF Handlers
  <2>2. r \in Handler /\ r.pc = "write" /\ r.body = reqs[q].body
    BY <2>1 DEF Handler, Steps, Tables
  <2>3. reqs' = [reqs EXCEPT ![q] = r]
    BY <1>3, <2>1
  <2> HIDE DEF r
  <2>4. Prepared(r)
    BY <1>3, <2>1, <2>2 DEF Prepared, At
  <2> QED
    BY <2>2, <2>3, <2>4, StoreHandlers
<1> QED
  BY <1>1, <1>2, <1>3 DEF UpdateCell, CopilotAsk, CopilotApply, ReadMatrix, WriteMatrix, At

LEMMA AfterEnsuring ==
    ASSUME Handlers, Tables, NEW q \in Requests, EnsureRead(q) \/ EnsureScan(q)
    PROVE  Handlers'
<1>0. reqs[q] \in Handler /\ reqs \in [Requests -> Handler] /\ Prepared(reqs[q])
  BY DEF Handlers
<1>1. CASE Reply(q)
  BY <1>1, ReplyHandlers
<1>2. CASE Goto(q, "scan") /\ reqs[q].pc = "ensure"
  BY <1>2, GotoHandlers DEF Steps
<1>3. CASE Goto(q, "infer") /\ reqs[q].pc = "scan" /\ Kind(q) # "analyze"
  BY <1>0, <1>3, GotoHandlers DEF Steps, Prepared, Kind
<1>4. ASSUME NEW copy \in [Cells -> Texts], NEW pc \in {AfterEnsure(q), "scan"},
             pc = "scan" => ~HasSource(copy), reqs[q].pc \in {"ensure", "scan"},
             reqs' = [reqs EXCEPT ![q].copy = copy, ![q].pc = pc]
      PROVE  Handlers'
  <2> DEFINE r == [reqs[q] EXCEPT !.copy = copy, !.pc = pc]
  <2>1. r \in Handler /\ r.pc = pc /\ r.body = reqs[q].body /\ r.plan = reqs[q].plan
        /\ r.copy = copy
    BY <1>0 DEF Handler, Steps, AfterEnsure
  <2>2. reqs' = [reqs EXCEPT ![q] = r]
    BY <1>0, <1>4
  <2> HIDE DEF r
  <2>3. Prepared(r)
    BY <1>0, <1>4, <2>1 DEF Prepared, AfterEnsure, Kind
  <2> QED
    BY <2>1, <2>2, <2>3, StoreHandlers
<1>5. CASE EnsureRead(q)
  <2> DEFINE pc == IF HasSource(matrix) THEN AfterEnsure(q) ELSE "scan"
  <2>1. CASE reqs' = [reqs EXCEPT ![q].copy = matrix, ![q].pc = pc]
    <3>1. pc \in {AfterEnsure(q), "scan"} /\ (pc = "scan" => ~HasSource(matrix))
      BY DEF AfterEnsure
    <3>2. matrix \in [Cells -> Texts] /\ reqs[q].pc = "ensure"
      BY <1>5 DEF Tables, EnsureRead
    <3> HIDE DEF pc
    <3> QED
      BY <1>4, <2>1, <3>1, <3>2
  <2> QED
    BY <1>2, <1>5, <2>1 DEF EnsureRead
<1>6. CASE EnsureScan(q)
  <2> DEFINE copy == [c \in Cells |-> IF c[1] = "en" THEN Scanned ELSE reqs[q].copy[c]]
  <2>1. CASE reqs' = [reqs EXCEPT ![q].copy = copy, ![q].pc = AfterEnsure(q)]
    <3>1. copy \in [Cells -> Texts]
      BY <1>0 DEF Handler, Texts
    <3>2. AfterEnsure(q) # "scan" /\ reqs[q].pc = "scan"
      BY <1>6 DEF AfterEnsure, EnsureScan
    <3> HIDE DEF copy
    <3> QED
      BY <1>4, <2>1, <3>1, <3>2
  <2> QED
    BY <1>1, <1>3, <1>6, <2>1 DEF EnsureScan
<1> QED
  BY <1>5, <1>6

LEMMA AfterPlan ==
    ASSUME Handlers, Tables, NEW q \in Requests, ReadStrategy(q)
    PROVE  Handlers'
<1>0. reqs[q] \in Handler /\ reqs \in [Requests -> Handler] /\ Prepared(reqs[q])
      /\ reqs[q].pc = "plan"
  BY DEF Handlers, ReadStrategy
<1>1. Default \in Strategy /\ Default # NoRow
  <2>1. Default \in Strategy
    BY DEF Default, Strategy
  <2> QED
    BY <2>1, RowAssumption
<1>2. PICK failed \in BOOLEAN :
          LET plan == IF failed THEN NoRow ELSE strategy
          IN  IF plan = NoRow /\ NeedsStrategy(q) THEN Reply(q)
              ELSE IF Kind(q) = "analyze"
              THEN reqs' = [reqs EXCEPT ![q].pc = "infer",
                               ![q].plan = IF plan = NoRow THEN Default ELSE plan]
              ELSE reqs' = [reqs EXCEPT ![q].pc = "ensure", ![q].plan = plan]
  BY DEF ReadStrategy
<1> DEFINE plan == IF failed THEN NoRow ELSE strategy
<1>3. CASE Reply(q)
  BY <1>3, ReplyHandlers
<1>4. ASSUME NEW pc \in {"infer", "ensure"}, NEW p \in Strategy \cup {NoRow}, p # NoRow,
             Kind(q) = "analyze" <=> pc = "infer",
             reqs' = [reqs EXCEPT ![q].pc = pc, ![q].plan = p]
      PROVE  Handlers'
  <2> DEFINE r == [reqs[q] EXCEPT !.pc = pc, !.plan = p]
  <2>1. r \in Handler /\ r.pc = pc /\ r.body = reqs[q].body /\ r.plan = p
        /\ r.copy = reqs[q].copy
    BY <1>0 DEF Handler, Steps
  <2>2. reqs' = [reqs EXCEPT ![q] = r]
    BY <1>0, <1>4
  <2> HIDE DEF r
  <2>3. Prepared(r)
    BY <1>0, <1>4, <2>1 DEF Prepared, Kind
  <2> QED
    BY <2>1, <2>2, <2>3, StoreHandlers
<1>5. plan \in Strategy \cup {NoRow}
  BY DEF Tables
<1>6. CASE Kind(q) = "analyze"
  <2> DEFINE p == IF plan = NoRow THEN Default ELSE plan
  <2>1. p \in Strategy \cup {NoRow} /\ p # NoRow
    BY <1>1, <1>5
  <2>2. reqs' = [reqs EXCEPT ![q].pc = "infer", ![q].plan = p]
    BY <1>2, <1>6 DEF NeedsStrategy
  <2> HIDE DEF p
  <2> QED
    BY <1>4, <1>6, <2>1, <2>2
<1>7. Kind(q) # "analyze" => NeedsStrategy(q)
  BY <1>0 DEF Prepared, NeedsStrategy, Kind
<1>8. CASE Kind(q) # "analyze" /\ plan # NoRow
  <2>1. reqs' = [reqs EXCEPT ![q].pc = "ensure", ![q].plan = plan]
    BY <1>2, <1>8
  <2> HIDE DEF plan
  <2> QED
    BY <1>4, <1>5, <1>8, <2>1
<1> QED
  BY <1>2, <1>3, <1>6, <1>7, <1>8

LEMMA AfterModels ==
    ASSUME Handlers, Tables, NEW q \in Requests,
           \/ InferOverview(q) \/ WriteFindings(q) \/ Weave(q) \/ WriteMetrics(q)
           \/ ResetTables(q) \/ RemoveCopy(q)
    PROVE  Handlers'
<1>1. CASE Reply(q)
  BY <1>1, ReplyHandlers
<1>2. CASE \E pc \in {"first", "second"} :
              Goto(q, pc) /\ reqs[q].pc \in {"infer", "first", "write"}
  BY <1>2, GotoHandlers DEF Steps
<1> QED
  BY <1>1, <1>2 DEF InferOverview, WriteFindings, Weave, WriteMetrics, ResetTables, RemoveCopy,
                    Between, At

LEMMA AfterApply ==
    ASSUME Handlers, Tables, NEW q \in Requests, ReadWoven(q) \/ ApplyCell(q)
    PROVE  Handlers'
<1>0. reqs[q] \in Handler /\ reqs \in [Requests -> Handler] /\ Prepared(reqs[q])
  BY DEF Handlers
<1>1. CASE Reply(q)
  BY <1>1, ReplyHandlers
<1>2. ASSUME NEW copy \in [Cells -> Texts], reqs[q].pc \in {"read", "write"},
             \/ reqs' = [reqs EXCEPT ![q].pc = "write", ![q].copy = copy]
             \/ reqs[q].pc = "write" /\ reqs' = [reqs EXCEPT ![q].copy = copy]
      PROVE  Handlers'
  <2> DEFINE r == [reqs[q] EXCEPT !.pc = "write", !.copy = copy]
  <2>1. r \in Handler /\ r.pc = "write" /\ r.body = reqs[q].body /\ r.plan = reqs[q].plan
    BY <1>0 DEF Handler, Steps
  <2>2. [reqs[q] EXCEPT !.copy = copy] = r \/ reqs[q].pc # "write"
    BY <1>0 DEF Handler
  <2>3. reqs' = [reqs EXCEPT ![q] = r]
    BY <1>0, <1>2, <2>2
  <2> HIDE DEF r
  <2>4. Prepared(r)
    BY <1>0, <1>2, <2>1 DEF Prepared
  <2> QED
    BY <2>1, <2>3, <2>4, StoreHandlers
<1>3. CASE ReadWoven(q)
  <2> DEFINE copy == [c \in Cells |-> IF c[1] = "fr" THEN woven[c[2]] ELSE NoText]
  <2>1. copy \in [Cells -> Texts]
    BY DEF Cells, Texts, Tables
  <2>2. \/ Reply(q)
        \/ reqs' = [reqs EXCEPT ![q].pc = "write", ![q].copy = copy]
    BY <1>3 DEF ReadWoven
  <2>3. reqs[q].pc = "read"
    BY <1>3 DEF ReadWoven, At
  <2> HIDE DEF copy
  <2> QED
    BY <1>1, <1>2, <2>1, <2>2, <2>3
<1>4. CASE ApplyCell(q)
  <2>1. PICK c \in ToApply(q) : Reply(q) \/ reqs' = [reqs EXCEPT ![q].copy[c] = NoText]
    BY <1>4 DEF ApplyCell
  <2> DEFINE copy == [reqs[q].copy EXCEPT ![c] = NoText]
  <2>2. copy \in [Cells -> Texts]
    BY <1>0 DEF Handler, Texts
  <2>3. Reply(q) \/ reqs' = [reqs EXCEPT ![q].copy = copy]
    BY <2>1
  <2>4. reqs[q].pc = "write"
    BY <1>4 DEF ApplyCell, At
  <2> HIDE DEF copy
  <2> QED
    BY <1>1, <1>2, <2>2, <2>3, <2>4
<1> QED
  BY <1>3, <1>4

LEMMA HandlersStep ==
    ASSUME Handlers, Tables, ApiNext
    PROVE  Handlers'
<1>1. PICK q \in Requests : Receive(q) \/ Serve(q)
  BY DEF ApiNext
<1>2. CASE SaveStrategy(q)
  BY <1>2, ReplyHandlers DEF SaveStrategy
<1> QED
  BY <1>1, <1>2, Started, AfterSettings, AfterMatrix, AfterEnsuring, AfterPlan, AfterModels,
     AfterApply DEF Serve

-----------------------------------------------------------------------------
(* What the steps do to the tables. *)

LEMMA UpsertedTypes ==
    ASSUME NEW old \in [Cells -> Texts], NEW new \in [Cells -> Texts]
    PROVE  Upserted(old, new) \in [Cells -> Texts]
BY DEF Upserted

LEMMA CountedFaults ==
    ASSUME fails \in 0 .. MaxFails, Works \/ Fails
    PROVE  fails' \in 0 .. MaxFails /\ (Fails => fails' > 0) /\ (fails > 0 => fails' > 0)
BY ApiAssumption DEF Works, Fails

LEMMA CopyTypes ==
    ASSUME Handlers, NEW q \in Requests
    PROVE  /\ reqs[q] \in Handler /\ reqs[q].copy \in [Cells -> Texts]
           /\ reqs[q].row \in Row \cup {NoRow} /\ reqs[q].plan \in Strategy \cup {NoRow}
           /\ reqs[q].pc \notin {"idle", "done"} => reqs[q].body \in Bodies
BY DEF Handlers, Handler, Prepared

\* A body of a kind has the fields of its kind.
LEMMA BodyFields ==
    ASSUME NEW b \in Bodies
    PROVE  /\ b.kind = "save" => /\ b.provider \in Providers
                                 /\ b.key \in {"keep", "clear", "give"}
                                 /\ b.switches \in {"keep", "on", "off"}
           /\ b.kind = "quick" => b.provider \in Providers
           /\ b.kind = "config" => b.provider \in Providers /\ b.field \in {"provider", "directive"}
           /\ b.kind \in {"cell", "copilot", "key"} => b.cell \in Cells
BY DEF Bodies, Plain

LEMMA NewRowTypes ==
    ASSUME NEW q \in Requests, NEW row \in Row \cup {NoRow}, NEW b \in Bodies,
           b.kind \in {"save", "quick", "config", "trigger"},
           b.kind \in {"config", "trigger"} => row # NoRow
    PROVE  NewRow(q, row, b) \in Row
<1>1. CASE b.kind = "save"
  BY <1>1, BodyFields DEF NewRow, Merged, Row
<1>2. CASE b.kind = "quick" \/ (b.kind = "config" /\ b.field = "provider")
  <2>1. b.provider \in Providers
    BY <1>2, BodyFields
  <2> QED
    BY <1>2, <2>1 DEF NewRow, Switched, Row
<1> QED
  BY <1>1, <1>2 DEF NewRow, Row

LEMMA SettingsTypes ==
    ASSUME Handlers, Tables, NEW q \in Requests, WriteSettings(q)
    PROVE  settings' \in Row \cup {NoRow} /\ (Works \/ Fails)
<1>1. reqs[q].body \in Bodies /\ reqs[q].row \in Row \cup {NoRow}
  BY CopyTypes DEF WriteSettings, At
<1>2. Kind(q) \in {"save", "quick", "config", "trigger"}
  BY DEF WriteSettings, At
<1>3. ASSUME settings' = NewRow(q, reqs[q].row, reqs[q].body),
             Kind(q) \in {"config", "trigger"} => reqs[q].row # NoRow
      PROVE  settings' \in Row \cup {NoRow}
  <2> DEFINE b == reqs[q].body
             row == reqs[q].row
  <2>1. /\ b \in Bodies /\ row \in Row \cup {NoRow}
        /\ b.kind \in {"save", "quick", "config", "trigger"}
        /\ b.kind \in {"config", "trigger"} => row # NoRow
    BY <1>1, <1>2, <1>3 DEF Kind
  <2>2. settings' = NewRow(q, row, b)
    BY <1>3
  <2> HIDE DEF b, row
  <2> QED
    BY <2>1, <2>2, NewRowTypes
<1> QED
  BY <1>3 DEF WriteSettings, Tables, Kind

LEMMA MatrixTypes ==
    ASSUME Handlers, Tables, NEW q \in Requests,
           \/ UpdateCell(q) \/ CopilotApply(q) \/ WriteMatrix(q) \/ EnsureScan(q)
           \/ ApplyCell(q) \/ ResetTables(q)
    PROVE  matrix' \in [Cells -> Texts]
<1>1. matrix \in [Cells -> Texts] /\ reqs[q].copy \in [Cells -> Texts]
      /\ q \in Texts /\ NoText \in Texts /\ Scanned \in Texts
  BY CopyTypes DEF Tables, Texts
<1>2. CASE WriteMatrix(q)
  <2> DEFINE new == [c \in Cells |-> IF c \in Asked(q) THEN q ELSE reqs[q].copy[c]]
  <2>1. new \in [Cells -> Texts]
    BY <1>1
  <2>2. matrix' = Upserted(matrix, new) \/ matrix' = matrix
    BY <1>2 DEF WriteMatrix
  <2> HIDE DEF new
  <2> QED
    BY <1>1, <2>1, <2>2, UpsertedTypes
<1>3. CASE EnsureScan(q)
  <2> DEFINE new == [c \in Cells |-> IF c[1] = "en" THEN Scanned ELSE reqs[q].copy[c]]
  <2>1. new \in [Cells -> Texts]
    BY <1>1
  <2>2. matrix' = Upserted(matrix, new) \/ matrix' = matrix
    BY <1>3 DEF EnsureScan
  <2> HIDE DEF new
  <2> QED
    BY <1>1, <2>1, <2>2, UpsertedTypes
<1>4. CASE ApplyCell(q)
  BY <1>1, <1>4 DEF ApplyCell, ToApply
<1> QED
  BY <1>1, <1>2, <1>3, <1>4 DEF UpdateCell, CopilotApply, ResetTables

\* Each step writes its own tables, and what it writes has their types.
LEMMA TablesStep ==
    ASSUME Handlers, Tables, ApiNext
    PROVE  Tables'
<1>1. PICK q \in Requests : Receive(q) \/ Serve(q)
  BY DEF ApiNext
<1>2. Works \/ Fails => fails' \in 0 .. MaxFails
  BY CountedFaults DEF Tables
<1>3. CASE Receive(q) \/ RemoveCopy(q)
  BY <1>3 DEF Receive, RemoveCopy, Tables
<1>4. CASE \/ ReadSettings(q) \/ CopilotAsk(q) \/ ReadMatrix(q) \/ EnsureRead(q)
           \/ ReadStrategy(q) \/ ReadWoven(q)
  BY <1>2, <1>4 DEF ReadSettings, CopilotAsk, ReadMatrix, EnsureRead, ReadStrategy, ReadWoven,
                    Tables
<1>5. CASE WriteSettings(q)
  BY <1>2, <1>5, SettingsTypes DEF WriteSettings, Tables
<1>6. CASE InsertJob(q)
  BY <1>2, <1>6 DEF InsertJob, Tables
<1>7. CASE UpdateCell(q) \/ CopilotApply(q) \/ WriteMatrix(q) \/ ApplyCell(q) \/ EnsureScan(q)
  <2>1. matrix' \in [Cells -> Texts]
    BY <1>7, MatrixTypes
  <2>2. (Works \/ Fails) /\ clone' \in BOOLEAN
        /\ UNCHANGED <<settings, strategy, seo, woven, queued, torn>>
    BY <1>7 DEF UpdateCell, CopilotApply, WriteMatrix, ApplyCell, EnsureScan, Tables
  <2> QED
    BY <1>2, <2>1, <2>2 DEF Tables
<1>8. CASE SaveStrategy(q)
  BY <1>2, <1>8 DEF SaveStrategy, Tables, Strategy
<1>9. CASE InferOverview(q)
  <2>1. reqs[q].plan \in Strategy
    BY <1>9, CopyTypes DEF InferOverview, Handlers, Prepared, At
  <2>2. Described(q) \in Strategy
    BY <2>1 DEF Described, Strategy
  <2> QED
    BY <1>2, <1>9, <2>2 DEF InferOverview, Tables
<1>10. CASE WriteFindings(q)
  BY <1>2, <1>10 DEF WriteFindings, Tables
<1>11. CASE Weave(q)
  BY <1>2, <1>11 DEF Weave, Tables
<1>12. CASE WriteMetrics(q)
  BY <1>2, <1>12 DEF WriteMetrics, Tables
<1>13. CASE ResetTables(q)
  <2>1. matrix' \in [Cells -> Texts]
    BY <1>13, MatrixTypes
  <2>2. (Works \/ Fails) /\ UNCHANGED <<settings, clone>>
        /\ strategy' \in {strategy, NoRow} /\ queued' \in {queued, {}}
        /\ woven' \in {woven, [k \in Keys |-> NoText]}
        /\ seo' \in {seo, [t \in DOMAIN seo |-> NoText]} /\ torn' \in BOOLEAN
    BY <1>13 DEF ResetTables, Tables
  <2> QED
    BY <1>2, <2>1, <2>2 DEF Tables
<1> QED
  BY <1>1, <1>3, <1>4, <1>5, <1>6, <1>7, <1>8, <1>9, <1>10, <1>11, <1>12, <1>13 DEF Serve

-----------------------------------------------------------------------------
(* The metrics and the optimizations they are of. *)

\* A handler that does not come to be between its writes, in a step that
\* leaves both tables alone.
LEMMA MetricsUntouched ==
    ASSUME ApiRec, Works \/ Fails \/ UNCHANGED fails,
           seo'["metrics"] = seo["metrics"], seo'["optimizations"] = seo["optimizations"],
           torn => torn',
           \A p \in Requests : Between(p)' <=> Between(p)
    PROVE  FirstWritten' /\ MetricsMatch'
<1>1. fails > 0 => fails' > 0
  BY CountedFaults DEF ApiRec, Tables
<1> QED
  BY <1>1 DEF ApiRec, FirstWritten, MetricsMatch

\* A step is one of one handler.
LEMMA OthersStay ==
    ASSUME Handlers, NEW q \in Requests, Receive(q) \/ Serve(q)
    PROVE  \A p \in Requests \ {q} : reqs'[p] = reqs[p]
<1>0. reqs \in [Requests -> Handler]
  BY DEF Handlers
<1>1. ASSUME NEW pc, Goto(q, pc) PROVE \A p \in Requests \ {q} : reqs'[p] = reqs[p]
  BY <1>0, <1>1 DEF Goto
<1>2. CASE Reply(q)
  BY <1>0, <1>2 DEF Reply
<1>3. CASE Receive(q)
  BY <1>3, Started
<1>4. CASE ReadSettings(q) \/ WriteSettings(q) \/ InsertJob(q)
  BY <1>0, <1>1, <1>2, <1>4 DEF ReadSettings, WriteSettings, InsertJob
<1>5. CASE UpdateCell(q) \/ CopilotAsk(q) \/ CopilotApply(q) \/ ReadMatrix(q) \/ WriteMatrix(q)
  BY <1>0, <1>1, <1>2, <1>5 DEF UpdateCell, CopilotAsk, CopilotApply, ReadMatrix, WriteMatrix
<1>6. CASE EnsureRead(q) \/ EnsureScan(q) \/ SaveStrategy(q) \/ ReadStrategy(q)
  BY <1>0, <1>1, <1>2, <1>6 DEF EnsureRead, EnsureScan, SaveStrategy, ReadStrategy
<1>7. CASE InferOverview(q) \/ WriteFindings(q) \/ Weave(q) \/ WriteMetrics(q)
  BY <1>1, <1>2, <1>7 DEF InferOverview, WriteFindings, Weave, WriteMetrics
<1>8. CASE ReadWoven(q) \/ ApplyCell(q) \/ ResetTables(q) \/ RemoveCopy(q)
  BY <1>0, <1>1, <1>2, <1>8 DEF ReadWoven, ApplyCell, ResetTables, RemoveCopy
<1> QED
  BY <1>3, <1>4, <1>5, <1>6, <1>7, <1>8 DEF Serve

\* Only the first write of an optimize brings it between the two.
LEMMA OnlyWeaveBetween ==
    ASSUME Handlers, NEW q \in Requests, Receive(q) \/ Serve(q), ~Weave(q)
    PROVE  ~Between(q)'
<1>0. reqs \in [Requests -> Handler] /\ reqs[q] \in Handler
  BY DEF Handlers
<1>1. ASSUME NEW pc, Goto(q, pc), pc # "second" \/ Kind(q) # "optimize"
      PROVE  ~Between(q)'
  BY <1>0, <1>1 DEF Goto, Between, At, Kind, Handler
<1>2. CASE Reply(q)
  BY <1>2, ReplyHandlers DEF Between, At
<1>3. CASE Receive(q)
  BY <1>3, Started DEF First, Between, At
<1>4. CASE ReadSettings(q) \/ WriteSettings(q) \/ InsertJob(q)
  <2>1. ASSUME reqs' = [reqs EXCEPT ![q].pc = "write", ![q].row = settings]
        PROVE  ~Between(q)'
    BY <1>0, <2>1 DEF Between, At, Handler
  <2> QED
    BY <1>1, <1>2, <1>4, <2>1 DEF ReadSettings, WriteSettings, InsertJob
<1>5. CASE UpdateCell(q) \/ CopilotAsk(q) \/ CopilotApply(q) \/ ReadMatrix(q) \/ WriteMatrix(q)
  <2>1. ASSUME reqs' = [reqs EXCEPT ![q].pc = "write", ![q].copy = matrix]
        PROVE  ~Between(q)'
    BY <1>0, <2>1 DEF Between, At, Handler
  <2> QED
    BY <1>1, <1>2, <1>5, <2>1 DEF UpdateCell, CopilotAsk, CopilotApply, ReadMatrix, WriteMatrix
<1>6. CASE EnsureRead(q) \/ EnsureScan(q)
  <2>1. ASSUME NEW copy, NEW pc, pc # "second",
               reqs' = [reqs EXCEPT ![q].copy = copy, ![q].pc = pc]
        PROVE  ~Between(q)'
    BY <1>0, <2>1 DEF Between, At, Handler
  <2> QED
    BY <1>1, <1>2, <1>6, <2>1 DEF EnsureRead, EnsureScan, AfterEnsure
<1>7. CASE SaveStrategy(q) \/ ReadStrategy(q)
  <2>1. ASSUME NEW plan, NEW pc, pc # "second",
               reqs' = [reqs EXCEPT ![q].pc = pc, ![q].plan = plan]
        PROVE  ~Between(q)'
    BY <1>0, <2>1 DEF Between, At, Handler
  <2> QED
    BY <1>2, <1>7, <2>1 DEF SaveStrategy, ReadStrategy
<1>8. CASE InferOverview(q) \/ WriteFindings(q) \/ WriteMetrics(q)
  BY <1>1, <1>2, <1>8 DEF InferOverview, WriteFindings, WriteMetrics, At
<1>9. CASE ReadWoven(q) \/ ApplyCell(q)
  <2>1. ASSUME NEW copy, reqs' = [reqs EXCEPT ![q].pc = "write", ![q].copy = copy]
        PROVE  ~Between(q)'
    BY <1>0, <2>1 DEF Between, At, Handler
  <2>2. ASSUME NEW c, reqs[q].pc = "write", reqs' = [reqs EXCEPT ![q].copy[c] = NoText]
        PROVE  ~Between(q)'
    BY <1>0, <2>2 DEF Between, At, Handler
  <2> QED
    BY <1>2, <1>9, <2>1, <2>2 DEF ReadWoven, ApplyCell, At
<1>10. CASE ResetTables(q) \/ RemoveCopy(q)
  BY <1>1, <1>2, <1>10 DEF ResetTables, RemoveCopy, At
<1> QED
  BY <1>3, <1>4, <1>5, <1>6, <1>7, <1>8, <1>9, <1>10 DEF Serve

LEMMA MetricsStep ==
    ASSUME ApiRec, ApiNext
    PROVE  FirstWritten' /\ MetricsMatch'
<1>0. Handlers /\ Tables /\ FirstWritten /\ MetricsMatch
  BY DEF ApiRec
<1>1. PICK q \in Requests : Receive(q) \/ Serve(q)
  BY DEF ApiNext
<1>2. \A p \in Requests \ {q} : Between(p)' <=> Between(p)
  BY <1>0, <1>1, OthersStay DEF Between, At, Kind
<1>3. ~Weave(q) => ~Between(q)'
  BY <1>0, <1>1, OnlyWeaveBetween
<1>4. CASE Weave(q)
  <2>1. \/ fails' > 0
        \/ /\ seo' = [seo EXCEPT !["optimizations"] = q]
           /\ \A p \in Requests \ {q} : Between(p) => torn'
    BY <1>0, <1>4, CountedFaults DEF Weave, Tables
  <2>2. seo'["optimizations"] = q \/ fails' > 0
    BY <1>0, <2>1 DEF Tables
  <2>3. Between(q)'
    <3>1. reqs'[q] = [reqs[q] EXCEPT !.pc = "second"] /\ reqs[q] \in Handler
      BY <1>0, <1>4 DEF Weave, Goto, Handlers
    <3> QED
      BY <1>4, <3>1 DEF Weave, Between, At, Kind, Handler
  <2> QED
    BY <1>2, <2>1, <2>2, <2>3 DEF FirstWritten, MetricsMatch
<1>5. CASE WriteMetrics(q)
  <2>1. /\ seo'["optimizations"] = seo["optimizations"] /\ torn' = torn
        /\ fails > 0 => fails' > 0
        /\ fails' > 0 \/ seo'["metrics"] = q
    BY <1>0, <1>5, CountedFaults DEF WriteMetrics, Tables
  <2>2. ~Between(q)' /\ Between(q)
    BY <1>3, <1>5 DEF WriteMetrics, Weave, Between, At
  <2> QED
    BY <1>0, <1>2, <2>1, <2>2 DEF FirstWritten, MetricsMatch
<1>6. CASE ResetTables(q)
  <2>1. CASE Fails
    BY <1>0, <2>1, CountedFaults DEF FirstWritten, MetricsMatch, Tables
  <2>2. CASE /\ seo' = [t \in DOMAIN seo |-> NoText]
             /\ torn' = (torn \/ \E p \in Requests : Between(p))
    <3>1. seo'["metrics"] = seo'["optimizations"]
      BY <1>0, <2>2 DEF Tables
    <3>2. \A p \in Requests : Between(p)' => torn'
      BY <1>2, <1>3, <1>6, <2>2 DEF ResetTables, Weave, At
    <3> QED
      BY <3>1, <3>2 DEF FirstWritten, MetricsMatch
  <2> QED
    BY <1>6, <2>1, <2>2 DEF ResetTables
<1>7. CASE ~Weave(q) /\ ~WriteMetrics(q) /\ ~ResetTables(q)
  <2>1. ~Between(q)
    BY <1>1, <1>7 DEF Serve, Between, At, Receive, ReadSettings, WriteSettings, InsertJob,
       UpdateCell, CopilotAsk, CopilotApply, ReadMatrix, WriteMatrix, EnsureRead, EnsureScan,
       SaveStrategy, ReadStrategy, InferOverview, WriteFindings, ReadWoven, ApplyCell, RemoveCopy
  <2>2. Works \/ Fails \/ UNCHANGED fails
    BY <1>1, <1>7 DEF Serve, Receive, ReadSettings, WriteSettings, InsertJob,
       UpdateCell, CopilotAsk, CopilotApply, ReadMatrix, WriteMatrix, EnsureRead, EnsureScan,
       SaveStrategy, ReadStrategy, InferOverview, WriteFindings, ReadWoven, ApplyCell, RemoveCopy
  <2>3. torn' = torn /\ (seo' = seo \/ WriteFindings(q))
    BY <1>1, <1>7 DEF Serve, Receive, ReadSettings, WriteSettings, InsertJob,
       UpdateCell, CopilotAsk, CopilotApply, ReadMatrix, WriteMatrix, EnsureRead, EnsureScan,
       SaveStrategy, ReadStrategy, InferOverview, WriteFindings, ReadWoven, ApplyCell, RemoveCopy
  <2>4. seo'["metrics"] = seo["metrics"] /\ seo'["optimizations"] = seo["optimizations"]
    BY <1>0, <2>3 DEF WriteFindings, Tables
  <2> QED
    BY <1>2, <1>3, <1>7, <2>1, <2>2, <2>3, <2>4, MetricsUntouched
<1> QED
  BY <1>4, <1>5, <1>6, <1>7

-----------------------------------------------------------------------------
(* The invariant, and what a step may do to a row. *)

LEMMA InitRec == ApiInit => ApiRec
<1> SUFFICES ASSUME ApiInit PROVE ApiRec
  OBVIOUS
<1>1. Idle \in Handler /\ Idle.pc = "idle" /\ Idle.body = NoRow
  BY EmptyCopy DEF Idle, Handler, Steps
<1>2. Handlers
  BY <1>1 DEF ApiInit, Handlers, Prepared
<1>3. Tables
  <2>1. settings \in Row \cup {NoRow}
    BY DEF ApiInit, Row
  <2>2. strategy \in Strategy \cup {NoRow}
    BY DEF ApiInit, Strategy, Default
  <2>3. matrix \in [Cells -> Texts] /\ fails \in 0 .. MaxFails
    BY ApiAssumption DEF ApiInit, Texts
  <2> QED
    BY <2>1, <2>2, <2>3 DEF ApiInit, Tables
<1>4. FirstWritten /\ MetricsMatch
  BY <1>1 DEF ApiInit, FirstWritten, MetricsMatch, Between, At
<1> QED
  BY <1>2, <1>3, <1>4 DEF ApiRec

LEMMA ApiStep == ApiRec /\ [ApiNext]_apiVars => ApiRec'
<1> SUFFICES ASSUME ApiRec, [ApiNext]_apiVars PROVE ApiRec'
  OBVIOUS
<1>1. CASE ApiNext
  BY <1>1, HandlersStep, TablesStep, MetricsStep DEF ApiRec
<1>2. CASE UNCHANGED apiVars
  BY <1>2 DEF apiVars, ApiRec, Handlers, Prepared, Tables, FirstWritten, MetricsMatch, Between,
              At, Kind
<1> QED
  BY <1>1, <1>2

LEMMA ApiAlways == ApiSpec => []ApiRec
BY InitRec, ApiStep, PTL DEF ApiSpec

\* The types of the rows and of what handlers have in hand, and the metrics of
\* the SEO studio beside the optimizations they are of: an optimize whose
\* second write finds another one's rows has been noted in the history.
THEOREM RowsAreSound == ApiSpec => []ApiInv
BY ApiAlways, RecImpliesInv, PTL

LEMMA SettingsStep ==
    ASSUME ApiRec, ApiNext, settings # NoRow, settings' # settings
    PROVE  \E q \in Requests :
              /\ Acts(q)
              /\ \/ reqs[q].row # settings
                 \/ \A f \in DOMAIN settings \ Named(q) : settings'[f] = settings[f]
<1>1. PICK q \in Requests : Receive(q) \/ Serve(q)
  BY DEF ApiNext
<1>2. WriteSettings(q)
  BY <1>1 DEF Serve, Receive, ReadSettings, InsertJob,
       UpdateCell, CopilotAsk, CopilotApply, ReadMatrix, WriteMatrix, EnsureRead, EnsureScan,
       SaveStrategy, ReadStrategy, InferOverview, WriteFindings, Weave, WriteMetrics,
       ReadWoven, ApplyCell, ResetTables, RemoveCopy
<1>3. Acts(q)
  <2>1. reqs'[q].pc = "done" \/ reqs'[q].pc = "insert"
    <3>1. reqs[q] \in Handler /\ reqs \in [Requests -> Handler]
      BY DEF ApiRec, Handlers
    <3> QED
      BY <1>2, <3>1, ReplyHandlers DEF WriteSettings, Goto, Handler, ApiRec
  <2> QED
    BY <1>2, <2>1 DEF Acts, WriteSettings, At
<1>4. ASSUME reqs[q].row = settings, NEW f \in DOMAIN settings \ Named(q)
      PROVE  settings'[f] = settings[f]
  <2> DEFINE b == reqs[q].body
  <2>1. settings \in Row /\ b \in Bodies
    BY <1>2, CopyTypes DEF ApiRec, Tables, WriteSettings, At
  <2>2. settings' = NewRow(q, settings, b)
        /\ b.kind \in {"save", "quick", "config", "trigger"}
    BY <1>2, <1>4 DEF WriteSettings, At, Kind
  <2>3. f \in {"provider", "override", "switches", "directive"}
    BY <1>4, <2>1 DEF Row
  <2>4. CASE b.kind = "save"
    <3>1. settings' = Merged(q, settings, b)
      BY <2>2, <2>4 DEF NewRow
    <3>2. b.key \in {"keep", "clear", "give"} /\ b.switches \in {"keep", "on", "off"}
      BY <2>1, <2>4, BodyFields
    <3>3. f \in {"override", "switches"} /\ (f = "override" => b.key = "keep")
          /\ (f = "switches" => b.switches = "keep")
      BY <1>4, <2>3, <2>4, <3>2 DEF Named
    <3> QED
      BY <2>1, <3>1, <3>3 DEF Merged, Row
  <2>5. CASE b.kind = "quick" \/ (b.kind = "config" /\ b.field = "provider")
    <3>1. settings' = [settings EXCEPT !.provider = b.provider] /\ f # "provider"
      BY <1>4, <2>2, <2>4, <2>5 DEF NewRow, Switched, Named
    <3> QED
      BY <2>1, <2>3, <3>1 DEF Row
  <2>6. CASE b.kind = "trigger" \/ (b.kind = "config" /\ b.field = "directive")
    <3>1. settings' = [settings EXCEPT !.directive = q] /\ f # "directive"
      BY <1>4, <2>2, <2>6 DEF NewRow, Named
    <3> QED
      BY <2>1, <2>3, <3>1 DEF Row
  <2> QED
    BY <2>1, <2>2, <2>4, <2>5, <2>6, BodyFields
<1> QED
  BY <1>3, <1>4

LEMMA GoalStep ==
    ASSUME ApiRec, ApiNext, strategy # NoRow, strategy' # NoRow, strategy'.goal # strategy.goal
    PROVE  \E q \in Requests :
              Acts(q) /\ (Kind(q) = "strategy" \/ reqs[q].plan # strategy)
<1>1. PICK q \in Requests : Receive(q) \/ Serve(q)
  BY DEF ApiNext
<1>2. SaveStrategy(q) \/ InferOverview(q)
  BY <1>1 DEF Serve, Receive, ReadSettings, InsertJob, WriteSettings,
       UpdateCell, CopilotAsk, CopilotApply, ReadMatrix, WriteMatrix, EnsureRead, EnsureScan,
       ReadStrategy, WriteFindings, Weave, WriteMetrics,
       ReadWoven, ApplyCell, ResetTables, RemoveCopy
<1>3. Acts(q)
  <2>1. reqs'[q].pc = "done" \/ reqs'[q].pc = "first"
    <3>1. reqs[q] \in Handler /\ reqs \in [Requests -> Handler]
      BY DEF ApiRec, Handlers
    <3> QED
      BY <1>2, <3>1, ReplyHandlers DEF SaveStrategy, InferOverview, Goto, Handler, ApiRec
  <2> QED
    BY <1>2, <2>1 DEF Acts, SaveStrategy, InferOverview, At
<1>4. CASE SaveStrategy(q)
  BY <1>3, <1>4 DEF SaveStrategy, At
<1>5. CASE InferOverview(q)
  <2>1. strategy' = Described(q)
    BY <1>5 DEF InferOverview
  <2>2. reqs[q].plan \in Strategy
    BY <1>5, CopyTypes DEF InferOverview, ApiRec, Handlers, Prepared, At
  <2>3. strategy'.goal = reqs[q].plan.goal
    BY <2>1, <2>2 DEF Described, Strategy
  <2> QED
    BY <1>3, <2>3
<1> QED
  BY <1>2, <1>4, <1>5

LEMMA CellsStep ==
    ASSUME ApiRec, ApiNext, NEW c \in Cells, matrix[c] # NoText, matrix'[c] # matrix[c]
    PROVE  \E q \in Requests :
              /\ Acts(q)
              /\ \/ c \in Asked(q)
                 \/ Kind(q) = "apply" /\ matrix'[c] = reqs[q].copy[c]
                 \/ reqs[q].copy[c] # matrix[c]
<1>1. PICK q \in Requests : Receive(q) \/ Serve(q)
  BY DEF ApiNext
<1>2. \/ UpdateCell(q) \/ CopilotApply(q) \/ WriteMatrix(q) \/ EnsureScan(q)
      \/ ApplyCell(q) \/ ResetTables(q)
  BY <1>1 DEF Serve, Receive, ReadSettings, InsertJob, WriteSettings, CopilotAsk, ReadMatrix,
       EnsureRead, SaveStrategy, ReadStrategy, InferOverview, WriteFindings, Weave, WriteMetrics,
       ReadWoven, RemoveCopy
<1>3. /\ reqs[q] \in Handler /\ reqs \in [Requests -> Handler] /\ Prepared(reqs[q])
      /\ matrix \in [Cells -> Texts] /\ reqs[q].copy \in [Cells -> Texts]
  BY CopyTypes DEF ApiRec, Handlers, Tables
<1>4. CASE UpdateCell(q) \/ CopilotApply(q)
  <2>1. Acts(q)
    BY <1>3, <1>4, ReplyHandlers DEF UpdateCell, CopilotApply, At, Acts, ApiRec
  <2> QED
    BY <1>3, <1>4, <2>1 DEF UpdateCell, CopilotApply, Asked, At, Kind
<1>5. CASE WriteMatrix(q)
  <2>1. Acts(q)
    BY <1>3, <1>5, ReplyHandlers DEF WriteMatrix, At, Acts, ApiRec
  <2>2. c \notin Asked(q) => reqs[q].copy[c] # matrix[c]
    BY <1>3, <1>5 DEF WriteMatrix, Upserted
  <2> QED
    BY <2>1, <2>2
<1>6. CASE EnsureScan(q)
  <2>1. reqs[q].pc = "scan" /\ ~HasSource(reqs[q].copy)
    BY <1>3, <1>6 DEF EnsureScan, Prepared
  <2>2. Acts(q)
    <3>1. reqs'[q].pc # "scan"
      BY <1>3, <1>6, ReplyHandlers DEF EnsureScan, Goto, AfterEnsure, Handler, ApiRec
    <3> QED
      BY <2>1, <3>1 DEF Acts
  <2>3. c[1] = "en" => reqs[q].copy[c] = NoText
    BY <2>1 DEF HasSource, Cells
  <2>4. c[1] # "en" => matrix'[c] \in {matrix[c], reqs[q].copy[c]}
    BY <1>3, <1>6 DEF EnsureScan, Upserted
  <2> QED
    BY <2>2, <2>3, <2>4
<1>7. CASE ApplyCell(q)
  <2>1. PICK d \in ToApply(q) :
           /\ matrix' = [matrix EXCEPT ![d] = reqs[q].copy[d]]
           /\ Reply(q) \/ reqs' = [reqs EXCEPT ![q].copy[d] = NoText]
    BY <1>7 DEF ApplyCell
  <2>2. Kind(q) = "apply" /\ matrix'[c] = reqs[q].copy[c]
    BY <1>3, <1>7, <2>1 DEF ApplyCell, At
  <2>3. Acts(q)
    <3>1. CASE Reply(q)
      BY <1>7, <3>1, ReplyHandlers DEF Acts, ApplyCell, At, ApiRec
    <3>2. CASE reqs' = [reqs EXCEPT ![q].copy[d] = NoText]
      <4>1. reqs'[q].copy[d] = NoText /\ reqs[q].copy[d] # NoText
        BY <1>3, <2>1, <3>2 DEF Handler, ToApply
      <4> QED
        BY <4>1 DEF Acts
    <3> QED
      BY <2>1, <3>1, <3>2
  <2> QED
    BY <2>2, <2>3
<1>8. CASE ResetTables(q)
  <2>1. reqs'[q].pc \in {"done", "second"}
    BY <1>3, <1>8, ReplyHandlers DEF ResetTables, Goto, Handler, ApiRec
  <2> QED
    BY <1>8, <2>1 DEF ResetTables, At, Acts, Asked
<1> QED
  BY <1>2, <1>4, <1>5, <1>6, <1>7, <1>8

\* Nobody loses a translation to a request about other cells: what replaces it
\* was asked for its cell, or applied, or comes from a writer of the whole
\* matrix that had read the cell before.
THEOREM CellsStayMerged == ApiSpec => CellsMerged
<1>1. ApiRec /\ [ApiNext]_apiVars =>
        [\A c \in Cells : matrix[c] # NoText /\ matrix'[c] # matrix[c] =>
         \E q \in Requests :
            /\ Acts(q)
            /\ \/ c \in Asked(q)
               \/ Kind(q) = "apply" /\ matrix'[c] = reqs[q].copy[c]
               \/ reqs[q].copy[c] # matrix[c]]_apiVars
  BY CellsStep
<1> QED
  BY <1>1, ApiAlways, PTL DEF ApiSpec, CellsMerged

\* Whoever writes a whole row of settings, or a whole strategy, changes only
\* what was asked of it, unless the row is no longer the one it read.
THEOREM RowsStayMerged == ApiSpec => RowsMerged
<1>1. ApiRec /\ [ApiNext]_apiVars =>
        [settings # NoRow /\ settings' # settings =>
         \E q \in Requests :
            /\ Acts(q)
            /\ \/ reqs[q].row # settings
               \/ \A f \in DOMAIN settings \ Named(q) : settings'[f] = settings[f]]_apiVars
  BY SettingsStep
<1>2. ApiRec /\ [ApiNext]_apiVars =>
        [strategy # NoRow /\ strategy' # NoRow /\ strategy'.goal # strategy.goal =>
         \E q \in Requests :
            Acts(q) /\ (Kind(q) = "strategy" \/ reqs[q].plan # strategy)]_apiVars
  BY GoalStep
<1> QED
  BY <1>1, <1>2, CellsStayMerged, ApiAlways, PTL DEF ApiSpec, RowsMerged, SettingsMerged, GoalKept

-----------------------------------------------------------------------------
(* Accounts, installations and teams. *)

\* A login knows its account, and its team when it is about to save it; a list
\* is made for a session and, if the user's row was read, of installations that
\* are on the account or have an owner.
Underway ==
    \A b \in Browsers :
        /\ page[b].at \in {"known", "creating", "saving"} => page[b].who \in People
        /\ page[b].at = "saving" => page[b].team \in 1 .. teams
        /\ page[b].at = "listing" =>
              /\ session[b] # Nobody
              /\ page[b].blind \/ \A i \in page[b].listed :
                                     LoginOf[i] = session[b].who \/ owner[i] # Nobody

Request == [at : {"rest", "github", "known", "creating", "saving", "listing"},
            who : People \cup {Nobody}, team : Teams \cup {Nobody},
            listed : SUBSET Installs, blind : BOOLEAN]

\* The last conjunct of AccountsTypeOK, for rows of both kinds.
RowsOf == /\ \A p \in People : users[p] = Nobody \/ users[p] \in 1 .. teams
          /\ \A i \in Installs : owner[i] = Nobody \/ owner[i] \in 1 .. teams

Sound == AccountsTypeOK /\ RowsOf /\ Underway /\ SessionsAgree /\ InstallationsPlaced

LEMMA Numbers == \A n \in Nat : n # Nobody
BY AccountsAssumption

\* The types of the tables, with the bound on the teams in one place.
LEMMA TypesByRows ==
    ASSUME teams \in 0 .. MaxTeams, RowsOf,
           users \in [People -> Teams \cup {Nobody}],
           owner \in [Installs -> Teams \cup {Nobody}],
           repos \in [Repos -> Installs \cup {Nobody}],
           session \in [Browsers -> [who : People, team : Teams] \cup {Nobody}],
           page \in [Browsers -> Request],
           unread \subseteq Installs
    PROVE  AccountsTypeOK
BY AccountsAssumption DEF AccountsTypeOK, RowsOf, Teams, Request

LEMMA InitSound == AccountsInit => Sound
<1> SUFFICES ASSUME AccountsInit PROVE Sound
    OBVIOUS
<1> USE AccountsAssumption DEF AccountsInit
<1>1. RowsOf
      BY DEF RowsOf
<1>2. AccountsTypeOK
  <2>1. teams \in 0 .. MaxTeams
        OBVIOUS
  <2>2. page \in [Browsers -> Request]
        BY DEF Rest, Request
  <2> QED BY <1>1, <2>1, <2>2, TypesByRows
<1>3. Underway /\ SessionsAgree /\ InstallationsPlaced
      BY DEF Underway, SessionsAgree, InstallationsPlaced, Rest
<1> QED BY <1>1, <1>2, <1>3 DEF Sound

\* A step that leaves the tables and the sessions: only requests move on.
LEMMA RequestsMove ==
    ASSUME Sound, UNCHANGED <<tables, session, unread>>,
           page' \in [Browsers -> Request],
           Underway'
    PROVE  Sound'
BY DEF Sound, AccountsTypeOK, RowsOf, SessionsAgree, InstallationsPlaced, tables, Teams, Request

\* What the record of a request may become: one more step of the same browser.
LEMMA OneRequest ==
    ASSUME Sound, NEW b \in Browsers,
           NEW r \in Request,
           page' = [page EXCEPT ![b] = r],
           UNCHANGED <<tables, session, unread>>,
           r.at \in {"known", "creating", "saving"} => r.who \in People,
           r.at = "saving" => r.team \in 1 .. teams,
           r.at = "listing" =>
              /\ session[b] # Nobody
              /\ r.blind \/ \A i \in r.listed : LoginOf[i] = session[b].who \/ owner[i] # Nobody
    PROVE  Sound'
<1>1. page' \in [Browsers -> Request]
      BY DEF Sound, AccountsTypeOK, Request
<1>2. \A c \in Browsers : page'[c] = IF c = b THEN r ELSE page[c]
      BY DEF Sound, AccountsTypeOK
<1>3. Underway'
      BY <1>2 DEF Sound, Underway, tables
<1> QED BY <1>1, <1>3, RequestsMove

LEMMA RequestFields ==
    ASSUME Sound, NEW b \in Browsers
    PROVE  /\ page[b] \in Request
           /\ page[b].at \in {"known", "creating", "saving"} => page[b].who \in People
           /\ page[b].at = "saving" => page[b].team \in 1 .. teams
           /\ session[b] # Nobody =>
                 /\ session[b] \in [who : People, team : Teams]
                 /\ users[session[b].who] = session[b].team
                 /\ session[b].team \in 1 .. teams
BY Numbers DEF Sound, AccountsTypeOK, Underway, RowsOf, SessionsAgree, Teams, Request

LEMMA MovesSound ==
    ASSUME Sound, NEW b \in Browsers,
           \/ OAuthStart(b) \/ OAuthCallback(b) \/ RequestFails(b) \/ LookUpUser(b) \/ Listed(b)
    PROVE  Sound'
<1>1. CASE OAuthStart(b)
  <2> DEFINE r == [page[b] EXCEPT !.at = "github"]
  <2>1. page' = [page EXCEPT ![b] = r]
        BY <1>1 DEF OAuthStart
  <2>2. r \in Request /\ r.at = "github"
        BY RequestFields DEF Request
  <2> QED BY ONLY <1>1, <2>1, <2>2, Sound, b \in Browsers, OneRequest DEF OAuthStart
<1>2. CASE OAuthCallback(b)
  <2>1. PICK p \in People : page' = [page EXCEPT ![b].at = "known", ![b].who = p]
        BY <1>2 DEF OAuthCallback
  <2> DEFINE r == [page[b] EXCEPT !.at = "known", !.who = p]
  <2>2. page' = [page EXCEPT ![b] = r]
        BY <2>1 DEF Sound, AccountsTypeOK
  <2>3. r \in Request /\ r.at = "known" /\ r.who \in People
        BY RequestFields DEF Request
  <2> QED BY ONLY <1>2, <2>2, <2>3, Sound, b \in Browsers, OneRequest DEF OAuthCallback
<1>3. CASE RequestFails(b) \/ Listed(b)
  <2>1. page' = [page EXCEPT ![b] = Rest]
        BY <1>3 DEF RequestFails, Listed
  <2>2. Rest \in Request /\ Rest.at = "rest"
        BY DEF Request, Rest
  <2> QED BY <1>3, <2>1, <2>2, OneRequest DEF RequestFails, Listed
<1>4. CASE LookUpUser(b)
  <2> DEFINE team == users[page[b].who]
  <2>1. page[b].who \in People /\ (team = Nobody \/ team \in 1 .. teams)
        BY <1>4 DEF LookUpUser, Sound, RowsOf, Underway
  <2>2. team \in Teams \cup {Nobody}
        BY <2>1 DEF Sound, AccountsTypeOK
  <2>3. CASE team = Nobody
    <3> DEFINE r == [page[b] EXCEPT !.at = "creating", !.team = team]
    <3>1. page' = [page EXCEPT ![b] = r]
          BY <1>4, <2>3 DEF LookUpUser, Sound, AccountsTypeOK
    <3>2. r \in Request /\ r.at = "creating" /\ r.who \in People
          BY RequestFields, <2>1, <2>2 DEF Request
    <3> QED BY ONLY <1>4, <3>1, <3>2, Sound, b \in Browsers, OneRequest DEF LookUpUser
  <2>4. CASE team # Nobody
    <3> DEFINE r == [page[b] EXCEPT !.at = "saving", !.team = team]
    <3>1. page' = [page EXCEPT ![b] = r]
          BY <1>4, <2>4 DEF LookUpUser, Sound, AccountsTypeOK
    <3>2. r \in Request /\ r.at = "saving" /\ r.who \in People /\ r.team \in 1 .. teams
          BY RequestFields, <2>1, <2>2, <2>4 DEF Request
    <3> QED BY ONLY <1>4, <3>1, <3>2, Sound, b \in Browsers, OneRequest DEF LookUpUser
  <2> QED BY <2>3, <2>4
<1> QED BY <1>1, <1>2, <1>3, <1>4

LEMMA ReadSound ==
    ASSUME Sound, NEW b \in Browsers, ReadInstallations(b)
    PROVE  Sound'
<1>1. PICK blind \in BOOLEAN, seen \in {{}, {i \in Installs : owner[i] = session[b].team}} :
         page' = [page EXCEPT ![b].at = "listing", ![b].blind = blind,
                     ![b].listed = IF blind THEN Installs ELSE Own(session[b].who, seen)]
      BY DEF ReadInstallations
<1> DEFINE listed == IF blind THEN Installs ELSE Own(session[b].who, seen)
           r == [page[b] EXCEPT !.at = "listing", !.blind = blind, !.listed = listed]
<1>2. session[b] # Nobody /\ UNCHANGED <<tables, session, unread>>
      BY DEF ReadInstallations
<1>3. listed \in SUBSET Installs
      BY DEF Own
<1>4. ~blind => \A i \in listed : LoginOf[i] = session[b].who \/ owner[i] # Nobody
      BY <1>2, RequestFields, Numbers DEF Own
<1>5. page' = [page EXCEPT ![b] = r]
      BY <1>1 DEF Sound, AccountsTypeOK
<1> HIDE DEF listed
<1>6. r \in Request /\ r.at = "listing" /\ r.blind = blind /\ r.listed = listed
      BY RequestFields, <1>3 DEF Request
<1> HIDE DEF r
<1> QED BY ONLY <1>2, <1>4, <1>5, <1>6, Sound, b \in Browsers, OneRequest

\* The other steps change the tables or a cookie.
LEMMA CreateTeamSound ==
    ASSUME Sound, NEW b \in Browsers, CreateTeam(b)
    PROVE  Sound'
<1>1. teams \in Nat /\ teams' = teams + 1 /\ teams' \in 1 .. MaxTeams
      BY AccountsAssumption DEF CreateTeam, Sound, AccountsTypeOK
<1> DEFINE r == [page[b] EXCEPT !.at = "saving", !.team = teams + 1]
<1>2. page' = [page EXCEPT ![b] = r]
      BY DEF CreateTeam, Sound, AccountsTypeOK
<1>3. page[b].who \in People /\ teams + 1 \in Teams
      BY <1>1, RequestFields DEF CreateTeam, Teams
<1>4. r \in Request /\ r.at = "saving" /\ r.who \in People /\ r.team = teams + 1
      BY <1>3, RequestFields DEF Request
<1> HIDE DEF r
<1>5. UNCHANGED <<users, owner, repos, session, unread>>
      BY DEF CreateTeam
<1>6. page' \in [Browsers -> Request]
      BY <1>2, <1>4 DEF Sound, AccountsTypeOK, Request
<1>7. \A c \in Browsers : page'[c] = IF c = b THEN r ELSE page[c]
      BY <1>2 DEF Sound, AccountsTypeOK
<1>8. RowsOf'
      BY <1>1, <1>5 DEF Sound, RowsOf
<1>9. AccountsTypeOK'
      BY <1>1, <1>5, <1>6, <1>8 DEF Sound, AccountsTypeOK, RowsOf, Teams, Request
<1>10. Underway'
       BY <1>1, <1>4, <1>5, <1>7 DEF Sound, Underway
<1>11. SessionsAgree' /\ InstallationsPlaced'
       BY <1>5 DEF Sound, SessionsAgree, InstallationsPlaced
<1> QED BY <1>8, <1>9, <1>10, <1>11 DEF Sound

LEMMA UpsertUserSound ==
    ASSUME Sound, NEW b \in Browsers, UpsertUser(b)
    PROVE  Sound'
<1> DEFINE p == page[b].who
           t == SavedTeam(b)
           s == [who |-> p, team |-> t]
<1>1. p \in People /\ t \in 1 .. teams /\ t \in Teams /\ t # Nobody
      BY RequestFields, Numbers, AccountsAssumption
      DEF UpsertUser, SavedTeam, Sound, AccountsTypeOK, RowsOf, Teams
<1>2. /\ users' = [users EXCEPT ![p] = t] /\ page' = [page EXCEPT ![b] = Rest]
      /\ UNCHANGED <<teams, owner, repos, unread>>
      BY DEF UpsertUser
<1>3. users[p] # Nobody => t = users[p]
      BY DEF SavedTeam
<1> HIDE DEF p, t
<1>4. \A q \in People : users'[q] = IF q = p THEN t ELSE users[q]
      BY <1>2 DEF Sound, AccountsTypeOK
<1>5. session' = [session EXCEPT ![b] = s]
      BY <1>1, <1>4 DEF UpsertUser, SessionTeam, p
<1>6. \A c \in Browsers : session'[c] = IF c = b THEN s ELSE session[c]
      BY <1>5 DEF Sound, AccountsTypeOK
<1>7. \A c \in Browsers : page'[c] = IF c = b THEN Rest ELSE page[c]
      BY <1>2 DEF Sound, AccountsTypeOK
<1>8. RowsOf'
      BY <1>1, <1>2, <1>4 DEF Sound, RowsOf
<1>9. AccountsTypeOK'
  <2>1. users' \in [People -> Teams \cup {Nobody}]
        BY <1>1, <1>2 DEF Sound, AccountsTypeOK
  <2>2. session' \in [Browsers -> [who : People, team : Teams] \cup {Nobody}]
        BY <1>1, <1>5 DEF Sound, AccountsTypeOK
  <2>3. page' \in [Browsers -> Request]
        BY <1>2 DEF Sound, AccountsTypeOK, Rest, Request
  <2> QED BY <1>2, <1>8, <2>1, <2>2, <2>3 DEF Sound, AccountsTypeOK, RowsOf, Teams, Request
<1>10. Underway'
  <2> SUFFICES ASSUME NEW c \in Browsers
               PROVE  /\ page'[c].at \in {"known", "creating", "saving"} => page'[c].who \in People
                      /\ page'[c].at = "saving" => page'[c].team \in 1 .. teams'
                      /\ page'[c].at = "listing" =>
                            /\ session'[c] # Nobody
                            /\ page'[c].blind \/ \A i \in page'[c].listed :
                                   LoginOf[i] = session'[c].who \/ owner'[i] # Nobody
      BY DEF Underway
  <2>1. CASE c = b
        BY <1>7, <2>1 DEF Rest
  <2>2. CASE c # b
        BY <1>2, <1>6, <1>7, <2>2 DEF Sound, Underway
  <2> QED BY <2>1, <2>2
<1>11. SessionsAgree'
  <2> SUFFICES ASSUME NEW c \in Browsers, session'[c] # Nobody
               PROVE  users'[session'[c].who] = session'[c].team
      BY DEF SessionsAgree
  <2>1. CASE c = b
        BY <1>1, <1>4, <1>6, <2>1
  <2>2. CASE c # b
        BY <1>3, <1>4, <1>6, <2>2, RequestFields, Numbers
  <2> QED BY <2>1, <2>2
<1>12. InstallationsPlaced'
       BY <1>2, <1>3, <1>4, AccountsAssumption DEF Sound, InstallationsPlaced
<1> QED BY <1>8, <1>9, <1>10, <1>11, <1>12 DEF Sound

LEMMA LogoutSound ==
    ASSUME Sound, NEW b \in Browsers, Logout(b)
    PROVE  Sound'
<1>1. session' \in [Browsers -> [who : People, team : Teams] \cup {Nobody}]
      BY DEF Logout, Sound, AccountsTypeOK
<1>2. \A c \in Browsers : session'[c] = IF c = b THEN Nobody ELSE session[c]
      BY DEF Logout, Sound, AccountsTypeOK
<1>3. AccountsTypeOK' /\ RowsOf'
      BY <1>1 DEF Logout, Sound, AccountsTypeOK, RowsOf, tables, Teams
<1>4. Underway'
      BY <1>2 DEF Logout, Sound, Underway, tables
<1>5. SessionsAgree' /\ InstallationsPlaced'
      BY <1>2 DEF Logout, Sound, SessionsAgree, InstallationsPlaced, tables
<1> QED BY <1>3, <1>4, <1>5 DEF Sound

LEMMA UpsertInstallationSound ==
    ASSUME Sound, NEW b \in Browsers, UpsertInstallation(b)
    PROVE  Sound'
<1> DEFINE t == session[b].team
<1>1. PICK i \in page[b].listed :
         /\ owner' = [owner EXCEPT ![i] = KeptOwner(i, t)]
         /\ unread' = IF page[b].blind /\ owner[i] = Nobody THEN unread \cup {i} ELSE unread
         /\ page' = [page EXCEPT ![b].listed = @ \ {i}]
      BY DEF UpsertInstallation
<1>2. page[b].at = "listing" /\ UNCHANGED <<teams, users, repos, session>>
      BY DEF UpsertInstallation
<1>3. i \in Installs
      BY RequestFields DEF Request
<1>4. session[b] # Nobody /\ (page[b].blind \/ LoginOf[i] = session[b].who \/ owner[i] # Nobody)
      BY <1>2 DEF Sound, Underway
<1>5. session[b].who \in People /\ t = users[session[b].who] /\ t \in 1 .. teams /\ t \in Teams
      BY <1>4, RequestFields
<1> HIDE DEF t
<1> DEFINE r == [page[b] EXCEPT !.listed = @ \ {i}]
<1>6. page' = [page EXCEPT ![b] = r]
      BY <1>1 DEF Sound, AccountsTypeOK
<1>7. r \in Request /\ r.at = "listing" /\ r.blind = page[b].blind /\ r.listed \subseteq page[b].listed
      BY <1>2, RequestFields DEF Request
<1> HIDE DEF r
<1>8. \A c \in Browsers : page'[c] = IF c = b THEN r ELSE page[c]
      BY <1>6 DEF Sound, AccountsTypeOK
<1>9. \A j \in Installs : owner'[j] = IF j = i /\ owner[i] = Nobody THEN t ELSE owner[j]
      BY <1>1 DEF KeptOwner, Sound, AccountsTypeOK
<1>10. RowsOf'
       BY <1>2, <1>5, <1>9 DEF Sound, RowsOf
<1>11. AccountsTypeOK'
  <2>1. owner' \in [Installs -> Teams \cup {Nobody}]
        BY <1>1, <1>5 DEF KeptOwner, Sound, AccountsTypeOK
  <2>2. page' \in [Browsers -> Request]
        BY <1>6, <1>7 DEF Sound, AccountsTypeOK, Request
  <2>3. unread' \subseteq Installs
        BY <1>1, <1>3 DEF Sound, AccountsTypeOK
  <2> QED BY <1>2, <1>10, <2>1, <2>2, <2>3 DEF Sound, AccountsTypeOK, RowsOf, Teams, Request
<1>12. \A j \in Installs : owner[j] # Nobody => owner'[j] # Nobody
       BY <1>9
<1>13. Underway'
  <2> SUFFICES ASSUME NEW c \in Browsers
               PROVE  /\ page'[c].at \in {"known", "creating", "saving"} => page'[c].who \in People
                      /\ page'[c].at = "saving" => page'[c].team \in 1 .. teams'
                      /\ page'[c].at = "listing" =>
                            /\ session'[c] # Nobody
                            /\ page'[c].blind \/ \A j \in page'[c].listed :
                                   LoginOf[j] = session'[c].who \/ owner'[j] # Nobody
      BY DEF Underway
  <2>1. CASE c = b
    <3>1. page'[c].at = "listing" /\ session'[c] # Nobody
          BY <1>2, <1>4, <1>7, <1>8, <2>1
    <3>2. ASSUME ~page'[c].blind, NEW j \in page'[c].listed
          PROVE  LoginOf[j] = session'[c].who \/ owner'[j] # Nobody
      <4>1. j \in page[b].listed /\ ~page[b].blind /\ j \in Installs
            BY <1>7, <1>8, <2>1, <3>2, RequestFields DEF Request
      <4>2. LoginOf[j] = session[b].who \/ owner[j] # Nobody
            BY <1>2, <4>1 DEF Sound, Underway
      <4> QED BY <1>2, <1>12, <2>1, <4>1, <4>2
    <3> QED BY <3>1, <3>2
  <2>2. CASE c # b
    <3>1. page'[c] = page[c] /\ page[c].listed \subseteq Installs
          BY <1>8, <2>2 DEF Sound, AccountsTypeOK
    <3> QED BY <1>2, <1>12, <3>1 DEF Sound, Underway
  <2> QED BY <2>1, <2>2
<1>14. SessionsAgree'
       BY <1>2 DEF Sound, SessionsAgree
<1>15. InstallationsPlaced'
  <2> SUFFICES ASSUME NEW j \in Installs \ unread', owner'[j] # Nobody
               PROVE  LoginOf[j] # Nobody /\ owner'[j] = users'[LoginOf[j]]
      BY DEF InstallationsPlaced
  <2>1. CASE j = i /\ owner[i] = Nobody
    <3>1. LoginOf[i] = session[b].who
          BY <1>1, <1>4, <2>1
    <3> QED BY <1>2, <1>5, <1>9, <2>1, <3>1, AccountsAssumption
  <2>2. CASE ~(j = i /\ owner[i] = Nobody)
        BY <1>1, <1>2, <1>9, <2>2 DEF Sound, InstallationsPlaced
  <2> QED BY <2>1, <2>2
<1> QED BY <1>10, <1>11, <1>13, <1>14, <1>15 DEF Sound

LEMMA UpsertRepoSound ==
    ASSUME Sound, NEW b \in Browsers, UpsertRepo(b)
    PROVE  Sound'
<1>1. repos' \in [Repos -> Installs \cup {Nobody}] /\ UNCHANGED <<teams, users, owner, session, page, unread>>
      BY DEF UpsertRepo, Sound, AccountsTypeOK
<1> QED BY <1>1 DEF Sound, AccountsTypeOK, RowsOf, Underway, SessionsAgree, InstallationsPlaced, Teams, Request

LEMMA StepSound == Sound /\ [AccountsNext]_accountVars => Sound'
<1> SUFFICES ASSUME Sound, [AccountsNext]_accountVars PROVE Sound'
    OBVIOUS
<1>1. CASE UNCHANGED accountVars
      BY <1>1 DEF accountVars, Sound, AccountsTypeOK, RowsOf, Underway, SessionsAgree,
                  InstallationsPlaced, Teams, Request
<1>2. CASE AccountsNext
      BY <1>2, MovesSound, ReadSound, CreateTeamSound, UpsertUserSound, LogoutSound,
         UpsertInstallationSound, UpsertRepoSound DEF AccountsNext
<1> QED BY <1>1, <1>2

LEMMA AlwaysSound == AccountsSpec => []Sound
BY InitSound, StepSound, PTL DEF AccountsSpec

\* No two first logins of one account, nor any order of logins and lists, leave
\* a cookie with another team than the row of its user has, or an installation
\* with another team than that of the account it is on.
THEOREM AccountsAreSound == AccountsSpec => []AccountsInv
<1>1. Sound => AccountsInv
      BY DEF Sound, AccountsInv
<1> QED BY <1>1, AlwaysSound, PTL

\* Nothing is taken from the team that has it.
LEMMA StepKeepsTeams ==
    Sound /\ [AccountsNext]_accountVars =>
        /\ \A p \in People : users[p] # Nobody => users'[p] = users[p]
        /\ \A i \in Installs : owner[i] # Nobody => owner'[i] = owner[i]
<1> SUFFICES ASSUME Sound, [AccountsNext]_accountVars
             PROVE  /\ \A p \in People : users[p] # Nobody => users'[p] = users[p]
                    /\ \A i \in Installs : owner[i] # Nobody => owner'[i] = owner[i]
    OBVIOUS
<1>1. CASE \E b \in Browsers : UpsertUser(b)
      BY <1>1 DEF UpsertUser, SavedTeam, Sound, AccountsTypeOK
<1>2. CASE \E b \in Browsers : UpsertInstallation(b)
      BY <1>2 DEF UpsertInstallation, KeptOwner, Sound, AccountsTypeOK
<1>3. CASE users' = users /\ owner' = owner
      BY <1>3
<1> QED BY <1>1, <1>2, <1>3 DEF AccountsNext, OAuthStart, OAuthCallback, RequestFails, LookUpUser,
           CreateTeam, Logout, ReadInstallations, Listed, UpsertRepo, accountVars, tables

THEOREM TeamsStayKept == AccountsSpec => TeamsKept
<1>1. Sound /\ [AccountsNext]_accountVars =>
         [/\ \A p \in People : users[p] # Nobody => users'[p] = users[p]
          /\ \A i \in Installs : owner[i] # Nobody => owner'[i] = owner[i]]_accountVars
      BY StepKeepsTeams
<1> QED BY <1>1, AlwaysSound, PTL DEF AccountsSpec, TeamsKept
=============================================================================
