---------------------------------- MODULE Chat ----------------------------------
(***************************************************************************)
(* The copilot of the web studio: pkg/web/server.go handleChatStream,      *)
(* pkg/genkit/flows.go handleRepoCopilotChatFlow and pkg/chat.  All        *)
(* requests of the page share one chat engine.  A request runs the flow,   *)
(* which starts SendMessage in a goroutine and collects its events from a  *)
(* bounded channel; SendMessage holds the engine's lock from the question  *)
(* to the answer, and goes on when the page is closed.                     *)
(*                                                                         *)
(* The model's words are left out: a plan is drawn tool by tool as it is   *)
(* carried out, a tool by what it can do to the engine and the project.    *)
(* The hooks of the cloud server are nil here.  Settings holds the writes  *)
(* of the configuration's files, Pipeline those of a localization.         *)
(***************************************************************************)
EXTENDS Local, Naturals, Sequences, SequencesExt, FiniteSetsExt

CONSTANTS
    Askers,      \* requests to /api/chat, one each
    MaxTools,    \* tools in a plan
    MaxRuns,     \* tools in all the plans
    MaxChunks,   \* words streamed of an answer
    Bridge       \* capacity of bridgeChan (100 in the code)

\* The events of a plan fit in the channel; the words of an answer need not.
ASSUME ChatAssumption ==
    /\ None \notin Askers
    /\ MaxTools \in Nat /\ MaxRuns \in Nat /\ MaxChunks \in Nat /\ Bridge \in Nat
    /\ Bridge >= 3 * MaxTools + 1

VARIABLES
    history,     \* Engine.History
    holder,      \* who holds Engine.mu
    world,       \* what tools read and change, of the engine and the project
    asks,        \* the requests: the flow and its SendMessage
    raced        \* history: an append without the lock lost another one

chatVars == <<history, holder, world, asks, raced>>

\* Saving a wish is Settings' SetFromChat.
World  == [found : BOOLEAN,        \* Engine.Candidates is not empty
           wished : BOOLEAN,       \* TargetLocales or ToneStyle were changed
           touched : BOOLEAN]      \* the project's files were

Events == [type : {"thought", "tool_start", "tool_end", "card", "chunk", "done"},
           of : 0 .. MaxTools]
Indices == UNION {[1 .. n -> 1 .. MaxTools] : n \in 0 .. MaxTools}
EventLists == [calls : Indices, results : Indices, cards : Indices]
Nothing == [calls |-> <<>>, results |-> <<>>, cards |-> <<>>]
Said    == [role : {"user", "assistant", "seed"}, by : Askers]

\* "checked" and "seeding" are handleChatStream's, before the flow begins.
Idle == [work |-> "idle", page |-> "open", base |-> <<>>,
         made |-> Nothing, heard |-> Nothing, bridge |-> <<>>]

ChatTypeOK ==
    /\ history \in Seq(Said) /\ holder \in Askers \cup {None}
    /\ world \in World /\ raced \in BOOLEAN
    /\ \A c \in Askers :
          /\ asks[c].work \in {"idle", "checked", "seeding", "waiting", "working", "done"}
          /\ asks[c].page \in {"open", "left", "answered"}
          /\ asks[c].made \in EventLists /\ asks[c].heard \in EventLists
          /\ asks[c].bridge \in Seq(Events) /\ Len(asks[c].bridge) <= Bridge
          /\ asks[c].base \in Seq(Said)
    /\ \A c \in Askers : holder = c <=> asks[c].work = "working"

\* NewEngine takes its locales and its tone from nowhere but its defaults,
\* whatever the settings hold.
ChatInit ==
    /\ history = <<>> /\ holder = None /\ raced = FALSE
    /\ world = [found |-> FALSE, wished |-> FALSE, touched |-> FALSE]
    /\ asks = [c \in Askers |-> Idle]
-----------------------------------------------------------------------------
(***************************************************************************)
(* The tools: the ways each can end, as a set of outcomes.                 *)
(***************************************************************************)
Shown(w)  == [world |-> w, card |-> TRUE]
Plain(w)  == [world |-> w, card |-> FALSE]
Failed(w) == [world |-> w, card |-> FALSE]

ScanRepository(w) == {Failed(w)} \cup {Shown([w EXCEPT !.found = f]) : f \in BOOLEAN}

\* It looks at what the last scan found, in whatever directory that was.
InspectString(w) == {Failed(w), Plain(w)} \cup (IF w.found THEN {Shown(w)} ELSE {})

FindStrings(w) == {Shown(w)}

PlanLocalization(w) == {Shown(w)}

\* A pipeline that fails may have changed some files.
ExecuteLocalization(w) ==
    {Failed(w), Shown(w), Failed([w EXCEPT !.touched = TRUE]), Shown([w EXCEPT !.touched = TRUE])}

\* JobTriggerHook is nil: the job is a pipeline run here.  The locales it
\* names stay with the engine, and are not saved.
TriggerJob(w) ==
    ExecuteLocalization(w) \cup ExecuteLocalization([w EXCEPT !.wished = TRUE])

QueryJobs(w) == {Plain(w)}

\* KeyUpdateHook is nil too: nothing is written.
UpdateTranslationKey(w) == {Failed(w), Shown(w)}

VerifyTranslations(w) == {Shown(w)}

\* Nothing ever fills Engine.RefactorPlans.
ApplyPatch(w) == {Shown(w)}

AnalyzeCompetitor(w) == {Failed(w), Shown(w)}

SimulateSERP(w) == {Shown(w)}

WeaveCopy(w) == {Failed(w), Shown(w)}

\* A snapshot holds the files of one run.
ManageCheckpoints(w) ==
    {Failed(w)} \cup {Shown([w EXCEPT !.touched = t]) : t \in {FALSE, w.touched}}

\* The error of a save is dropped.
ManageConfig(w) == {Shown(w), Shown([w EXCEPT !.wished = TRUE])}

ScoutPersonas(w) == {Failed(w), Shown(w)}

PruneDeadKeys(w) == {Failed(w), Shown(w), Shown([w EXCEPT !.touched = TRUE])}

DiagnoseSystem(w) == {Failed(w), Shown(w)}

Outcomes(w) ==
    ScanRepository(w) \cup InspectString(w) \cup FindStrings(w) \cup PlanLocalization(w)
    \cup ExecuteLocalization(w) \cup TriggerJob(w) \cup QueryJobs(w)
    \cup UpdateTranslationKey(w) \cup VerifyTranslations(w) \cup ApplyPatch(w)
    \cup AnalyzeCompetitor(w) \cup SimulateSERP(w) \cup WeaveCopy(w)
    \cup ManageCheckpoints(w) \cup ManageConfig(w) \cup ScoutPersonas(w)
    \cup PruneDeadKeys(w) \cup DiagnoseSystem(w)
-----------------------------------------------------------------------------
(***************************************************************************)
(* A request                                                               *)
(***************************************************************************)
Entry(r, c) == [role |-> r, by |-> c]
Event(t, i) == [type |-> t, of |-> i]

\* emitEvent: events that find the channel full are dropped; those nobody
\* will read any more are left out.
Emit(ask, events) ==
    LET all == ask.bridge \o events
    IN  IF ask.page = "left" THEN <<>> ELSE SubSeq(all, 1, Min({Len(all), Bridge}))

\* handleChatStream: a page that has a history offers it to an engine that
\* has none.  Neither this look nor the appends take Engine.mu.
Ask(c) ==
    /\ asks[c].work = "idle"
    /\ \E at \in {"waiting"} \cup (IF history = <<>> THEN {"checked"} ELSE {}) :
          asks' = [asks EXCEPT ![c].work = at]
    /\ UNCHANGED <<history, holder, world, raced>>

SeedRead(c) ==
    /\ asks[c].work = "checked"
    /\ asks' = [asks EXCEPT ![c].work = "seeding", ![c].base = history]
    /\ UNCHANGED <<history, holder, world, raced>>

\* The append goes to the slice that was read.
SeedWrite(c) ==
    /\ asks[c].work = "seeding"
    /\ history' = Append(asks[c].base, Entry("seed", c))
    /\ raced' = (raced \/ asks[c].base # history)
    /\ asks' = [asks EXCEPT ![c].work = "waiting", ![c].base = <<>>]
    /\ UNCHANGED <<holder, world>>

\* Mistake: a turn starts while another holds the lock.
ListenUnlocked(c) ==
    /\ asks[c].work = "waiting"
    /\ holder' = c
    /\ history' = Append(history, Entry("user", c))
    /\ \E thought \in {<<>>, <<Event("thought", 0)>>} :
          asks' = [asks EXCEPT ![c].work = "working", ![c].bridge = Emit(asks[c], thought)]
    /\ UNCHANGED <<world, raced>>

\* SendMessage takes the lock, remembers the question and plans.  A plan that
\* fails (the page closed, no model) is made of the words of the question.
Listen(c) ==
    /\ asks[c].work = "waiting" /\ holder = None
    /\ holder' = c
    /\ history' = Append(history, Entry("user", c))
    /\ \E thought \in {<<>>, <<Event("thought", 0)>>} :
          asks' = [asks EXCEPT ![c].work = "working", ![c].bridge = Emit(asks[c], thought)]
    /\ UNCHANGED <<world, raced>>

More(c) ==
    /\ asks[c].work = "working" /\ Len(asks[c].made.calls) < MaxTools
    /\ LET Called(d) == Len(asks[d].made.calls) IN MapThenSumSet(Called, Askers) < MaxRuns

\* A tool the registry does not know gets a start and no result.
UnknownTool(c) ==
    /\ More(c)
    /\ LET i == Len(asks[c].made.calls) + 1 IN
       asks' = [asks EXCEPT ![c].made.calls = Append(@, i),
                            ![c].bridge = Emit(asks[c], <<Event("tool_start", i)>>)]
    /\ UNCHANGED <<history, holder, world, raced>>

RunTool(c) ==
    /\ More(c)
    /\ LET i == Len(asks[c].made.calls) + 1 IN
       \E out \in Outcomes(world) :
          LET card == IF out.card THEN <<i>> ELSE <<>>
              events == <<Event("tool_start", i)>>
                        \o (IF out.card THEN <<Event("card", i)>> ELSE <<>>)
                        \o <<Event("tool_end", i)>>
          IN /\ world' = out.world
             /\ asks' = [asks EXCEPT
                  ![c].made = [calls |-> Append(@.calls, i), results |-> Append(@.results, i),
                               cards |-> @.cards \o card],
                  ![c].bridge = Emit(asks[c], events)]
    /\ UNCHANGED <<history, holder, raced>>

\* The answer, from the model or without it, is streamed word by word and
\* remembered; the lock is released.
Answer(c) ==
    /\ asks[c].work = "working"
    /\ history' = Append(history, Entry("assistant", c))
    /\ holder' = None
    /\ \E n \in 0 .. MaxChunks :
          asks' = [asks EXCEPT ![c].work = "done",
                      ![c].bridge = Emit(asks[c], [i \in 1 .. n |-> Event("chunk", 0)]
                                            \o <<Event("done", 0)>>)]
    /\ UNCHANGED <<world, raced>>

-----------------------------------------------------------------------------
\* The flow's loop: what one event adds to the reply.
Heard(lists, e) ==
    CASE e.type = "tool_start" -> [lists EXCEPT !.calls = Append(@, e.of)]
      [] e.type = "tool_end"   -> [lists EXCEPT !.results = Append(@, e.of)]
      [] e.type = "card"       -> [lists EXCEPT !.cards = Append(@, e.of)]
      [] OTHER                 -> lists

Hear(c) ==
    /\ asks[c].page = "open" /\ asks[c].bridge # <<>>
    /\ asks' = [asks EXCEPT ![c].heard = Heard(@, Head(asks[c].bridge)),
                            ![c].bridge = Tail(@)]
    /\ UNCHANGED <<history, holder, world, raced>>

\* Mistake: the cards left in the channel are thrown away too.
DrainedWords(lists, bridge) == lists

Collect(found, type, e) == IF e.type = type THEN Append(found, e.of) ELSE found

\* The indices of the events of one type, in order.
OfType(type, events) ==
    LET found[i \in 0 .. Len(events)] ==
            IF i = 0 THEN <<>> ELSE Collect(found[i - 1], type, events[i])
    IN  found[Len(events)]

\* What is left in the channel when SendMessage has returned: tools and
\* thoughts are thrown away.
Drained(lists, bridge) == [lists EXCEPT !.cards = @ \o OfType("card", bridge)]

\* A list is taken from the message only when not one of its events came.
Filled(lists, made) == [f \in DOMAIN lists |-> IF lists[f] = <<>> THEN made[f] ELSE lists[f]]

\* The select may see doneChan before the events that are still in bridgeChan.
Finish(c) ==
    /\ asks[c].page = "open" /\ asks[c].work = "done"
    /\ asks' = [asks EXCEPT ![c].page = "answered", ![c].bridge = <<>>,
                            ![c].heard = Filled(Drained(@, asks[c].bridge), asks[c].made)]
    /\ UNCHANGED <<history, holder, world, raced>>

\* The page is closed: flow and handler return, SendMessage does not.
LeaveChat(c) ==
    /\ asks[c].page = "open" /\ asks[c].work \notin {"idle", "checked", "seeding"}
    /\ asks' = [asks EXCEPT ![c].page = "left", ![c].bridge = <<>>]
    /\ UNCHANGED <<history, holder, world, raced>>

\* handleChatReset waits for the lock.
ResetHistory ==
    /\ holder = None /\ history # <<>>
    /\ history' = <<>>
    /\ UNCHANGED <<holder, world, asks, raced>>

ChatNext ==
    \/ \E c \in Askers :
          \/ Ask(c) \/ SeedRead(c) \/ SeedWrite(c)
          \/ Listen(c) \/ UnknownTool(c) \/ RunTool(c) \/ Answer(c)
          \/ Hear(c) \/ Finish(c) \/ LeaveChat(c)
    \/ ResetHistory

ChatSpec == ChatInit /\ [][ChatNext]_chatVars
-----------------------------------------------------------------------------
(***************************************************************************)
(* Properties                                                              *)
(***************************************************************************)
Turns == {i \in DOMAIN history : history[i].role # "seed"}

\* Between the two there are only entries of an old conversation.
NextTurn(i, j) == i < j /\ \A k \in i + 1 .. j - 1 : k \notin Turns

\* However requests overlap, and whatever pages are closed in the middle, the
\* memory the copilot plans with holds each question directly followed by the
\* answer to it, and no answer without its question.  Appends of an old
\* conversation, which take no lock, are left out, and what they overwrote is
\* excused.
TurnsTogether ==
    raced \/ \A i \in Turns :
        IF history[i].role = "user"
        THEN \A j \in Turns : NextTurn(i, j) => history[j] = Entry("assistant", history[i].by)
        ELSE \E j \in Turns : NextTurn(j, i) /\ history[j] = Entry("user", history[i].by)

\* A reply holds every card the tools made, and of calls and results the
\* first ones, each once and in the order they were made: what the loop saw,
\* what was left in the channel and what is taken from the message are never
\* counted twice.
ReplyFaithful ==
    \A c \in Askers : asks[c].page = "answered" =>
        /\ asks[c].heard.cards = asks[c].made.cards
        /\ IsPrefix(asks[c].heard.calls, asks[c].made.calls)
        /\ IsPrefix(asks[c].heard.results, asks[c].made.results)

\* All of what a state of the copilot may be.
ChatInv == ChatTypeOK /\ ReplyFaithful
=============================================================================
