-------------------------------- MODULE Terminal --------------------------------
(***************************************************************************)
(* The full-screen terminal interface of pkg/tui/app.go: one Model, whose  *)
(* Update takes a key or the message of a background command at a time.    *)
(* Long work runs in commands that keep what they captured when they were  *)
(* started; their messages come in between the keys.                       *)
(*                                                                         *)
(* Abstractions.  A scan finds n strings; which, and whether they are      *)
(* approved, is left out: the pipeline (module Pipeline) scans again and   *)
(* never asks.  Providers, styles, the dry-run switch and the locales that *)
(* are selected are left out, and so is the example view, which no key     *)
(* leads to.  q in the menu and ctrl+c end the program: no step follows.   *)
(* A text of the one text box is the purpose it was typed for.             *)
(***************************************************************************)
EXTENDS Local, Naturals, FiniteSets

CONSTANTS
    MaxStrings,      \* strings a scan ever finds
    MaxCheckpoints,  \* checkpoints a project ever has
    Languages        \* number of locales on offer

ASSUME TerminalAssumption ==
    {MaxStrings, MaxCheckpoints, Languages} \subseteq Nat /\ IsFiniteSet(Projects)

VARIABLES
    open,        \* m.projectRoot, with m.platform and m.supervisor made for it
    view,        \* m.state
    cursor,      \* m.cursor
    stage,       \* m.onboardingStep or m.wizardStep
    list,        \* m.candidates: the project scanned, how many
    index,       \* m.candidateIdx
    shelf,       \* m.checkpoints: the project, how many
    report,      \* m.lastPipelineResult: the project of the run, or None
    loading,     \* m.loading
    tasks,       \* background commands that have not sent their message
    editing,     \* m.inputMode and m.editingKey: None, a model or a key
    box,         \* value of m.textInput
    directive    \* m.directiveInput

terminalVars == <<open, view, cursor, stage, list, index, shelf, report, loading,
                  tasks, editing, box, directive>>

\* The rows of the main menu, by number.
Menu == <<"onboarding", "wizard", "audit", "review", "translate", "projects",
          "benchmark", "checkpoints", "settings", "tokens">>
Views == {Menu[i] : i \in DOMAIN Menu} \cup {"menu", "summary"}
Kinds == {"scan", "full", "refactor", "translate", "deps", "probe", "benchmark"}
Purposes == {"directive", "model", "key"}

Shelves == [of : Projects \cup {None}, n : 0 .. MaxCheckpoints]
Lists   == [of : Projects \cup {None}, n : 0 .. MaxStrings]
NoList  == [of |-> None, n |-> 0]

TerminalTypeOK ==
    /\ open \in Projects
    /\ view \in Views
    /\ cursor \in Nat /\ stage \in 0 .. 4 /\ index \in Nat
    /\ list \in Lists /\ shelf \in Shelves
    /\ report \in Projects \cup {None}
    /\ loading \in BOOLEAN
    /\ tasks \subseteq [kind : Kinds, of : Projects]
    /\ editing \in {None, "model", "key"}
    /\ box \in Purposes \cup {None} /\ directive \in Purposes \cup {None}

TerminalInit ==
    /\ open \in Projects
    /\ view = "menu" /\ cursor = 0 /\ stage = 0
    /\ list = NoList /\ index = 0
    /\ shelf = [of |-> None, n |-> 0]
    /\ report = None
    /\ loading = FALSE /\ tasks = {}
    /\ editing = None /\ box = None /\ directive = None

\* getMaxCursor.
MaxCursor ==
    CASE view = "menu"        -> 9
      [] view = "onboarding"  -> <<4, 1, 3, 0>>[stage + 1]
      [] view = "wizard"      -> <<3, 4, 0, 1, 0>>[stage + 1]
      [] view = "projects"    -> Cardinality(Projects) - 1
      [] view = "translate"   -> Languages + 1
      [] view = "checkpoints" -> IF shelf.n > 0 THEN shelf.n - 1 ELSE 0
      [] view = "settings"    -> 18
      [] OTHER                -> 0

shownVars == <<list, index, shelf, report>>
textVars  == <<editing, box, directive>>
taskVars  == <<loading, tasks>>

\* A key that a view takes: none while a command runs, and the text box and
\* the directive step of the wizard take theirs first.
Takes(v) ==
    /\ ~loading /\ editing = None
    /\ ~(view = "wizard" /\ stage = 2)
    /\ view \in v

Show(v) == view' = v /\ cursor' = 0

\* Mistake: a command starts and nothing marks it as loading.
LaunchUnmarked(kind) ==
    /\ tasks' = tasks \cup {[kind |-> kind, of |-> open]}
    /\ UNCHANGED loading

\* start...: the command captures the project and its supervisor.
Launch(kind) ==
    /\ loading' = TRUE
    /\ tasks' = tasks \cup {[kind |-> kind, of |-> open]}

(***************************************************************************)
(* Moving about.                                                           *)
(***************************************************************************)
PressQ ==
    /\ Takes(Views \ {"menu"})
    /\ Show("menu")
    /\ UNCHANGED <<open, stage, shownVars, taskVars, textVars>>

PressEsc ==
    /\ Takes(Views)
    /\ Show("menu")
    /\ UNCHANGED <<open, stage, shownVars, taskVars, textVars>>

\* Mistake: the cursor of the old list stays.
PressPKeepingCursor ==
    /\ Takes(Views)
    /\ view' = "projects"
    /\ UNCHANGED <<open, cursor, stage, shownVars, taskVars, textVars>>

PressP ==
    /\ Takes(Views)
    /\ Show("projects")
    /\ UNCHANGED <<open, stage, shownVars, taskVars, textVars>>

\* resetAllDemoExamples empties the candidates; their index stays.
PressC ==
    /\ Takes(Views)
    /\ list' = NoList
    /\ UNCHANGED <<open, view, cursor, stage, index, shelf, report, taskVars, textVars>>

\* Mistake: back from the first stage is not caught.
BackTooFar ==
    /\ Takes({"onboarding", "wizard"})
    /\ stage' = stage - 1 /\ cursor' = 0
    /\ UNCHANGED <<open, view, shownVars, taskVars, textVars>>

Back ==
    /\ Takes({"onboarding", "wizard"})
    /\ IF stage > 0 THEN stage' = stage - 1 /\ cursor' = 0 /\ UNCHANGED view
       ELSE Show("menu") /\ UNCHANGED stage
    /\ UNCHANGED <<open, shownVars, taskVars, textVars>>

\* Up and down move the audit's window (left out), the review's index or
\* the cursor.
Move ==
    /\ Takes(Views \ {"audit"})
    /\ IF view = "review"
       THEN /\ index' \in {i \in {index - 1, index + 1} : i >= 0 /\ i < list.n}
            /\ UNCHANGED cursor
       ELSE /\ cursor' \in {c \in {cursor - 1, cursor + 1} : c >= 0 /\ c <= MaxCursor}
            /\ UNCHANGED index
    /\ UNCHANGED <<open, view, stage, list, shelf, report, taskVars, textVars>>

\* a and s judge the string under the index and go on to the next one.
Judge ==
    /\ Takes({"review"}) /\ list.n > 0
    /\ index' = IF index < list.n - 1 THEN index + 1 ELSE index
    /\ UNCHANGED <<open, view, cursor, stage, list, shelf, report, taskVars, textVars>>

(***************************************************************************)
(* The main menu, by number or with Enter.                                 *)
(***************************************************************************)
LoadCheckpoints == \E n \in 0 .. MaxCheckpoints : shelf' = [of |-> open, n |-> n]

\* By number, "2" scans at once and "6" runs the benchmark, in the menu; "3"
\* keeps the menu's cursor when it has to scan first.
PickNumber(n) ==
    /\ Takes({"menu"})
    /\ LET v == Menu[n + 1] IN
       /\ view' = IF n \in {2, 6} THEN view ELSE v
       /\ IF n \in {2, 6} \/ (n = 3 /\ list.n = 0) THEN UNCHANGED cursor ELSE cursor' = 0
       /\ stage' = IF n \in {0, 1} THEN 0 ELSE stage
       /\ IF n = 2 \/ (n = 3 /\ list.n = 0) THEN Launch("scan")
          ELSE IF n = 6 THEN Launch("benchmark") ELSE UNCHANGED taskVars
       /\ IF n = 7 THEN LoadCheckpoints ELSE UNCHANGED shelf
    /\ UNCHANGED <<open, list, index, report, textVars>>

EnterMenu ==
    /\ Takes({"menu"})
    /\ LET v == Menu[cursor + 1] IN
       /\ Show(v)
       /\ stage' = IF v \in {"onboarding", "wizard"} THEN 0 ELSE stage
       /\ IF v \in {"audit", "review"} /\ list.n = 0 THEN Launch("scan")
          ELSE IF v = "benchmark" THEN Launch("benchmark") ELSE UNCHANGED taskVars
       /\ IF v = "checkpoints" THEN LoadCheckpoints ELSE UNCHANGED shelf
    /\ UNCHANGED <<open, list, index, report, textVars>>

\* Mistake: the candidates of the old target stay.
SwitchKeepingCandidates ==
    /\ Takes({"projects"})
    /\ \E p \in Projects : open' = p
    /\ Show("menu")
    /\ UNCHANGED <<stage, shownVars, taskVars, textVars>>

\* switchTargetProject.  The checkpoints on the shelf and the last report
\* stay, for views that are only entered with fresh ones.
SwitchTarget ==
    /\ Takes({"projects"})
    /\ \E p \in Projects : open' = p
    /\ list' = NoList
    /\ Show("menu")
    /\ UNCHANGED <<stage, index, shelf, report, taskVars, textVars>>

(***************************************************************************)
(* The onboarding and the wizard.  Number keys choose and confirm at once. *)
(***************************************************************************)
Chosen == {cursor} \cup 0 .. 4

OnboardingEnter ==
    /\ Takes({"onboarding"})
    /\ IF stage < 3 THEN stage' = stage + 1 /\ cursor' = 0 /\ UNCHANGED view
       ELSE Show("menu") /\ UNCHANGED stage
    /\ UNCHANGED <<open, shownVars, taskVars, textVars>>

\* The fourth choice is the full list of languages, in another view.
EnterLanguages ==
    /\ Takes({"wizard"}) /\ stage = 0
    /\ \E c \in Chosen :
          IF c = 3 THEN Show("translate") /\ UNCHANGED stage
          ELSE stage' = 1 /\ cursor' = 0 /\ UNCHANGED view
    /\ UNCHANGED <<open, shownVars, taskVars, textVars>>

\* Mistake: the box keeps the text of another field.
EnterToneKeepingText ==
    /\ Takes({"wizard"}) /\ stage = 1
    /\ stage' = 2 /\ cursor' = 0
    /\ UNCHANGED <<open, view, shownVars, taskVars, textVars>>

\* The text box, which the settings use too, gets the last directive.
EnterTone ==
    /\ Takes({"wizard"}) /\ stage = 1
    /\ stage' = 2 /\ cursor' = 0
    /\ box' = directive
    /\ UNCHANGED <<open, view, shownVars, taskVars, editing, directive>>

AtDirective == ~loading /\ editing = None /\ view = "wizard" /\ stage = 2

\* Typing, or Tab through the presets.
WriteDirective ==
    /\ AtDirective
    /\ box' \in {"directive", None}
    /\ UNCHANGED <<open, view, cursor, stage, shownVars, taskVars, editing, directive>>

EnterDirective ==
    /\ AtDirective
    /\ directive' = box
    /\ stage' = 3 /\ cursor' = 0
    /\ UNCHANGED <<open, view, shownVars, taskVars, editing, box>>

LeaveDirective ==
    /\ AtDirective
    /\ stage' = 1 /\ cursor' = 0
    /\ UNCHANGED <<open, view, shownVars, taskVars, textVars>>

EnterSafety ==
    /\ Takes({"wizard"}) /\ stage = 3
    /\ stage' = 4 /\ cursor' = 0
    /\ UNCHANGED <<open, view, shownVars, taskVars, textVars>>

EnterLaunch ==
    /\ Takes({"wizard"}) /\ stage = 4
    /\ cursor' \in Chosen
    /\ Launch("full")
    /\ UNCHANGED <<open, view, stage, shownVars, textVars>>

(***************************************************************************)
(* The other views.                                                        *)
(***************************************************************************)
\* Enter in the audit opens the review; Enter in the review, and r in the
\* audit, refactor; the first row and the button of the languages translate;
\* r in the summary runs it all again.
EnterAudit ==
    /\ Takes({"audit"})
    /\ Show("review")
    /\ UNCHANGED <<open, stage, shownVars, taskVars, textVars>>

StartWork ==
    /\ \/ Takes({"review", "audit"}) /\ Launch("refactor")
       \/ Takes({"translate"}) /\ cursor \in {0, Languages} /\ Launch("translate")
       \/ Takes({"summary"}) /\ Launch("full")
    /\ UNCHANGED <<open, view, cursor, stage, shownVars, textVars>>

\* Mistake: an installation starts and nothing marks it as loading.
InstallUnmarked ==
    /\ Takes(Views)
    /\ LaunchUnmarked("deps")
    /\ UNCHANGED <<open, view, cursor, stage, shownVars, textVars>>

Install ==
    /\ Takes(Views)
    /\ Launch("deps")
    /\ UNCHANGED <<open, view, cursor, stage, shownVars, textVars>>

LeaveSummary ==
    /\ Takes({"summary"})
    /\ \/ Show("menu") /\ UNCHANGED taskVars
       \/ list.n > 0 /\ Show("audit") /\ UNCHANGED taskVars
       \/ list.n = 0 /\ Launch("scan") /\ UNCHANGED <<view, cursor>>
    /\ UNCHANGED <<open, stage, shownVars, textVars>>

\* t shows the token statistics, goes back from them, or probes the model.
PressT ==
    /\ Takes(Views)
    /\ \/ view = "settings" /\ Launch("probe") /\ UNCHANGED <<view, cursor>>
       \/ view = "tokens" /\ view' = "menu" /\ UNCHANGED <<cursor, taskVars>>
       \/ view \notin {"settings", "tokens"} /\ Show("tokens") /\ UNCHANGED taskVars
    /\ UNCHANGED <<open, stage, shownVars, textVars>>

\* Enter on a provider may ask for its key, with an empty box or a default
\* address; on a key it edits the key there is; m edits the model's name.
EditSetting ==
    /\ Takes({"settings"})
    /\ \/ cursor \in {0, 1, 2, 4, 5, 6} /\ editing' = "key"
          /\ box' = IF cursor = 6 THEN "key" ELSE None
       \/ cursor \in 8 .. 12 /\ editing' = "key" /\ box' \in {"key", None}
       \/ cursor \in {0, 1, 2, 3, 6} /\ editing' = "model" /\ box' \in {"model", None}
    /\ UNCHANGED <<open, view, cursor, stage, shownVars, taskVars, directive>>

EnterProbe ==
    /\ Takes({"settings"}) /\ cursor = 18
    /\ Launch("probe")
    /\ UNCHANGED <<open, view, cursor, stage, shownVars, textVars>>

InBox == ~loading /\ editing # None

WriteSetting ==
    /\ InBox
    /\ box' \in {editing, None}
    /\ UNCHANGED <<open, view, cursor, stage, shownVars, taskVars, editing, directive>>

\* Enter saves the value (module Settings), Esc and ctrl+c do not; the text
\* stays in the box.
LeaveBox ==
    /\ InBox
    /\ editing' = None
    /\ UNCHANGED <<open, view, cursor, stage, shownVars, taskVars, box, directive>>

(***************************************************************************)
(* The message of a background command.                                    *)
(***************************************************************************)
TaskFails(t) ==
    /\ t \in tasks
    /\ tasks' = tasks \ {t} /\ loading' = FALSE
    /\ UNCHANGED <<open, view, cursor, stage, shownVars, textVars>>

ScanDone(t) ==
    /\ t \in tasks /\ t.kind = "scan"
    /\ tasks' = tasks \ {t} /\ loading' = FALSE
    /\ \E n \in 0 .. MaxStrings : list' = [of |-> t.of, n |-> n]
    /\ index' = 0
    /\ view' = "audit"
    /\ UNCHANGED <<open, cursor, stage, shelf, report, textVars>>

WorkDone(t) ==
    /\ t \in tasks /\ t.kind \in {"full", "refactor", "translate"}
    /\ tasks' = tasks \ {t} /\ loading' = FALSE
    /\ report' = t.of
    /\ Show("summary")
    /\ UNCHANGED <<open, stage, list, index, shelf, textVars>>

OtherDone(t) ==
    /\ t \in tasks /\ t.kind \in {"deps", "probe", "benchmark"}
    /\ tasks' = tasks \ {t} /\ loading' = FALSE
    /\ view' = IF t.kind = "benchmark" THEN "benchmark" ELSE view
    /\ UNCHANGED <<open, cursor, stage, shownVars, textVars>>
-----------------------------------------------------------------------------
PressKey ==
    \/ PressQ \/ PressEsc \/ PressP \/ PressC \/ Back \/ Move \/ Judge
    \/ (\E n \in 0 .. 9 : PickNumber(n)) \/ EnterMenu \/ SwitchTarget
    \/ OnboardingEnter \/ EnterLanguages \/ EnterTone \/ EnterSafety \/ EnterLaunch
    \/ WriteDirective \/ EnterDirective \/ LeaveDirective
    \/ EnterAudit \/ StartWork \/ Install \/ LeaveSummary \/ PressT
    \/ EditSetting \/ EnterProbe \/ WriteSetting \/ LeaveBox

TaskEnds == \E t \in tasks : TaskFails(t) \/ ScanDone(t) \/ WorkDone(t) \/ OtherDone(t)

TerminalNext == PressKey \/ TaskEnds
TerminalSpec == TerminalInit /\ [][TerminalNext]_terminalVars
-----------------------------------------------------------------------------
(***************************************************************************)
(* Properties                                                              *)
(***************************************************************************)
\* The interface is locked exactly while one background command is at work,
\* so no two of them ever touch the project's files at once.
OneTask == IF loading THEN \E t \in tasks : tasks = {t} ELSE tasks = {}

\* Candidates are those of the open project, whatever was switched, scanned
\* or failed; so are checkpoints and the report in the views that show them,
\* and a command at work is about the open project.
ShownIsCurrent ==
    /\ list.of \in {None, open}
    /\ view = "checkpoints" => shelf.of = open
    /\ view = "summary" => report = open
    /\ \A t \in tasks : t.of = open

\* A key that acts on the row under the cursor, or on the string under the
\* index, finds one: every change of view, of step or of list leaves them in
\* range.  (The last step of the wizard has one row, and ignores the cursor.)
CursorInRange ==
    /\ view \in {"menu", "projects", "translate", "checkpoints", "settings", "onboarding"}
          => cursor <= MaxCursor
    /\ view = "wizard" /\ stage < 4 => cursor <= MaxCursor
    /\ list.n > 0 => index < list.n

\* One box serves keys, models and directives: a key or a model typed in the
\* settings, saved or given up, is never taken for a directive.
TextsStayApart ==
    /\ directive \in {"directive", None}
    /\ AtDirective => box \in {"directive", None}
    /\ editing # None => view = "settings" /\ box \in {editing, None}

\* All of what a state of the terminal application may be.
TerminalInv == TerminalTypeOK /\ OneTask /\ ShownIsCurrent /\ CursorInRange /\ TextsStayApart
=============================================================================
