------------------------------ MODULE LocalProofs ------------------------------
(***************************************************************************)
(* Proofs about the interfaces of the local program, for any projects,     *)
(* requests and savers: the settings on disk (Settings), the terminal      *)
(* application (Terminal), the web studio (Studio) and the copilot (Chat). *)
(***************************************************************************)
EXTENDS Studio, Terminal, Settings, Chat, SequenceProofs, FiniteSetTheorems

(***************************************************************************)
(* Settings.  A saver that met nobody has a current copy: what it did not  *)
(* change itself is in the files as it read it.                            *)
(***************************************************************************)
\* What a saver that met nobody knows of the person's file.
CopyCurrent(s) ==
    savers[s].at # "idle" =>
        /\ globalTorn => savers[s].at = "fill"
        /\ \/ savers[s].config.key = IF global = None THEN None ELSE global.key
           \/ savers[s].config.key = s
           \/ savers[s].config.key = "" /\ savers[s].kind = "terminal"

\* What it has saved so far is in the files.
SavedSoFar(s) ==
    /\ savers[s].at \in {"overlay", "refill", "saved"} => global = savers[s].config
    /\ savers[s].at = "saved" =>
          /\ ~ownTorn[savers[s].of]
          /\ own[savers[s].of] = [provider |-> savers[s].config.provider,
                                  command |-> savers[s].config.command]

CopiesCurrent == \A s \in Savers \ late : CopyCurrent(s) /\ SavedSoFar(s)

Saver == [kind : SaverKinds, at : {"idle", "global", "project", "edit", "save", "fill",
                                   "overlay", "refill", "saved"},
          of : Projects, config : Config, saves : 0 .. 2]

LEMMA ReadsConfigs ==
    ASSUME SettingsTypeOK
    PROVE  ReadGlobal \in Config /\ \A c \in Config, p \in Projects : Overlay(c, p) \in Config
<1>1. Defaults \in Config
  BY DEF Defaults, Config, Providers, Keys
<1>2. ASSUME NEW c \in Config, NEW p \in Projects PROVE Overlay(c, p) \in Config
  <2>1. CASE ownTorn[p] \/ own[p] = None
    BY <2>1 DEF Overlay
  <2>2. CASE own[p] \in OwnFile /\ ~(ownTorn[p] \/ own[p] = None)
    BY <2>2 DEF Overlay, OwnFile, Config, Providers
  <2> QED
    BY <2>1, <2>2 DEF SettingsTypeOK
<1> QED
  BY <1>1, <1>2 DEF ReadGlobal, SettingsTypeOK

LEMMA TerminalSets ==
    ASSUME NEW s \in Savers, savers \in [Savers -> Saver], SetFromTerminal(s)
    PROVE  \E p \in Projects, c \in Config :
              /\ savers' = [savers EXCEPT ![s] = [savers[s] EXCEPT !.at = "save", !.of = p,
                                                                  !.saves = 1, !.config = c]]
              /\ c.key \in {savers[s].config.key, s, ""}
<1> DEFINE cs == {[savers[s].config EXCEPT !.provider = s], [savers[s].config EXCEPT !.key = s],
                  [savers[s].config EXCEPT !.key = ""]}
<1>1. \A c \in cs : c \in Config /\ c.key \in {savers[s].config.key, s, ""}
  BY DEF Saver, Config, Providers, Keys
<1>2. \E p \in Projects : \E c \in cs :
         savers' = [savers EXCEPT ![s].at = "save", ![s].of = p, ![s].saves = 1, ![s].config = c]
  BY DEF SetFromTerminal
<1> HIDE DEF cs
<1> QED
  BY <1>1, <1>2, ZenonT(60)

LEMMA SettingsStepTypes ==
    ASSUME SettingsTypeOK, [SettingsNext]_settingsVars PROVE SettingsTypeOK'
<1> USE DEF SettingsTypeOK, fileVars, SaverKinds
<1>1. CASE UNCHANGED settingsVars
  BY <1>1 DEF settingsVars
<1> SUFFICES ASSUME NEW s \in Savers,
                    \/ LoadGlobal(s) \/ LoadProject(s)
                    \/ SetFromTerminal(s) \/ SetFromWeb(s) \/ SetFromChat(s)
                    \/ Save(s)
             PROVE  SettingsTypeOK'
  BY <1>1 DEF SettingsNext
<1>0. savers \in [Savers -> Saver] /\ savers[s].config \in Config
  BY DEF Saver
<1>2. CASE LoadGlobal(s)
  BY <1>2, ReadsConfigs DEF LoadGlobal
<1>3. CASE LoadProject(s)
  BY <1>3, ReadsConfigs DEF LoadProject
<1>4. CASE SetFromTerminal(s)
  <2>1. PICK p \in Projects, c \in Config :
          savers' = [savers EXCEPT ![s] = [savers[s] EXCEPT !.at = "save", !.of = p, !.saves = 1,
                                                            !.config = c]]
    BY <1>0, <1>4, TerminalSets
  <2>2. /\ UNCHANGED <<global, globalTorn, own, ownTorn, late>>
        /\ savers[s].kind \in SaverKinds
    BY <1>4 DEF SetFromTerminal
  <2>3. [savers[s] EXCEPT !.at = "save", !.of = p, !.saves = 1, !.config = c] \in Saver
    <3>1. savers[s] \in Saver /\ 1 \in 0 .. 2
      BY <1>0
    <3> QED
      BY <3>1 DEF Saver
  <2> QED
    BY <1>0, <2>1, <2>2, <2>3 DEF Saver
<1>5. CASE SetFromWeb(s)
  <2>1. PICK p \in {s, savers[s].config.provider}, c \in {s, None}, k \in {s, None} :
               Changed(s, [provider |-> p, command |-> c,
                           key |-> IF k = None THEN savers[s].config.key ELSE k],
                       IF k = None THEN 1 ELSE 2)
    BY <1>5 DEF SetFromWeb
  <2>2. [provider |-> p, command |-> c, key |-> IF k = None THEN savers[s].config.key ELSE k]
           \in Config
    BY <1>0 DEF Config, Providers, Keys
  <2> QED
    BY <1>5, <2>1, <2>2 DEF SetFromWeb, Changed
<1>6. CASE SetFromChat(s)
  <2>1. PICK p \in {s, savers[s].config.provider}, c \in {s, savers[s].config.command} :
               Changed(s, [savers[s].config EXCEPT !.provider = p, !.command = c], 1)
    BY <1>6 DEF SetFromChat
  <2>2. [savers[s].config EXCEPT !.provider = p, !.command = c] \in Config
    BY <1>0 DEF Config, Providers, Keys
  <2> QED
    BY <1>6, <2>1, <2>2 DEF SetFromChat, Changed
<1>7. CASE SaveFails(s)
  <2>1. savers[s].saves - 1 \in 0 .. 2 /\ (savers[s].saves > 1 => savers[s].saves - 1 > 0)
    BY <1>7 DEF SaveFails
  <2> QED
    BY <1>7, <2>1 DEF SaveFails
<1>8. CASE SaveGlobal(s)
  BY <1>8 DEF SaveGlobal, To, Others
<1>9. CASE FillGlobal(s)
  BY <1>9 DEF FillGlobal, To, Others
<1>10. CASE SaveProject(s)
  BY <1>10 DEF SaveProject, To, Others
<1>11. CASE FillProject(s)
  <2>1. [provider |-> savers[s].config.provider, command |-> savers[s].config.command] \in OwnFile
    BY DEF OwnFile, Config
  <2> QED
    BY <1>11, <2>1 DEF FillProject, Others
<1> QED
  BY <1>2, <1>3, <1>4, <1>5, <1>6, <1>7, <1>8, <1>9, <1>10, <1>11 DEF Save

LEMMA SettingsInitTypes == SettingsInit => SettingsTypeOK /\ CopiesCurrent
<1> SUFFICES ASSUME SettingsInit PROVE SettingsTypeOK /\ CopiesCurrent
  OBVIOUS
<1>1. Defaults \in Config
  BY DEF Defaults, Config, Providers, Keys
<1>2. savers \in [Savers -> Saver] /\ \A s \in Savers : savers[s].at = "idle"
  BY <1>1 DEF SettingsInit, Saver
<1> QED
  BY <1>2 DEF SettingsInit, SettingsTypeOK, CopiesCurrent, CopyCurrent, SavedSoFar, Saver

LEMMA SettingsStepCurrent ==
    ASSUME SettingsTypeOK, CopiesCurrent, [SettingsNext]_settingsVars PROVE CopiesCurrent'
<1> USE DEF SettingsTypeOK, fileVars
<1>1. CASE UNCHANGED settingsVars
  BY <1>1 DEF settingsVars, CopiesCurrent, CopyCurrent, SavedSoFar
<1> SUFFICES ASSUME NEW s \in Savers,
                    \/ LoadGlobal(s) \/ LoadProject(s)
                    \/ SetFromTerminal(s) \/ SetFromWeb(s) \/ SetFromChat(s)
                    \/ Save(s),
                    NEW o \in Savers, o \notin late'
             PROVE  CopyCurrent(o)' /\ SavedSoFar(o)'
  BY <1>1 DEF SettingsNext, CopiesCurrent
<1>2. o \notin late /\ CopyCurrent(o) /\ SavedSoFar(o)
  BY DEF CopiesCurrent, LoadGlobal, LoadProject, SetFromTerminal, SetFromWeb, SetFromChat, Save,
         SaveFails, SaveGlobal, FillGlobal, SaveProject, FillProject
\* Who is not late when another one writes a file has not begun.
<1>3. ASSUME o # s PROVE CopyCurrent(o)' /\ SavedSoFar(o)'
  <2>1. savers'[o] = savers[o]
    BY <1>3 DEF LoadGlobal, LoadProject, SetFromTerminal, SetFromWeb, SetFromChat, Changed, Save,
         SaveFails, SaveGlobal, FillGlobal, SaveProject, FillProject, To
  <2>2. savers[o].at = "idle" \/ UNCHANGED fileVars
    BY <1>3 DEF LoadGlobal, LoadProject, SetFromTerminal, SetFromWeb, SetFromChat, Save,
         SaveFails, SaveGlobal, FillGlobal, SaveProject, FillProject, Others
  <2>3. CASE savers[o].at = "idle"
    BY <2>1, <2>3 DEF CopyCurrent, SavedSoFar
  <2>4. CASE UNCHANGED fileVars
    BY <1>2, <2>1, <2>4 DEF CopyCurrent, SavedSoFar
  <2> QED
    BY <2>2, <2>3, <2>4
<1>4. CASE o = s /\ LoadGlobal(s)
  BY <1>4 DEF LoadGlobal, CopyCurrent, SavedSoFar, ReadGlobal, Defaults
<1>5. CASE o = s /\ LoadProject(s)
  <2>1. Overlay(savers[s].config, savers[s].of).key = savers[s].config.key
    BY DEF Overlay, Config
  <2> QED
    BY <1>2, <1>5, <2>1 DEF LoadProject, CopyCurrent, SavedSoFar
<1>6. ASSUME o = s, SetFromTerminal(s) PROVE CopyCurrent(o)' /\ SavedSoFar(o)'
  <2>1. savers \in [Savers -> Saver]
    BY DEF Saver
  <2>2. PICK p \in Projects, c \in Config :
          /\ savers' = [savers EXCEPT ![s] = [savers[s] EXCEPT !.at = "save", !.of = p,
                                                               !.saves = 1, !.config = c]]
          /\ c.key \in {savers[s].config.key, s, ""}
    BY <1>6, <2>1, TerminalSets
  <2>3. UNCHANGED fileVars /\ savers[s].at \in {"edit", "saved"} /\ savers[s].kind = "terminal"
    BY <1>6 DEF SetFromTerminal
  <2>4. /\ savers'[s].at = "save" /\ savers'[s].kind = savers[s].kind
        /\ savers'[s].config.key \in {savers[s].config.key, s, ""}
    BY <2>1, <2>2 DEF Saver
  <2> QED
    BY <1>2, <1>6, <2>3, <2>4 DEF CopyCurrent, SavedSoFar
<1>7. ASSUME o = s, SetFromWeb(s) \/ SetFromChat(s) PROVE CopyCurrent(o)' /\ SavedSoFar(o)'
  <2>1. UNCHANGED fileVars /\ savers[s].at = "edit" /\ savers'[s].at = "save"
    BY <1>7 DEF SetFromWeb, SetFromChat, Changed
  <2>2. /\ savers'[s].kind = savers[s].kind
        /\ savers'[s].config.key \in {savers[s].config.key, s}
    BY <1>7 DEF SetFromWeb, SetFromChat, Changed, Config
  <2> QED
    BY <1>2, <1>7, <2>1, <2>2 DEF CopyCurrent, SavedSoFar
<1>9. CASE o = s /\ SaveFails(s)
  BY <1>9 DEF SaveFails
<1>10. CASE o = s /\ SaveGlobal(s)
  BY <1>2, <1>10 DEF SaveGlobal, To, CopyCurrent, SavedSoFar
<1>11. CASE o = s /\ FillGlobal(s)
  <2>1. savers[s].config # None
    BY FileAssumption
  <2> QED
    BY <1>2, <1>11, <2>1 DEF FillGlobal, To, CopyCurrent, SavedSoFar
<1>12. CASE o = s /\ SaveProject(s)
  BY <1>2, <1>12 DEF SaveProject, To, CopyCurrent, SavedSoFar
<1>13. CASE o = s /\ FillProject(s)
  BY <1>2, <1>13 DEF FillProject, CopyCurrent, SavedSoFar
<1> QED
  BY <1>3, <1>4, <1>5, <1>6, <1>7, <1>9, <1>10, <1>11, <1>12, <1>13 DEF Save

LEMMA SettingsAlways == SettingsSpec => [](SettingsTypeOK /\ CopiesCurrent)
BY SettingsInitTypes, SettingsStepTypes, SettingsStepCurrent, PTL DEF SettingsSpec

LEMMA CurrentIsLoaded == SettingsTypeOK /\ CopiesCurrent => SavedIsLoaded
<1> SUFFICES ASSUME SettingsTypeOK, CopiesCurrent, NEW s \in Savers \ late, savers[s].at = "saved"
             PROVE  Loaded(savers[s].of) = savers[s].config
  BY DEF SavedIsLoaded
<1>1. CopyCurrent(s) /\ SavedSoFar(s)
  BY DEF CopiesCurrent
<1>2. savers[s].config \in Config /\ savers[s].of \in Projects
  BY DEF SettingsTypeOK
<1>3. ReadGlobal = savers[s].config
  BY <1>1, <1>2, FileAssumption DEF CopyCurrent, SavedSoFar, ReadGlobal
<1>4. own[savers[s].of] \in OwnFile /\ own[savers[s].of] # None
  BY <1>1, <1>2, FileAssumption DEF SavedSoFar, OwnFile, Config
<1> DEFINE c == savers[s].config
           p == savers[s].of
<1>5. own[p].provider = c.provider /\ own[p].command = c.command /\ ~ownTorn[p]
  BY <1>1 DEF SavedSoFar
<1>6. Loaded(p) = [c EXCEPT !.provider = c.provider, !.command = c.command]
  BY <1>2, <1>3, <1>4, <1>5 DEF Loaded, Overlay, Config
<1> QED
  BY <1>2, <1>5, <1>6 DEF Config

LEMMA StepKeepsKeys ==
    ASSUME SettingsTypeOK, CopiesCurrent, [SettingsNext]_settingsVars,
           NEW k \in Savers, global # None, global.key = k, global'.key # k
    PROVE  \E s \in Savers :
              /\ savers[s].at = "fill" /\ savers'[s].at # "fill"
              /\ \/ global'.key = s
                 \/ global'.key = "" /\ savers[s].kind = "terminal"
                 \/ s \in late
<1>1. PICK s \in Savers : FillGlobal(s)
  BY DEF SettingsNext, settingsVars, fileVars, LoadGlobal, LoadProject, SetFromTerminal,
         SetFromWeb, SetFromChat, Save, SaveFails, SaveGlobal, SaveProject, FillProject
<1>2. /\ savers[s].at = "fill" /\ savers'[s].at # "fill"
      /\ global' = savers[s].config
  BY <1>1 DEF FillGlobal, To, SettingsTypeOK
<1>3. s \notin late => CopyCurrent(s)
  BY DEF CopiesCurrent
<1> QED
  BY <1>2, <1>3 DEF CopyCurrent

LEMMA StepShieldsProjects ==
    ASSUME SettingsTypeOK, [SettingsNext]_settingsVars, NEW p \in Projects,
           own[p] # None, ~ownTorn[p], ~ownTorn'[p],
           Loaded(p)'.provider # Loaded(p).provider
    PROVE  \E s \in Savers : savers[s].of = p /\ savers'[s] # savers[s]
<1>1. Loaded(p).provider = own[p].provider
  BY ReadsConfigs DEF Loaded, Overlay, Config
<1>2. ASSUME own'[p] = own[p] PROVE FALSE
  <2>0. Defaults \in Config
    BY DEF Defaults, Config, Providers, Keys
  <2>1. ReadGlobal' \in Config
    BY SettingsStepTypes, <2>0 DEF ReadGlobal, SettingsTypeOK
  <2> QED
    BY <1>1, <1>2, <2>1 DEF Loaded, Overlay, Config
<1>3. PICK s \in Savers : FillProject(s)
  BY <1>2 DEF SettingsNext, settingsVars, fileVars, LoadGlobal, LoadProject, SetFromTerminal,
         SetFromWeb, SetFromChat, Save, SaveFails, SaveGlobal, SaveProject, FillGlobal
<1>4. savers[s].of = p
  BY <1>2, <1>3 DEF FillProject, SettingsTypeOK
<1>5. savers[s].at = "refill" /\ savers'[s].at # "refill"
  BY <1>3 DEF FillProject, SettingsTypeOK
<1> QED
  BY <1>4, <1>5

\* No setting is lost to a change of another one, by any number of programs
\* over any number of projects, unless two of them met.
THEOREM SettingsAreKept == SettingsSpec => SettingsKept
<1>1. SettingsTypeOK /\ CopiesCurrent /\ [SettingsNext]_settingsVars =>
        [\A k \in Savers :
            (global # None /\ global.key = k) /\ global'.key # k =>
               \E s \in Savers :
                  /\ savers[s].at = "fill" /\ savers'[s].at # "fill"
                  /\ \/ global'.key = s
                     \/ global'.key = "" /\ savers[s].kind = "terminal"
                     \/ s \in late]_settingsVars
  BY StepKeepsKeys
<1>2. SettingsTypeOK /\ [SettingsNext]_settingsVars =>
        [\A p \in Projects :
            own[p] # None /\ ~ownTorn[p] /\ ~ownTorn'[p]
               /\ Loaded(p)'.provider # Loaded(p).provider =>
                  \E s \in Savers : savers[s].of = p /\ savers'[s] # savers[s]]_settingsVars
  BY StepShieldsProjects
<1>3. SettingsTypeOK /\ CopiesCurrent => SettingsTypeOK /\ SavedIsLoaded
  BY CurrentIsLoaded
<1>4. SettingsSpec => KeysSurvive
  BY <1>1, SettingsAlways, PTL DEF SettingsSpec, KeysSurvive
<1>5. SettingsSpec => ProjectsShielded
  BY <1>2, SettingsAlways, PTL DEF SettingsSpec, ProjectsShielded
<1> QED
  BY <1>3, <1>4, <1>5, SettingsAlways, PTL DEF SettingsKept

(***************************************************************************)
(* Terminal.  A step is one call of Update.                                *)
(***************************************************************************)
\* The onboarding has four stages; the statistics, from which t goes back
\* without a look at the cursor, have one row; the wizard keeps the text of
\* the directive in the box, to which "back" may return; nobody types while a
\* command is at work.
Tidy ==
    /\ view = "onboarding" => stage \in 0 .. 3
    /\ view = "tokens" => cursor = 0
    /\ view = "wizard" /\ stage >= 2 => box \in {"directive", None}
    /\ loading => editing = None

\* The row that a key would act on is there.
OnRow ==
    (view \in {"menu", "projects", "translate", "checkpoints", "settings", "onboarding"}
        \/ (view = "wizard" /\ stage < 4)) => cursor <= MaxCursor

\* The string that a key would judge is there.
OnString == list.n > 0 => index < list.n

OnScreen == OneTask /\ ShownIsCurrent /\ TextsStayApart /\ OnString

LEMMA InvParts == TerminalInv <=> TerminalTypeOK /\ OnScreen /\ OnRow
BY DEF TerminalInv, OnScreen, CursorInRange, OnRow, OnString

LEMMA RowsThere == TerminalTypeOK /\ Tidy => MaxCursor \in Nat
<1>1. Cardinality(Projects) \in Nat /\ Cardinality(Projects) # 0
  BY TerminalAssumption, LocalAssumption, FS_CardinalityType, FS_EmptySet
<1> QED
  BY <1>1, TerminalAssumption DEF TerminalTypeOK, Tidy, MaxCursor, Shelves

LEMMA RowsThereNext == TerminalTypeOK' /\ Tidy' => MaxCursor' \in Nat
<1>1. Cardinality(Projects) \in Nat /\ Cardinality(Projects) # 0
  BY TerminalAssumption, LocalAssumption, FS_CardinalityType, FS_EmptySet
<1> QED
  BY <1>1, TerminalAssumption DEF TerminalTypeOK, Tidy, MaxCursor, Shelves

\* A step to a first row finds one; so does a step that stays where it is.
LEMMA TopRow == ASSUME TerminalTypeOK', Tidy', cursor' = 0 PROVE OnRow'
BY RowsThereNext DEF OnRow

LEMMA SameRow ==
    ASSUME OnRow, UNCHANGED <<view, cursor, stage, shelf>> PROVE OnRow'
BY DEF OnRow, MaxCursor

\* The views that the menu leads to.
LEMMA MenuViews ==
    /\ \A n \in 0 .. 9 : Menu[n + 1] \in Views \ {"menu", "summary"}
    /\ \A n \in 0 .. 9 : Menu[n + 1] = "checkpoints" <=> n = 7
    /\ \A n \in 0 .. 9 : Menu[n + 1] = "onboarding" <=> n = 0
    /\ \A n \in 0 .. 9 : Menu[n + 1] = "wizard" <=> n = 1
    /\ \A n \in 0 .. 9 : Menu[n + 1] = "tokens" <=> n = 9
    /\ \A n \in 0 .. 9 : Menu[n + 1] = "settings" <=> n = 8
    /\ \A n \in 0 .. 9 : Menu[n + 1] = "review" <=> n = 3
    /\ {"menu", "projects", "tokens", "translate", "review", "summary", "audit", "benchmark"}
          \subseteq Views
BY DEF Menu, Views

LEMMA TerminalInitInv == TerminalInit => TerminalInv /\ Tidy
<1> SUFFICES ASSUME TerminalInit PROVE TerminalInv /\ Tidy
  OBVIOUS
<1>0. NoList \in Lists /\ [of |-> None, n |-> 0] \in Shelves
  BY TerminalAssumption DEF NoList, Lists, Shelves
<1>1. TerminalTypeOK
  <2>1. loading \in BOOLEAN /\ tasks \subseteq [kind : Kinds, of : Projects]
    BY DEF TerminalInit
  <2>2. /\ editing \in {None, "model", "key"} /\ box \in Purposes \cup {None}
        /\ directive \in Purposes \cup {None}
    BY DEF TerminalInit
  <2>3. view \in Views /\ cursor \in Nat /\ stage \in 0 .. 4 /\ index \in Nat
    BY MenuViews DEF TerminalInit
  <2> QED
    BY <1>0, <2>1, <2>2, <2>3 DEF TerminalInit, TerminalTypeOK
<1>2. Tidy /\ MaxCursor = 9
  BY DEF TerminalInit, Tidy, MaxCursor
<1> QED
  BY <1>1, <1>2 DEF TerminalInit, TerminalInv, OneTask, ShownIsCurrent, CursorInRange,
     TextsStayApart, NoList, AtDirective

\* The commands at work: none while keys are taken, and about the open project.
AtWork ==
    /\ loading \in BOOLEAN /\ tasks \subseteq [kind : Kinds, of : Projects]
    /\ OneTask /\ \A t \in tasks : t.of = open

\* A key that is taken finds no command at work, and starts one at most.
LEMMA StartsOne ==
    ASSUME TerminalTypeOK, OnScreen, open' = open,
           UNCHANGED taskVars \/ (~loading /\ \E kind \in Kinds : Launch(kind))
    PROVE  AtWork'
<1>1. CASE UNCHANGED taskVars
  BY <1>1 DEF taskVars, AtWork, OneTask, OnScreen, ShownIsCurrent, TerminalTypeOK
<1>2. ASSUME ~loading, NEW kind \in Kinds, Launch(kind) PROVE AtWork'
  <2>1. tasks = {} /\ open \in Projects
    BY <1>2 DEF OnScreen, OneTask, TerminalTypeOK
  <2>2. loading' /\ tasks' = {[kind |-> kind, of |-> open]}
    BY <1>2, <2>1 DEF Launch
  <2> QED
    BY <2>1, <2>2 DEF AtWork, OneTask
<1> QED
  BY <1>1, <1>2

LEMMA KeyKeeps ==
    ASSUME TerminalTypeOK, Tidy, OnScreen, OnRow, PressKey
    PROVE  TerminalTypeOK' /\ Tidy' /\ OnScreen' /\ OnRow'
<1> USE MenuViews, TerminalAssumption DEF Takes, Show, shownVars, textVars, NoList, AtDirective, InBox
<1>1. CASE PressQ
  <2>1. TerminalTypeOK' /\ Tidy'
    BY <1>1 DEF PressQ, TerminalTypeOK, Tidy, Lists, taskVars
  <2>2. OnScreen'
    BY <1>1 DEF PressQ, TerminalTypeOK, OnScreen, OneTask, ShownIsCurrent, TextsStayApart, OnString, Lists, taskVars
  <2>3. OnRow'
    BY <1>1, <2>1, TopRow, SameRow, RowsThere DEF PressQ, TerminalTypeOK
  <2> QED
    BY <2>1, <2>2, <2>3
<1>2. CASE PressEsc
  <2>1. TerminalTypeOK' /\ Tidy'
    BY <1>2 DEF PressEsc, TerminalTypeOK, Tidy, Lists, taskVars
  <2>2. OnScreen'
    BY <1>2 DEF PressEsc, TerminalTypeOK, OnScreen, OneTask, ShownIsCurrent, TextsStayApart, OnString, Lists, taskVars
  <2>3. OnRow'
    BY <1>2, <2>1, TopRow, SameRow, RowsThere DEF PressEsc, TerminalTypeOK
  <2> QED
    BY <2>1, <2>2, <2>3
<1>3. CASE PressP
  <2>1. TerminalTypeOK' /\ Tidy'
    BY <1>3 DEF PressP, TerminalTypeOK, Tidy, Lists, taskVars
  <2>2. OnScreen'
    BY <1>3 DEF PressP, TerminalTypeOK, OnScreen, OneTask, ShownIsCurrent, TextsStayApart, OnString, Lists, taskVars
  <2>3. OnRow'
    BY <1>3, <2>1, TopRow, SameRow, RowsThere DEF PressP, TerminalTypeOK
  <2> QED
    BY <2>1, <2>2, <2>3
<1>4. CASE PressC
  <2>1. TerminalTypeOK' /\ Tidy'
    BY <1>4 DEF PressC, TerminalTypeOK, Tidy, Lists, taskVars
  <2>2. OnScreen'
    BY <1>4 DEF PressC, TerminalTypeOK, OnScreen, OneTask, ShownIsCurrent, TextsStayApart, OnString, Lists, taskVars
  <2>3. OnRow'
    BY <1>4, <2>1, TopRow, SameRow, RowsThere DEF PressC, TerminalTypeOK
  <2> QED
    BY <2>1, <2>2, <2>3
<1>5. CASE Back
  <2>1. TerminalTypeOK' /\ Tidy'
    BY <1>5 DEF Back, TerminalTypeOK, Tidy, Lists, taskVars
  <2>2. OnScreen'
    BY <1>5 DEF Back, TerminalTypeOK, Tidy, OnScreen, OneTask, ShownIsCurrent, TextsStayApart, OnString, Lists, taskVars
  <2>3. OnRow'
    BY <1>5, <2>1, TopRow, SameRow, RowsThere DEF Back, TerminalTypeOK
  <2> QED
    BY <2>1, <2>2, <2>3
<1>6. CASE Move
  <2>1. CASE view = "review"
    <3>1. PICK i \in {index - 1, index + 1} : index' = i /\ i >= 0 /\ i < list.n
      BY <1>6, <2>1 DEF Move
    <3>2. /\ UNCHANGED <<open, view, cursor, stage, list, shelf, report, taskVars, textVars>>
          /\ index' \in Nat /\ index' < list.n
      BY <1>6, <2>1, <3>1 DEF Move, TerminalTypeOK
    <3>3. OnRow'
      BY <3>2, SameRow
    <3> QED
      BY <3>2, <3>3 DEF TerminalTypeOK, Tidy, OnScreen, OneTask, ShownIsCurrent, TextsStayApart,
         OnString, taskVars
  <2>2. CASE view # "review"
    <3>1. PICK c \in {cursor - 1, cursor + 1} : cursor' = c /\ c >= 0 /\ c <= MaxCursor
      BY <1>6, <2>2 DEF Move
    <3>2. /\ UNCHANGED <<open, view, index, stage, list, shelf, report, taskVars, textVars>>
          /\ cursor' \in Nat /\ cursor' <= MaxCursor
      BY <1>6, <2>2, <3>1 DEF Move, TerminalTypeOK
    <3>3. MaxCursor' = MaxCursor /\ (view = "tokens" => MaxCursor = 0)
      BY <3>2 DEF MaxCursor
    <3> QED
      BY <3>2, <3>3 DEF TerminalTypeOK, Tidy, OnScreen, OneTask, ShownIsCurrent, TextsStayApart,
         OnString, OnRow, taskVars
  <2> QED
    BY <2>1, <2>2
<1>7. CASE Judge
  <2>1. TerminalTypeOK' /\ Tidy'
    BY <1>7 DEF Judge, TerminalTypeOK, Tidy, Lists, taskVars
  <2>2. OnScreen'
    BY <1>7 DEF Judge, TerminalTypeOK, OnScreen, OneTask, ShownIsCurrent, TextsStayApart, OnString, Lists, taskVars
  <2>3. OnRow'
    BY <1>7, <2>1, TopRow, SameRow, RowsThere DEF Judge, TerminalTypeOK
  <2> QED
    BY <2>1, <2>2, <2>3
<1>8. CASE EnterMenu
  <2>0. open' = open /\ AtWork'
    <3>1. open' = open /\ (UNCHANGED taskVars \/ (~loading /\ \E kind \in Kinds : Launch(kind)))
      BY <1>8 DEF EnterMenu, Kinds, taskVars
    <3> QED
      BY <3>1, StartsOne
  <2>5. cursor \in 0 .. 9 /\ view' = Menu[cursor + 1] /\ cursor' = 0
    BY <1>8 DEF EnterMenu, OnRow, MaxCursor, TerminalTypeOK
  <2>1. TerminalTypeOK' /\ Tidy'
    BY <1>8, <2>0, <2>5 DEF EnterMenu, TerminalTypeOK, Tidy, AtWork, Lists, Shelves, LoadCheckpoints
  <2>2. OnScreen'
    BY <1>8, <2>0, <2>5 DEF EnterMenu, TerminalTypeOK, AtWork, OnScreen, ShownIsCurrent, TextsStayApart, OnString, LoadCheckpoints
  <2>3. OnRow'
    BY <2>1, <2>5, TopRow
  <2> QED
    BY <2>1, <2>2, <2>3
<1>9. CASE SwitchTarget
  <2>1. TerminalTypeOK' /\ Tidy'
    BY <1>9 DEF SwitchTarget, TerminalTypeOK, Tidy, Lists, taskVars
  <2>2. OnScreen'
    BY <1>9 DEF SwitchTarget, TerminalTypeOK, OnScreen, OneTask, ShownIsCurrent, TextsStayApart, OnString, Lists, taskVars
  <2>3. OnRow'
    BY <1>9, <2>1, TopRow, SameRow, RowsThere DEF SwitchTarget, TerminalTypeOK
  <2> QED
    BY <2>1, <2>2, <2>3
<1>10. CASE OnboardingEnter
  <2>1. TerminalTypeOK' /\ Tidy'
    BY <1>10 DEF OnboardingEnter, TerminalTypeOK, Tidy, Lists, taskVars
  <2>2. OnScreen'
    BY <1>10 DEF OnboardingEnter, TerminalTypeOK, OnScreen, OneTask, ShownIsCurrent, TextsStayApart, OnString, Lists, taskVars
  <2>3. OnRow'
    BY <1>10, <2>1, TopRow, SameRow, RowsThere DEF OnboardingEnter, TerminalTypeOK
  <2> QED
    BY <2>1, <2>2, <2>3
<1>11. CASE EnterLanguages
  <2>1. TerminalTypeOK' /\ Tidy'
    BY <1>11 DEF EnterLanguages, TerminalTypeOK, Tidy, Lists, taskVars
  <2>2. OnScreen'
    BY <1>11 DEF EnterLanguages, TerminalTypeOK, OnScreen, OneTask, ShownIsCurrent, TextsStayApart, OnString, Lists, taskVars
  <2>3. OnRow'
    BY <1>11, <2>1, TopRow, SameRow, RowsThere DEF EnterLanguages, TerminalTypeOK
  <2> QED
    BY <2>1, <2>2, <2>3
<1>12. CASE EnterTone
  <2>1. TerminalTypeOK' /\ Tidy'
    BY <1>12 DEF EnterTone, TerminalTypeOK, Tidy, Lists, taskVars, OnScreen, TextsStayApart
  <2>2. OnScreen'
    BY <1>12 DEF EnterTone, TerminalTypeOK, OnScreen, OneTask, ShownIsCurrent, TextsStayApart, OnString, Lists, taskVars
  <2>3. OnRow'
    BY <1>12, <2>1, TopRow, SameRow, RowsThere DEF EnterTone, TerminalTypeOK
  <2> QED
    BY <2>1, <2>2, <2>3
<1>13. CASE EnterSafety
  <2>1. TerminalTypeOK' /\ Tidy'
    BY <1>13 DEF EnterSafety, TerminalTypeOK, Tidy, Lists, taskVars
  <2>2. OnScreen'
    BY <1>13 DEF EnterSafety, TerminalTypeOK, OnScreen, OneTask, ShownIsCurrent, TextsStayApart, OnString, Lists, taskVars
  <2>3. OnRow'
    BY <1>13, <2>1, TopRow, SameRow, RowsThere DEF EnterSafety, TerminalTypeOK
  <2> QED
    BY <2>1, <2>2, <2>3
<1>14. CASE EnterLaunch
  <2>0. open' = open /\ AtWork'
    <3>1. open' = open /\ (UNCHANGED taskVars \/ (~loading /\ \E kind \in Kinds : Launch(kind)))
      BY <1>14 DEF EnterLaunch, Kinds, taskVars
    <3> QED
      BY <3>1, StartsOne
  <2>1. TerminalTypeOK' /\ Tidy'
    BY <1>14, <2>0 DEF EnterLaunch, Chosen, TerminalTypeOK, Tidy, AtWork, Lists, Shelves, LoadCheckpoints
  <2>2. OnScreen'
    BY <1>14, <2>0 DEF EnterLaunch, TerminalTypeOK, AtWork, OnScreen, ShownIsCurrent, TextsStayApart, OnString, LoadCheckpoints
  <2>3. OnRow'
    BY <1>14, <2>1, TopRow, SameRow, RowsThere DEF EnterLaunch, TerminalTypeOK, OnRow
  <2> QED
    BY <2>1, <2>2, <2>3
<1>15. CASE WriteDirective
  <2>1. TerminalTypeOK' /\ Tidy'
    BY <1>15 DEF WriteDirective, TerminalTypeOK, Tidy, Lists, Purposes, taskVars
  <2>2. OnScreen'
    BY <1>15 DEF WriteDirective, TerminalTypeOK, OnScreen, OneTask, ShownIsCurrent, TextsStayApart, OnString, Lists, taskVars
  <2>3. OnRow'
    BY <1>15, <2>1, TopRow, SameRow, RowsThere DEF WriteDirective, TerminalTypeOK
  <2> QED
    BY <2>1, <2>2, <2>3
<1>16. CASE EnterDirective
  <2>1. TerminalTypeOK' /\ Tidy'
    BY <1>16 DEF EnterDirective, TerminalTypeOK, Tidy, Lists, taskVars
  <2>2. OnScreen'
    BY <1>16 DEF EnterDirective, TerminalTypeOK, OnScreen, OneTask, ShownIsCurrent, TextsStayApart, OnString, Lists, taskVars
  <2>3. OnRow'
    BY <1>16, <2>1, TopRow, SameRow, RowsThere DEF EnterDirective, TerminalTypeOK
  <2> QED
    BY <2>1, <2>2, <2>3
<1>17. CASE LeaveDirective
  <2>1. TerminalTypeOK' /\ Tidy'
    BY <1>17 DEF LeaveDirective, TerminalTypeOK, Tidy, Lists, taskVars
  <2>2. OnScreen'
    BY <1>17 DEF LeaveDirective, TerminalTypeOK, OnScreen, OneTask, ShownIsCurrent, TextsStayApart, OnString, Lists, taskVars
  <2>3. OnRow'
    BY <1>17, <2>1, TopRow, SameRow, RowsThere DEF LeaveDirective, TerminalTypeOK
  <2> QED
    BY <2>1, <2>2, <2>3
<1>18. CASE EnterAudit
  <2>1. TerminalTypeOK' /\ Tidy'
    BY <1>18 DEF EnterAudit, TerminalTypeOK, Tidy, Lists, taskVars
  <2>2. OnScreen'
    BY <1>18 DEF EnterAudit, TerminalTypeOK, OnScreen, OneTask, ShownIsCurrent, TextsStayApart, OnString, Lists, taskVars
  <2>3. OnRow'
    BY <1>18, <2>1, TopRow, SameRow, RowsThere DEF EnterAudit, TerminalTypeOK
  <2> QED
    BY <2>1, <2>2, <2>3
<1>19. CASE StartWork
  <2>0. open' = open /\ AtWork'
    <3>1. open' = open /\ (UNCHANGED taskVars \/ (~loading /\ \E kind \in Kinds : Launch(kind)))
      BY <1>19 DEF StartWork, Kinds, taskVars
    <3> QED
      BY <3>1, StartsOne
  <2>1. TerminalTypeOK' /\ Tidy'
    BY <1>19, <2>0 DEF StartWork, TerminalTypeOK, Tidy, AtWork, Lists, Shelves, LoadCheckpoints
  <2>2. OnScreen'
    BY <1>19, <2>0 DEF StartWork, TerminalTypeOK, AtWork, OnScreen, ShownIsCurrent, TextsStayApart, OnString, LoadCheckpoints
  <2>3. OnRow'
    BY <1>19, <2>1, TopRow, SameRow, RowsThere DEF StartWork, TerminalTypeOK, OnRow
  <2> QED
    BY <2>1, <2>2, <2>3
<1>20. CASE Install
  <2>0. open' = open /\ AtWork'
    <3>1. open' = open /\ (UNCHANGED taskVars \/ (~loading /\ \E kind \in Kinds : Launch(kind)))
      BY <1>20 DEF Install, Kinds, taskVars
    <3> QED
      BY <3>1, StartsOne
  <2>1. TerminalTypeOK' /\ Tidy'
    BY <1>20, <2>0 DEF Install, TerminalTypeOK, Tidy, AtWork, Lists, Shelves, LoadCheckpoints
  <2>2. OnScreen'
    BY <1>20, <2>0 DEF Install, TerminalTypeOK, AtWork, OnScreen, ShownIsCurrent, TextsStayApart, OnString, LoadCheckpoints
  <2>3. OnRow'
    BY <1>20, <2>1, TopRow, SameRow, RowsThere DEF Install, TerminalTypeOK, OnRow
  <2> QED
    BY <2>1, <2>2, <2>3
<1>21. CASE LeaveSummary
  <2>0. open' = open /\ AtWork'
    <3>1. open' = open /\ (UNCHANGED taskVars \/ (~loading /\ \E kind \in Kinds : Launch(kind)))
      BY <1>21 DEF LeaveSummary, Kinds, taskVars
    <3> QED
      BY <3>1, StartsOne
  <2>1. TerminalTypeOK' /\ Tidy'
    BY <1>21, <2>0 DEF LeaveSummary, TerminalTypeOK, Tidy, AtWork, Lists, Shelves, LoadCheckpoints
  <2>2. OnScreen'
    BY <1>21, <2>0 DEF LeaveSummary, TerminalTypeOK, AtWork, OnScreen, ShownIsCurrent, TextsStayApart, OnString, LoadCheckpoints
  <2>3. OnRow'
    BY <1>21, <2>1, TopRow, SameRow, RowsThere DEF LeaveSummary, TerminalTypeOK, OnRow
  <2> QED
    BY <2>1, <2>2, <2>3
<1>22. CASE PressT
  <2>0. open' = open /\ AtWork'
    <3>1. open' = open /\ (UNCHANGED taskVars \/ (~loading /\ \E kind \in Kinds : Launch(kind)))
      BY <1>22 DEF PressT, Kinds, taskVars
    <3> QED
      BY <3>1, StartsOne
  <2>1. TerminalTypeOK' /\ Tidy'
    BY <1>22, <2>0 DEF PressT, TerminalTypeOK, Tidy, AtWork, Lists, Shelves, LoadCheckpoints
  <2>2. OnScreen'
    BY <1>22, <2>0 DEF PressT, TerminalTypeOK, AtWork, OnScreen, ShownIsCurrent, TextsStayApart, OnString, LoadCheckpoints
  <2>3. OnRow'
    <3>1. cursor' = 0 \/ UNCHANGED <<view, cursor, stage, shelf>>
      BY <1>22 DEF PressT, Tidy
    <3> QED
      BY <2>1, <3>1, TopRow, SameRow
  <2> QED
    BY <2>1, <2>2, <2>3
<1>23. CASE EditSetting
  <2>1. TerminalTypeOK' /\ Tidy'
    BY <1>23 DEF EditSetting, TerminalTypeOK, Tidy, Lists, Purposes, taskVars
  <2>2. OnScreen'
    BY <1>23 DEF EditSetting, TerminalTypeOK, OnScreen, OneTask, ShownIsCurrent, TextsStayApart, OnString, Lists, taskVars
  <2>3. OnRow'
    BY <1>23, <2>1, TopRow, SameRow, RowsThere DEF EditSetting, TerminalTypeOK
  <2> QED
    BY <2>1, <2>2, <2>3
<1>24. CASE EnterProbe
  <2>0. open' = open /\ AtWork'
    <3>1. open' = open /\ (UNCHANGED taskVars \/ (~loading /\ \E kind \in Kinds : Launch(kind)))
      BY <1>24 DEF EnterProbe, Kinds, taskVars
    <3> QED
      BY <3>1, StartsOne
  <2>1. TerminalTypeOK' /\ Tidy'
    BY <1>24, <2>0 DEF EnterProbe, TerminalTypeOK, Tidy, AtWork, Lists, Shelves, LoadCheckpoints
  <2>2. OnScreen'
    BY <1>24, <2>0 DEF EnterProbe, TerminalTypeOK, AtWork, OnScreen, ShownIsCurrent, TextsStayApart, OnString, LoadCheckpoints
  <2>3. OnRow'
    BY <1>24, <2>1, TopRow, SameRow, RowsThere DEF EnterProbe, TerminalTypeOK, OnRow
  <2> QED
    BY <2>1, <2>2, <2>3
<1>25. CASE WriteSetting
  <2>1. TerminalTypeOK' /\ Tidy'
    BY <1>25 DEF WriteSetting, TerminalTypeOK, Tidy, Lists, Purposes, taskVars, OnScreen, TextsStayApart
  <2>2. OnScreen'
    BY <1>25 DEF WriteSetting, TerminalTypeOK, OnScreen, OneTask, ShownIsCurrent, TextsStayApart, OnString, Lists, taskVars
  <2>3. OnRow'
    BY <1>25, <2>1, TopRow, SameRow, RowsThere DEF WriteSetting, TerminalTypeOK
  <2> QED
    BY <2>1, <2>2, <2>3
<1>26. CASE LeaveBox
  <2>1. TerminalTypeOK' /\ Tidy'
    BY <1>26 DEF LeaveBox, TerminalTypeOK, Tidy, Lists, taskVars
  <2>2. OnScreen'
    BY <1>26 DEF LeaveBox, TerminalTypeOK, OnScreen, OneTask, ShownIsCurrent, TextsStayApart, OnString, Lists, taskVars
  <2>3. OnRow'
    BY <1>26, <2>1, TopRow, SameRow, RowsThere DEF LeaveBox, TerminalTypeOK
  <2> QED
    BY <2>1, <2>2, <2>3
<1>27. ASSUME NEW n \in 0 .. 9, PickNumber(n)
       PROVE  TerminalTypeOK' /\ Tidy' /\ OnScreen' /\ OnRow'
  <2>0. open' = open /\ AtWork'
    <3>1. open' = open /\ (UNCHANGED taskVars \/ (~loading /\ \E kind \in Kinds : Launch(kind)))
      BY <1>27 DEF PickNumber, Kinds, taskVars
    <3> QED
      BY <3>1, StartsOne
  <2>1. TerminalTypeOK' /\ Tidy'
    BY <1>27, <2>0 DEF PickNumber, TerminalTypeOK, Tidy, AtWork, Lists, Shelves, LoadCheckpoints
  <2>2. OnScreen'
    BY <1>27, <2>0 DEF PickNumber, TerminalTypeOK, AtWork, OnScreen, ShownIsCurrent, TextsStayApart,
       OnString, LoadCheckpoints
  <2>3. OnRow'
    <3>1. cursor' = 0 \/ UNCHANGED <<view, cursor, stage, shelf>> \/ view' = "review"
      BY <1>27 DEF PickNumber
    <3> QED
      BY <2>1, <3>1, TopRow, SameRow DEF OnRow
  <2> QED
    BY <2>1, <2>2, <2>3
<1> QED
  BY <1>1, <1>2, <1>3, <1>4, <1>5, <1>6, <1>7, <1>8, <1>9, <1>10, <1>11, <1>12, <1>13, <1>14,
     <1>15, <1>16, <1>17, <1>18, <1>19, <1>20, <1>21, <1>22, <1>23, <1>24, <1>25, <1>26, <1>27
     DEF PressKey

\* The one command that was at work has sent its message.
LEMMA TaskKeeps ==
    ASSUME TerminalTypeOK, Tidy, OnScreen, OnRow, TaskEnds
    PROVE  TerminalTypeOK' /\ Tidy' /\ OnScreen' /\ OnRow'
<1> PICK t \in tasks : TaskFails(t) \/ ScanDone(t) \/ WorkDone(t) \/ OtherDone(t)
  BY DEF TaskEnds
<1>1. /\ tasks = {t} /\ t.of = open /\ t.kind \in Kinds /\ open' = open /\ open \in Projects
      /\ AtWork' /\ ~loading'
  <2>1. tasks = {t} /\ t.of = open /\ t.kind \in Kinds /\ open \in Projects
    BY DEF OnScreen, OneTask, ShownIsCurrent, TerminalTypeOK
  <2>2. tasks' = {} /\ ~loading' /\ loading' \in BOOLEAN /\ open' = open
    BY <2>1 DEF TaskFails, ScanDone, WorkDone, OtherDone
  <2> QED
    BY <2>1, <2>2 DEF AtWork, OneTask
<1>0. editing' = editing /\ box' = box /\ directive' = directive /\ stage' = stage /\ shelf' = shelf
  BY DEF TaskFails, ScanDone, WorkDone, OtherDone, textVars, shownVars
<1>2. ASSUME TaskFails(t) \/ (OtherDone(t) /\ t.kind # "benchmark")
      PROVE  TerminalTypeOK' /\ Tidy' /\ OnScreen' /\ OnRow'
  <2>1. /\ view' = view /\ cursor' = cursor /\ list' = list /\ index' = index
        /\ report' = report
    BY <1>2 DEF TaskFails, OtherDone, shownVars
  <2>2. TerminalTypeOK' /\ Tidy'
    BY <1>0, <1>1, <2>1 DEF TerminalTypeOK, Tidy, AtWork
  <2>3. OnScreen'
    BY <1>0, <1>1, <2>1 DEF OnScreen, AtWork, ShownIsCurrent, TextsStayApart, OnString, AtDirective,
       Tidy
  <2> QED
    BY <1>0, <2>1, <2>2, <2>3, SameRow
<1>3. ASSUME ScanDone(t) \/ WorkDone(t) \/ (OtherDone(t) /\ t.kind = "benchmark")
      PROVE  TerminalTypeOK' /\ Tidy' /\ OnScreen' /\ OnRow'
  <2>1. /\ view' \in {"audit", "summary", "benchmark"} /\ cursor' \in Nat /\ index' \in Nat
        /\ list' \in Lists /\ list'.of \in {None, open} /\ report' \in Projects \cup {None}
        /\ view' = "summary" => report' = open
        /\ list'.n > 0 => index' < list'.n
    <3>1. CASE ScanDone(t)
      BY <1>1, <3>1, TerminalAssumption DEF ScanDone, TerminalTypeOK, Lists
    <3>2. CASE WorkDone(t)
      BY <1>1, <3>2 DEF WorkDone, Show, TerminalTypeOK, OnScreen, ShownIsCurrent, OnString
    <3>3. CASE OtherDone(t) /\ t.kind = "benchmark"
      BY <3>3 DEF OtherDone, shownVars, TerminalTypeOK, OnScreen, ShownIsCurrent, OnString
    <3> QED
      BY <1>3, <3>1, <3>2, <3>3
  <2>2. editing = None
    BY <1>1 DEF Tidy, OnScreen, OneTask
  <2>3. TerminalTypeOK' /\ Tidy' /\ OnRow'
    BY <1>0, <1>1, <2>1, MenuViews DEF TerminalTypeOK, Tidy, AtWork, OnRow
  <2> QED
    BY <1>0, <1>1, <2>1, <2>2, <2>3 DEF OnScreen, AtWork, ShownIsCurrent, TextsStayApart, OnString,
       AtDirective
<1> QED
  BY <1>2, <1>3

\* One command at a time, about the open project; what is shown is of the open
\* project; a key finds its row; texts typed for one purpose serve no other.
THEOREM TerminalIsSound == TerminalSpec => []TerminalInv
<1> DEFINE IInv == TerminalTypeOK /\ Tidy /\ OnScreen /\ OnRow
<1>1. TerminalInit => IInv
  BY TerminalInitInv, InvParts
<1>2. ASSUME IInv, [TerminalNext]_terminalVars PROVE IInv'
  <2>1. CASE UNCHANGED terminalVars
    <3>1. TerminalTypeOK' /\ Tidy'
      BY <1>2, <2>1 DEF terminalVars, TerminalTypeOK, Tidy
    <3>2. OnScreen'
      BY <1>2, <2>1 DEF terminalVars, OnScreen, OneTask, ShownIsCurrent, TextsStayApart, OnString,
         AtDirective
    <3> QED
      BY <1>2, <2>1, <3>1, <3>2, SameRow DEF terminalVars
  <2> QED
    BY <1>2, <2>1, KeyKeeps, TaskKeeps DEF TerminalNext
<1>3. IInv => TerminalInv
  BY InvParts
<1> QED
  BY <1>1, <1>2, <1>3, PTL DEF TerminalSpec

(***************************************************************************)
(* Studio.  A step is one of a request q; no other request moves.          *)
(***************************************************************************)
Request == [job : Jobs \cup {None}, pc : Places,
            root : Projects \cup {None}, with : Projects \cup {None},
            plan : Makers, key : CatalogKeys \cup {None}, copy : Catalog]

\* What a place in a handler says of the locals of its request.
Sane(r) ==
    /\ r.pc \notin {"idle", "done"} => r.job # None
    /\ r.pc \notin {"idle", "done", "begin", "scan", "detect", "relock", "encode"}
          => r.root # None
    /\ r.pc \in {"work", "publish"} => r.with # None
    /\ r.pc = "read" => r.key # None /\ r.job = "key"
    /\ r.pc = "begin" /\ r.job = "switch" => r.root # None
    /\ r.pc = "begin" /\ r.job = "key" => r.key # None
    /\ r.pc \in {"idle", "begin", "detect"} /\ r.root # None => r.pc = "begin" /\ r.job = "switch"
    /\ r.pc \in {"detect", "match", "work", "publish"} => r.job = "run"
    /\ r.pc \in {"truncate", "write"} => r.job \in {"key", "applyseo"}
    /\ r.with # None => r.pc \in {"work", "publish", "scan", "done"}

StudioRequests == requests \in [Users -> Request] /\ \A q \in Users : Sane(requests[q])

\* Request q becomes r.
Becomes(q, r) == r \in Request /\ Sane(r) /\ requests' = [requests EXCEPT ![q] = r]

LEMMA StepBecomes ==
    ASSUME StudioRequests, NEW q \in Users, NEW pc \in Places \ {"idle", "done", "begin", "read"},
           Step(q, pc), requests[q].job # None,
           pc \notin {"scan", "detect", "relock", "encode"} => requests[q].root # None,
           pc \in {"work", "publish"} => requests[q].with # None,
           pc \in {"detect", "match", "work", "publish"} => requests[q].job = "run",
           pc = "detect" => requests[q].root = None,
           pc \in {"truncate", "write"} => requests[q].job \in {"key", "applyseo"},
           requests[q].with # None => pc \in {"work", "publish", "scan", "done"}
    PROVE  Becomes(q, [requests[q] EXCEPT !.pc = pc])
<1>1. requests[q] \in Request /\ requests' = [requests EXCEPT ![q] = [requests[q] EXCEPT !.pc = pc]]
  BY DEF StudioRequests, Step
<1>2. [requests[q] EXCEPT !.pc = pc] \in Request
  BY <1>1 DEF Request
<1>3. Sane([requests[q] EXCEPT !.pc = pc])
  BY <1>1 DEF Sane, Request
<1> QED
  BY <1>1, <1>2, <1>3 DEF Becomes

Returned(q) == [requests[q] EXCEPT !.pc = "done", !.key = None, !.copy = Idling.copy,
                                   !.job = IF requests[q].job = "run" THEN "run" ELSE None]

LEMMA DoneBecomes ==
    ASSUME StudioRequests, NEW q \in Users, Done(q)
    PROVE  Becomes(q, Returned(q))
<1>1. requests[q] \in Request /\ requests' = [requests EXCEPT ![q] = Returned(q)]
  BY DEF StudioRequests, Done, Returned
<1>2. Idling.copy \in Catalog
  BY DEF Idling, Catalog
<1>3. Returned(q) \in Request
  BY <1>1, <1>2 DEF Request, Places, Returned
<1>4. Sane(Returned(q))
  BY <1>1 DEF Sane, Request, Returned
<1> QED
  BY <1>1, <1>3, <1>4 DEF Becomes

\* What the request of a step becomes.
NextPlace(q) ==
    \/ Becomes(q, Returned(q))
    \/ \E pc \in Places \ {"idle", "done", "begin", "read"} :
          /\ pc = "detect" => requests[q].pc = "begin"
          /\ Becomes(q, [requests[q] EXCEPT !.pc = pc])
    \/ \E j \in Jobs, p \in Projects \cup {None}, k \in CatalogKeys \cup {None} :
          /\ requests[q].pc = "idle" /\ (j = "scan" => p = None)
          /\ Becomes(q, [requests[q] EXCEPT !.job = j, !.pc = IF j = "scan" THEN "scan" ELSE "begin",
                                            !.root = p, !.key = k])
    \/ \E m \in Makers, pc \in {"read", "disk", "match", "put", "think", "truncate"}, c \in Catalog :
          /\ requests[q].pc \in {"begin", "detect"}
          /\ Becomes(q, [requests[q] EXCEPT !.root = root, !.plan = m, !.pc = pc, !.copy = c])
    \/ \E p \in Projects :
          requests[q].pc = "match" /\ Becomes(q, [requests[q] EXCEPT !.pc = "work", !.with = p])
    \/ \E c \in Catalog :
          requests[q].pc = "read" /\ Becomes(q, [requests[q] EXCEPT !.pc = "truncate", !.copy = c])

LEMMA RequestMoves ==
    ASSUME StudioTypeOK, StudioRequests, NEW q \in Users, Accept(q) \/ ServeStudio(q)
    PROVE  NextPlace(q)
<1>0. requests[q] \in Request /\ Sane(requests[q])
  BY DEF StudioRequests
<1>1. CASE Accept(q)
  <2>1. PICK j \in Jobs, p \in Projects, k \in CatalogKeys :
          requests' = [requests EXCEPT ![q].job = j,
                                 ![q].pc = IF j = "scan" THEN "scan" ELSE "begin",
                                 ![q].root = IF j = "switch" THEN p ELSE None,
                                 ![q].key = IF j = "key" THEN k ELSE None]
    BY <1>1 DEF Accept
  <2> DEFINE r == [requests[q] EXCEPT !.job = j, !.pc = IF j = "scan" THEN "scan" ELSE "begin",
                     !.root = IF j = "switch" THEN p ELSE None, !.key = IF j = "key" THEN k ELSE None]
  <2>2. r \in Request
    BY <1>0 DEF Request, Places
  <2>3. requests[q].pc = "idle" /\ requests[q].with = None
    BY <1>0, <1>1 DEF Accept, Sane
  <2>4. Sane(r)
    BY <1>0, <2>3, StudioAssumption, LocalAssumption DEF Sane, Request
  <2>5. Becomes(q, r)
    BY <2>1, <2>2, <2>4 DEF Becomes
  <2> DEFINE pp == IF j = "switch" THEN p ELSE None
             kk == IF j = "key" THEN k ELSE None
  <2>6. pp \in Projects \cup {None} /\ kk \in CatalogKeys \cup {None} /\ (j = "scan" => pp = None)
    OBVIOUS
  <2>7. Becomes(q, [requests[q] EXCEPT !.job = j, !.pc = IF j = "scan" THEN "scan" ELSE "begin",
                                       !.root = pp, !.key = kk])
    BY <2>5
  <2> HIDE DEF pp, kk, r
  <2> QED
    BY <2>3, <2>6, <2>7 DEF NextPlace
<1>2. ASSUME \/ View(q) \/ Edit(q) \/ PerformScan(q) \/ WriteCatalog(q) \/ RunFails(q) \/ Encode(q)
             \/ SaveStudioStrategy(q) \/ Put(q) \/ ApplyNothing(q) \/ WeaveFails(q) \/ OpenFails(q)
      PROVE  NextPlace(q)
  <2>1. Done(q)
    BY <1>2 DEF View, Edit, PerformScan, WriteCatalog, RunFails, Encode, SaveStudioStrategy, Put,
       ApplyNothing, WeaveFails, OpenFails
  <2> QED
    BY <2>1, DoneBecomes DEF NextPlace
<1> DEFINE Walks(pc) == /\ pc = "detect" => requests[q].pc = "begin"
                        /\ pc \in Places \ {"idle", "done", "begin", "read"}
                        /\ Becomes(q, [requests[q] EXCEPT !.pc = pc])
<1>3. ASSUME NEW pc, Walks(pc) PROVE NextPlace(q)
  BY <1>3 DEF NextPlace
<1>4. CASE SwitchRoot(q)
  <2>1. Step(q, "adopt")
    BY <1>4 DEF SwitchRoot
  <2>2. Walks("adopt")
    BY <1>0, <1>4, <2>1, StepBecomes DEF SwitchRoot, Sane, Doing, Places, AllJobs
  <2> QED
    BY <1>3, <2>2
<1>5. CASE Adopt(q)
  <2>1. Step(q, "scan")
    BY <1>5 DEF Adopt
  <2>2. Walks("scan")
    BY <1>0, <1>5, <2>1, StepBecomes DEF Adopt, Sane, Doing, Places, AllJobs
  <2> QED
    BY <1>3, <2>2
<1>6. CASE Truncate(q)
  <2>1. Step(q, "write")
    BY <1>6 DEF Truncate
  <2>2. Walks("write")
    BY <1>0, <1>6, <2>1, StepBecomes DEF Truncate, Sane, Doing, Places, AllJobs
  <2> QED
    BY <1>3, <2>2
<1>7. CASE StartRun(q)
  <2>1. Step(q, "detect")
    BY <1>7 DEF StartRun
  <2>2. Walks("detect")
    BY <1>0, <1>7, <2>1, StepBecomes DEF StartRun, Sane, Doing, Places, AllJobs
  <2> QED
    BY <1>3, <2>2
<1>8. CASE RunWorks(q)
  <2>1. Step(q, "publish")
    BY <1>8 DEF RunWorks
  <2>2. Walks("publish")
    BY <1>0, <1>8, <2>1, StepBecomes DEF RunWorks, Sane, Doing, Places, AllJobs
  <2> QED
    BY <1>3, <2>2
<1>9. CASE PublishRun(q)
  <2>1. Step(q, "scan")
    BY <1>9 DEF PublishRun
  <2>2. Walks("scan")
    BY <1>0, <1>9, <2>1, StepBecomes DEF PublishRun, Sane, Doing, Places, AllJobs
  <2> QED
    BY <1>3, <2>2
<1>10. CASE Relock(q)
  <2>1. Step(q, "relock")
    BY <1>10 DEF Relock
  <2>2. Walks("relock")
    BY <1>0, <1>10, <2>1, StepBecomes DEF Relock, Sane, Doing, Places, AllJobs
  <2> QED
    BY <1>3, <2>2
<1>11. CASE GetSEO(q)
  <2>1. Step(q, "encode")
    BY <1>11 DEF GetSEO
  <2>2. Walks("encode")
    BY <1>0, <1>11, <2>1, StepBecomes DEF GetSEO, Sane, Doing, Places, AllJobs
  <2> QED
    BY <1>3, <2>2
<1>12. CASE Fetch(q)
  <2>1. Step(q, "put")
    BY <1>12 DEF Fetch
  <2>2. Walks("put")
    BY <1>0, <1>12, <2>1, StepBecomes DEF Fetch, Sane, Doing, Places, AllJobs
  <2> QED
    BY <1>3, <2>2
<1>13. CASE Think(q) \/ Infer(q)
  <2>1. PICK pc \in {"infer", "put", "gather"} : Step(q, pc)
    BY <1>13 DEF Think, Infer, AfterThinking
  <2>2. requests[q].pc \in {"think", "infer"}
    BY <1>13 DEF Think, Infer
  <2>3. Walks(pc)
    BY <1>0, <2>1, <2>2, StepBecomes DEF Sane, Places
  <2> QED
    BY <1>3, <2>3
<1>14. CASE Gather(q)
  <2>1. requests[q].pc = "gather" /\ (Done(q) \/ \E pc \in {"put", "fetch"} : Step(q, pc))
    BY <1>14 DEF Gather
  <2>2. ASSUME NEW pc \in {"put", "fetch"}, Step(q, pc) PROVE Walks(pc)
    BY <1>0, <2>1, <2>2, StepBecomes DEF Sane, Places
  <2> QED
    BY <1>3, <2>1, <2>2, DoneBecomes DEF NextPlace
<1>15. CASE RestoreDisk(q)
  <2>1. requests[q].pc = "disk" /\ (Done(q) \/ Step(q, "scan"))
    BY <1>15 DEF RestoreDisk
  <2>2. ASSUME Step(q, "scan") PROVE Walks("scan")
    BY <1>0, <2>1, <2>2, StepBecomes DEF Sane, Places
  <2> QED
    BY <1>3, <2>1, <2>2, DoneBecomes DEF NextPlace
\* Who takes the root, with what goes with it.
<1> DEFINE Taken(m, pc, c) == [requests[q] EXCEPT !.root = root, !.plan = m, !.pc = pc, !.copy = c]
<1>16. ASSUME NEW m \in Makers, root \in Projects,
              NEW pc \in {"read", "disk", "match", "put", "think", "truncate"}, NEW c \in Catalog,
              requests[q].pc \in {"begin", "detect"},
              requests' = [requests EXCEPT ![q] = Taken(m, pc, c)],
              pc = "read" => requests[q].job = "key",
              pc = "match" => requests[q].job = "run",
              pc = "truncate" => requests[q].job = "applyseo"
       PROVE  NextPlace(q)
  <2>1. Taken(m, pc, c) \in Request
    <3>1. pc \in Places
      BY DEF Places
    <3> QED
      BY <1>0, <1>16, <3>1 DEF Request
  <2>2. Sane(Taken(m, pc, c))
    BY <1>0, <1>16, LocalAssumption DEF Request, Sane
  <2> QED
    BY <1>16, <2>1, <2>2 DEF Becomes, NextPlace
<1>17. requests[q] = [requests[q] EXCEPT !.copy = requests[q].copy, !.plan = requests[q].plan]
        /\ requests[q].copy \in Catalog /\ requests[q].plan \in Makers
  BY <1>0 DEF Request
<1>18. CASE TakeRoot(q)
  <2> DEFINE pc == IF requests[q].job = "key" THEN "read" ELSE "disk"
  <2>1. requests' = [requests EXCEPT ![q] = [requests[q] EXCEPT !.root = root, !.pc = pc]]
    BY <1>18 DEF TakeRoot
  <2>2. [requests[q] EXCEPT !.root = root, !.pc = pc] = Taken(requests[q].plan, pc, requests[q].copy)
    BY <1>0 DEF Request
  <2>3. requests' = [requests EXCEPT ![q] = Taken(requests[q].plan, pc, requests[q].copy)]
    BY <2>1, <2>2
  <2>4. root \in Projects /\ pc \in {"read", "disk"} /\ requests[q].pc = "begin"
        /\ (pc = "read" => requests[q].job = "key")
    BY <1>18 DEF TakeRoot, StudioTypeOK, Doing
  <2> HIDE DEF pc, Taken
  <2> QED
    BY <1>16, <1>17, <2>3, <2>4
<1>19. CASE RunReadsRoot(q)
  <2>1. requests' = [requests EXCEPT ![q] = [requests[q] EXCEPT !.root = root, !.pc = "match"]]
    BY <1>19 DEF RunReadsRoot
  <2>2. [requests[q] EXCEPT !.root = root, !.pc = "match"] = Taken(requests[q].plan, "match", requests[q].copy)
    BY <1>0 DEF Request
  <2>3. requests' = [requests EXCEPT ![q] = Taken(requests[q].plan, "match", requests[q].copy)]
    BY <2>1, <2>2
  <2>4. root \in Projects /\ requests[q].pc = "detect" /\ requests[q].job = "run"
    BY <1>0, <1>19 DEF RunReadsRoot, StudioTypeOK, Sane
  <2> HIDE DEF Taken
  <2> QED
    BY <1>16, <1>17, <2>3, <2>4
<1>20. CASE TakeStrategy(q)
  <2> DEFINE pc == IF requests[q].job = "analyze" THEN "put" ELSE "think"
  <2>1. requests' = [requests EXCEPT ![q] = [requests[q] EXCEPT !.root = root, !.plan = pointer, !.pc = pc]]
    BY <1>20 DEF TakeStrategy
  <2>2. [requests[q] EXCEPT !.root = root, !.plan = pointer, !.pc = pc] = Taken(pointer, pc, requests[q].copy)
    BY <1>0 DEF Request
  <2>3. requests' = [requests EXCEPT ![q] = Taken(pointer, pc, requests[q].copy)]
    BY <2>1, <2>2
  <2>4. root \in Projects /\ pointer \in Makers /\ requests[q].pc = "begin"
        /\ pc \in {"put", "think"}
    BY <1>20 DEF TakeStrategy, StudioTypeOK, Doing
  <2> HIDE DEF pc, Taken
  <2> QED
    BY <1>16, <1>17, <2>3, <2>4
<1>21. CASE ApplySEO(q)
  <2>1. PICK ks \in SUBSET CatalogKeys \ {{}} :
          requests' = [requests EXCEPT ![q].pc = "truncate", ![q].root = root,
                       ![q].copy = [k \in CatalogKeys |-> IF k \in ks THEN growth.copy
                                                    ELSE ReadCatalog(root)[k]]]
    BY <1>21 DEF ApplySEO
  <2> DEFINE c == [k \in CatalogKeys |-> IF k \in ks THEN growth.copy ELSE ReadCatalog(root)[k]]
  <2>2. c \in Catalog
    BY <1>21 DEF ApplySEO, StudioTypeOK, Grown, NoGrowth, Growth, ReadCatalog, Catalog
  <2>3. [requests[q] EXCEPT !.pc = "truncate", !.root = root, !.copy = c] = Taken(requests[q].plan, "truncate", c)
    BY <1>0 DEF Request
  <2>4. requests' = [requests EXCEPT ![q] = Taken(requests[q].plan, "truncate", c)]
    BY <2>1, <2>3
  <2>5. root \in Projects /\ requests[q].pc = "begin" /\ requests[q].job = "applyseo"
    BY <1>21 DEF ApplySEO, StudioTypeOK, Doing
  <2> HIDE DEF c, Taken
  <2> QED
    BY <1>16, <1>17, <2>2, <2>4, <2>5
<1>22. CASE RunMatches(q)
  <2> DEFINE r == [requests[q] EXCEPT !.pc = "work", !.with = platform]
  <2>1. requests' = [requests EXCEPT ![q] = r] /\ requests[q].pc = "match" /\ platform \in Projects
    BY <1>22 DEF RunMatches, StudioTypeOK
  <2>2. r \in Request /\ Sane(r)
    BY <1>0, <2>1, LocalAssumption DEF Request, Sane, Places
  <2> QED
    BY <2>1, <2>2 DEF Becomes, NextPlace
<1>23. CASE ReadKey(q)
  <2> DEFINE c == [ReadCatalog(requests[q].root) EXCEPT ![requests[q].key] = q]
             r == [requests[q] EXCEPT !.pc = "truncate", !.copy = c]
  <2>1. requests' = [requests EXCEPT ![q] = r] /\ requests[q].pc = "read"
    BY <1>23 DEF ReadKey
  <2>2. requests[q].root \in Projects /\ requests[q].key \in CatalogKeys /\ requests[q].job = "key"
    BY <1>0, <2>1 DEF Request, Sane
  <2>3. c \in Catalog
    BY <2>2 DEF ReadCatalog, Catalog, StudioTypeOK
  <2>4. r \in Request /\ Sane(r)
    BY <1>0, <2>1, <2>2, <2>3 DEF Request, Sane, Places
  <2> HIDE DEF c
  <2> QED
    BY <2>1, <2>3, <2>4 DEF Becomes, NextPlace
<1> HIDE DEF Walks, Taken
<1> QED
  BY <1>1, <1>2, <1>4, <1>5, <1>6, <1>7, <1>8, <1>9, <1>10, <1>11, <1>12, <1>13, <1>14, <1>15, <1>16, <1>17, <1>18, <1>19, <1>20, <1>21, <1>22, <1>23 DEF ServeStudio

LEMMA OthersStay ==
    ASSUME StudioRequests, NEW q \in Users, NextPlace(q)
    PROVE  StudioRequests' /\ \A o \in Users \ {q} : requests'[o] = requests[o]
<1>1. PICK r : Becomes(q, r)
  BY DEF NextPlace
<1>2. /\ requests' \in [Users -> Request] /\ requests'[q] = r /\ Sane(r)
      /\ \A o \in Users \ {q} : requests'[o] = requests[o]
  BY <1>1 DEF Becomes, StudioRequests
<1> QED
  BY <1>2 DEF StudioRequests

StudioTypes == StudioTypeOK /\ StudioRequests

LEMMA StudioInitTypes == StudioInit => StudioTypes
<1> SUFFICES ASSUME StudioInit PROVE StudioTypes
  OBVIOUS
<1>1. Idling \in Request /\ Sane(Idling)
  BY DEF Idling, Request, Sane, Places, Makers, Catalog
<1>2. StudioRequests /\ \A q \in Users : requests[q] = Idling
  BY <1>1 DEF StudioInit, StudioRequests
<1>3. catalog \in [Projects -> Catalog] /\ plans \in [Makers -> Plan] /\ pointer \in Makers
  BY DEF StudioInit, Catalog, Plan, Fresh, Makers
<1>4. /\ root \in Projects /\ platform \in Projects /\ mutex \in Users \cup {None}
      /\ found \in [of : Projects \cup {None}, some : BOOLEAN, edited : BOOLEAN]
      /\ running \in BOOLEAN /\ down \in BOOLEAN
      /\ result \in Users \cup {None} /\ growth \in Growth \cup {None}
      /\ tearing \in [Projects -> BOOLEAN]
      /\ readers \subseteq Users /\ crossed \subseteq Users /\ overlapped \subseteq Users
  BY DEF StudioInit
<1> QED
  BY <1>1, <1>2, <1>3, <1>4 DEF StudioTypes, StudioTypeOK, Request, StudioRequests, InFlight, Sane

\* The variables that all handlers share.
SharedTypes ==
    /\ root \in Projects /\ platform \in Projects /\ mutex \in Users \cup {None}
    /\ found \in [of : Projects \cup {None}, some : BOOLEAN, edited : BOOLEAN]
    /\ running \in BOOLEAN /\ down \in BOOLEAN
    /\ result \in Users \cup {None} /\ growth \in Growth \cup {None}
    /\ pointer \in Makers /\ plans \in [Makers -> Plan]
    /\ catalog \in [Projects -> Catalog] /\ tearing \in [Projects -> BOOLEAN]
    /\ readers \subseteq Users /\ crossed \subseteq Users /\ overlapped \subseteq Users

LEMMA SharedStays ==
    ASSUME StudioTypes, NEW q \in Users, Accept(q) \/ ServeStudio(q)
    PROVE  SharedTypes'
<1>0. /\ SharedTypes /\ q \in Makers /\ requests[q] \in Request /\ Sane(requests[q])
      /\ Grown \in Growth
      /\ \A p \in Projects : Fresh(p) \in Plan
  BY DEF StudioTypes, StudioTypeOK, SharedTypes, StudioRequests, Makers, Fresh, Plan, Grown,
     NoGrowth, Growth
<1> USE <1>0 DEF projectVars, scanVars, seoVars, diskVars
<1>1. CASE UNCHANGED <<projectVars, scanVars, seoVars, diskVars, crossed, down>>
  BY <1>1 DEF SharedTypes
<1>2. CASE Edit(q)
  BY <1>2 DEF Edit, SharedTypes
<1>3. CASE PerformScan(q)
  <2>1. found' \in [of : Projects \cup {None}, some : BOOLEAN, edited : BOOLEAN]
    <3>1. CASE UNCHANGED found
      BY <3>1 DEF SharedTypes
    <3>2. ASSUME NEW b \in BOOLEAN, found' = [of |-> root, some |-> b, edited |-> FALSE]
          PROVE  found' \in [of : Projects \cup {None}, some : BOOLEAN, edited : BOOLEAN]
      BY <3>2 DEF SharedTypes
    <3> QED
      BY <1>3, <3>1, <3>2 DEF PerformScan, ScannedProject
  <2> QED
    BY <1>3, <2>1 DEF PerformScan, SharedTypes
<1>4. CASE SwitchRoot(q)
  <2>1. requests[q].root \in Projects /\ requests[q].copy \in Catalog
    BY <1>4 DEF SwitchRoot, Request, Sane, Doing
  <2> QED
    BY <1>4, <2>1 DEF SwitchRoot, SharedTypes
<1>5. CASE Adopt(q)
  BY <1>5 DEF Adopt, SharedTypes
<1>6. CASE RestoreDisk(q)
  <2>1. requests[q].root \in Projects /\ requests[q].copy \in Catalog
    BY <1>6 DEF RestoreDisk, Request, Sane, Doing
  <2> QED
    BY <1>6, <2>1 DEF RestoreDisk, SharedTypes, Catalog, Overlaps
<1>7. CASE ReadKey(q)
  BY <1>7 DEF ReadKey, SharedTypes, Reads
<1>8. CASE Truncate(q)
  <2>1. requests[q].root \in Projects /\ requests[q].copy \in Catalog
    BY <1>8 DEF Truncate, Request, Sane, Doing
  <2> QED
    BY <1>8, <2>1 DEF Truncate, SharedTypes, Overlaps
<1>9. CASE WriteCatalog(q)
  <2>1. requests[q].root \in Projects /\ requests[q].copy \in Catalog
    BY <1>9 DEF WriteCatalog, Request, Sane, Doing
  <2> QED
    BY <1>9, <2>1 DEF WriteCatalog, SharedTypes, Overlaps
<1>10. CASE StartRun(q)
  BY <1>10 DEF StartRun, SharedTypes
<1>11. CASE RunFails(q)
  BY <1>11 DEF RunFails, SharedTypes
<1>12. CASE RunWorks(q)
  <2>1. requests[q].root \in Projects /\ requests[q].copy \in Catalog
    BY <1>12 DEF RunWorks, Request, Sane, Doing
  <2> QED
    BY <1>12, <2>1 DEF RunWorks, SharedTypes, Overlaps, Catalog
<1>13. CASE PublishRun(q)
  BY <1>13 DEF PublishRun, SharedTypes
<1>14. CASE Relock(q)
  BY <1>14 DEF Relock, SharedTypes, Plan
<1>15. CASE GetSEO(q)
  BY <1>15 DEF GetSEO, SharedTypes
<1>16. CASE Encode(q)
  BY <1>16 DEF Encode, SharedTypes
<1>17. CASE SaveStudioStrategy(q)
  <2>1. PICK d \in {q, None}, g \in {q, plans[pointer].goal} :
          plans' = [plans EXCEPT ![pointer].desc = d, ![pointer].goal = g]
    BY <1>17 DEF SaveStudioStrategy
  <2>2. {d, g} \subseteq Users \cup {None} /\ plans[pointer] \in Plan
    BY DEF SharedTypes, Plan
  <2>3. plans' \in [Makers -> Plan]
    BY <2>1, <2>2 DEF SharedTypes, Plan
  <2> QED
    BY <1>17, <2>3 DEF SaveStudioStrategy, SharedTypes
<1>18. CASE TakeStrategy(q)
  BY <1>18 DEF TakeStrategy, SharedTypes, Plan
<1>19. CASE Infer(q)
  <2>1. plans' \in [Makers -> Plan]
    BY <1>19 DEF Infer, SharedTypes, Plan, Request
  <2> QED
    BY <1>19, <2>1 DEF Infer, SharedTypes
<1>20. CASE Fetch(q)
  BY <1>20 DEF Fetch, SharedTypes, MapRace, Growth
<1>21. CASE Put(q)
  <2>1. plans' \in [Makers -> Plan]
    BY <1>21 DEF Put, SharedTypes, Plan, Request
  <2>2. growth' \in Growth \cup {None} /\ pointer' \in Makers /\ readers' \subseteq Users
    BY <1>21 DEF Put, SharedTypes, Growth, Request
  <2>3. down' \in BOOLEAN
    BY <1>21 DEF Put, SharedTypes, MapRace
  <2> QED
    BY <1>21, <2>1, <2>2, <2>3 DEF Put, SharedTypes
<1>22. CASE ApplySEO(q)
  BY <1>22 DEF ApplySEO, SharedTypes, Reads
<1>23. CASE View(q) \/ TakeRoot(q) \/ RunReadsRoot(q) \/ RunMatches(q) \/ Think(q) \/ Gather(q) \/ ApplyNothing(q) \/ WeaveFails(q) \/ Accept(q)
  BY <1>1, <1>23 DEF View, TakeRoot, RunReadsRoot, RunMatches, Think, Gather, ApplyNothing, WeaveFails, Accept
<1>24. CASE OpenFails(q)
  BY <1>24 DEF OpenFails, SharedTypes
<1> QED
  BY <1>2, <1>3, <1>4, <1>5, <1>6, <1>7, <1>8, <1>9, <1>10, <1>11, <1>12, <1>13, <1>14, <1>15, <1>16, <1>17, <1>18, <1>19, <1>20, <1>21, <1>22, <1>23, <1>24 DEF ServeStudio

LEMMA StudioStepTypes == StudioTypes /\ [StudioNext]_studioVars => StudioTypes'
<1>1. StudioTypes /\ UNCHANGED studioVars => StudioTypes'
  BY DEF studioVars, StudioTypes, StudioTypeOK, StudioRequests, InFlight
<1>2. ASSUME StudioTypes, NEW q \in Users, Accept(q) \/ ServeStudio(q) PROVE StudioTypes'
  <2>1. StudioRequests' /\ SharedTypes'
    BY <1>2, RequestMoves, OthersStay, SharedStays DEF StudioTypes
  <2> QED
    BY <2>1 DEF StudioTypes, StudioTypeOK, SharedTypes, StudioRequests, Request, InFlight, Sane
<1> QED
  BY <1>1, <1>2 DEF StudioNext

(***************************************************************************)
(* The inductive invariant.                                                *)
(***************************************************************************)

\* s.mu is held from the switch of the root to the adoption of the project,
\* and by ApplySEO as long as it writes.
LockHeld ==
    \A q \in Users :
       /\ requests[q].pc = "adopt" => mutex = q /\ root = requests[q].root
       /\ Writing(q) /\ requests[q].job = "applyseo" => mutex = q

\* Requests that have not seen a switch work on the open project.
OnRoot ==
    Adopted => /\ platform = root
               /\ \A q \in Users \ crossed :
                     requests[q].pc \notin {"idle", "done", "begin"} /\ requests[q].root # None
                        => requests[q].root = root

\* A request that has its project and its strategy keeps them.
Settled(q) == requests[q].pc \notin {"idle", "begin", "detect"}

\* What x left is about project p.
About(x, p) == x \in Users => Settled(x) /\ (requests[x].root = p \/ x \in crossed)

Shows == Adopted => About(result, root) /\ About(Grown.keywords, root) /\ About(Grown.copy, root)

OnDisk ==
    /\ \A p \in Projects, k \in CatalogKeys : About(catalog[p][k], p)
    /\ \A q \in Users, k \in CatalogKeys :
          Writing(q) => About(requests[q].copy[k], requests[q].root)

\* Between the two halves of a switch a run may take the platform of the old
\* project; it cannot publish before the switch is over, and then has seen it.
Matched ==
    \A q \in Users \ crossed :
       requests[q].with # None => \/ requests[q].root = requests[q].with
                                  \/ ~Adopted /\ requests[q].pc \in {"work", "publish"}

\* A strategy is that of the open project, or a request that has seen a
\* switch brought it.
Held(m) == plans[m].of = root \/ \E c \in crossed : Settled(c) /\ requests[c].plan = m
Planning == {"think", "infer", "gather", "fetch", "put"}
Strategies ==
    Adopted => /\ Held(pointer)
               /\ \A q \in Users \ crossed :
                     requests[q].pc \in Planning => Held(requests[q].plan)

\* Whoever has texts in hand has those of the catalog, his own, and copy that
\* he applies, if nobody else wrote the catalog meanwhile.
Unchanged ==
    \A q \in Users \ overlapped, k \in CatalogKeys :
       Writing(q) => \/ requests[q].copy[k] \in {catalog[requests[q].root][k], q}
                     \/ requests[q].job = "applyseo" /\ requests[q].copy[k] = Grown.copy

(***************************************************************************)
(* What a step of a request does to what all of them share.                *)
(***************************************************************************)
LEMMA RootKinds ==
    ASSUME StudioTypes, NEW q \in Users, Accept(q) \/ ServeStudio(q)
    PROVE  \/ SwitchRoot(q) \/ Adopt(q)
           \/ /\ UNCHANGED <<root, platform, crossed>>
              /\ mutex' = mutex \/ mutex \in {None, q}
              /\ requests[q].pc \notin {"adopt", "done"} /\ requests'[q].pc # "adopt"
              /\ ~Doing(q, "begin", {"switch"})
<1> DEFINE Goal == \/ SwitchRoot(q) \/ Adopt(q)
                   \/ /\ UNCHANGED <<root, platform, crossed>>
                      /\ mutex' = mutex \/ mutex \in {None, q}
                      /\ requests[q].pc \notin {"adopt", "done"} /\ requests'[q].pc # "adopt"
                      /\ ~Doing(q, "begin", {"switch"})
<1>0. requests \in [Users -> Request] /\ requests[q] \in Request
  BY DEF StudioTypes, StudioRequests
<1> USE <1>0 DEF Step, Done, Doing, Free, AfterThinking, projectVars, scanVars, seoVars, diskVars
<1>1. CASE Accept(q)
  <2>1. PICK j \in Jobs, p \in Projects, k \in CatalogKeys :
          requests' = [requests EXCEPT ![q].job = j,
                                 ![q].pc = IF j = "scan" THEN "scan" ELSE "begin",
                                 ![q].root = IF j = "switch" THEN p ELSE None,
                                 ![q].key = IF j = "key" THEN k ELSE None]
    BY <1>1 DEF Accept
  <2>2. requests'[q].pc \in {"scan", "begin"}
    BY <2>1 DEF Request
  <2> QED
    BY <1>1, <2>2 DEF Accept
<1>2. CASE View(q) \/ Edit(q) \/ PerformScan(q)
  BY <1>2 DEF Request, View, Edit, PerformScan
<1>3. CASE TakeRoot(q)
  BY <1>3 DEF Request, TakeRoot
<1>4. CASE RestoreDisk(q)
  BY <1>4 DEF Request, RestoreDisk
<1>5. CASE ReadKey(q)
  BY <1>5 DEF Request, ReadKey
<1>6. CASE Truncate(q) \/ StartRun(q) \/ RunFails(q)
  BY <1>6 DEF Request, Truncate, StartRun, RunFails
<1>7. CASE WriteCatalog(q)
  BY <1>7 DEF Request, WriteCatalog
<1>8. CASE RunReadsRoot(q)
  BY <1>8 DEF Request, RunReadsRoot
<1>9. CASE RunMatches(q)
  BY <1>9 DEF Request, RunMatches
<1>10. CASE RunWorks(q) \/ PublishRun(q)
  BY <1>10 DEF Request, RunWorks, PublishRun
<1>11. CASE Relock(q) \/ GetSEO(q) \/ Encode(q)
  BY <1>11 DEF Request, Relock, GetSEO, Encode
<1>12. CASE SaveStudioStrategy(q)
  BY <1>12 DEF Request, SaveStudioStrategy
<1>13. CASE TakeStrategy(q)
  BY <1>13 DEF Request, TakeStrategy
<1>14. CASE Think(q) \/ Infer(q) \/ Gather(q)
  BY <1>14 DEF Request, Think, Infer, Gather
<1>15. CASE Fetch(q)
  BY <1>15 DEF Request, Fetch
<1>16. CASE Put(q)
  BY <1>16 DEF Request, Put
<1>17. CASE ApplyNothing(q) \/ WeaveFails(q) \/ OpenFails(q)
  BY <1>17 DEF Request, ApplyNothing, WeaveFails, OpenFails
<1>18. CASE ApplySEO(q)
  BY <1>18 DEF Request, ApplySEO
<1>19. CASE SwitchRoot(q) \/ Adopt(q)
  BY <1>19
<1> HIDE DEF Goal
<1> QED
  BY <1>1, <1>2, <1>3, <1>4, <1>5, <1>6, <1>7, <1>8, <1>9, <1>10, <1>11, <1>12, <1>13, <1>14, <1>15, <1>16, <1>17, <1>18, <1>19 DEF ServeStudio

LEMMA ResultKinds ==
    ASSUME StudioTypes, NEW q \in Users, Accept(q) \/ ServeStudio(q)
    PROVE  /\ \/ result' \in {result, None}
              \/ result' = q /\ Free /\ requests[q].pc = "publish"
           /\ Adopt(q) => result' = None
           /\ found'.of = found.of \/ (found'.of = root /\ Free) \/ (found'.of = None /\ Adopt(q))
           /\ Adopt(q) => found'.of = None
<1> DEFINE Goal == /\ \/ result' \in {result, None}
                      \/ result' = q /\ Free /\ requests[q].pc = "publish"
                   /\ Adopt(q) => result' = None
                   /\ found'.of = found.of \/ (found'.of = root /\ Free) \/ (found'.of = None /\ Adopt(q))
                   /\ Adopt(q) => found'.of = None
<1> USE DEF projectVars, scanVars, seoVars, diskVars
<1>0. ~Adopt(q) \/ requests[q].pc = "adopt"
  BY DEF Adopt
<1>a. found \in [of : Projects \cup {None}, some : BOOLEAN, edited : BOOLEAN]
  BY DEF StudioTypes, StudioTypeOK
<1>1. CASE Accept(q) \/ View(q) \/ SwitchRoot(q) \/ TakeRoot(q) \/ RestoreDisk(q)
           \/ ReadKey(q) \/ Truncate(q) \/ WriteCatalog(q) \/ StartRun(q) \/ RunReadsRoot(q)
  BY <1>1, <1>0 DEF Doing, Accept, View, SwitchRoot, TakeRoot, RestoreDisk, ReadKey, Truncate, WriteCatalog, StartRun, RunReadsRoot
<1>2. CASE RunMatches(q) \/ RunFails(q) \/ RunWorks(q) \/ Relock(q) \/ GetSEO(q)
           \/ Encode(q) \/ SaveStudioStrategy(q) \/ TakeStrategy(q) \/ Think(q) \/ Infer(q)
  BY <1>2, <1>0 DEF Doing, RunMatches, RunFails, RunWorks, Relock, GetSEO, Encode, SaveStudioStrategy, TakeStrategy, Think, Infer
<1>3. CASE Gather(q) \/ Fetch(q) \/ Put(q) \/ ApplyNothing(q) \/ WeaveFails(q) \/ OpenFails(q) \/ ApplySEO(q)
  BY <1>3, <1>0 DEF Doing, Gather, Fetch, Put, ApplyNothing, WeaveFails, OpenFails, ApplySEO
<1>4. CASE Adopt(q)
  BY <1>4 DEF Adopt
<1>5. CASE PublishRun(q)
  BY <1>5, <1>0 DEF PublishRun
<1>6. CASE PerformScan(q)
  BY <1>6, <1>0 DEF PerformScan, ScannedProject
<1>7. CASE Edit(q)
  BY <1>7, <1>0, <1>a DEF Edit, Doing
<1> HIDE DEF Goal
<1> QED
  BY <1>1, <1>2, <1>3, <1>4, <1>5, <1>6, <1>7 DEF ServeStudio

LEMMA GrowthKinds ==
    ASSUME StudioTypes, NEW q \in Users, Accept(q) \/ ServeStudio(q)
    PROVE  /\ \/ Grown'.keywords \in {Grown.keywords, None}
              \/ Grown'.keywords = q /\ Free /\ requests[q].pc \in {"fetch", "put"}
           /\ \/ Grown'.copy = Grown.copy
              \/ Grown'.copy = None /\ (Free \/ Adopt(q))
              \/ Grown'.copy = q /\ Free /\ requests[q].pc = "put"
           /\ Adopt(q) => Grown' = NoGrowth
<1> DEFINE Goal == /\ \/ Grown'.keywords \in {Grown.keywords, None}
                      \/ Grown'.keywords = q /\ Free /\ requests[q].pc \in {"fetch", "put"}
                   /\ \/ Grown'.copy = Grown.copy
                      \/ Grown'.copy = None /\ (Free \/ Adopt(q))
                      \/ Grown'.copy = q /\ Free /\ requests[q].pc = "put"
                   /\ Adopt(q) => Grown' = NoGrowth
<1> USE DEF projectVars, scanVars, seoVars, diskVars
<1>0. ~Adopt(q) \/ requests[q].pc = "adopt"
  BY DEF Adopt
<1>a. Grown \in Growth /\ NoGrowth.copy = None /\ NoGrowth.keywords = None /\ NoGrowth \in Growth
  BY DEF StudioTypes, StudioTypeOK, Grown, NoGrowth, Growth
<1>b. growth' = growth => Grown' = Grown
  BY DEF Grown
<1>c. ASSUME NEW g \in Growth, growth' = g
      PROVE  Grown'.keywords \in {g.keywords, None} /\ Grown'.copy \in {g.copy, None}
  BY <1>a, <1>c DEF Grown, NoGrowth
<1>d. q \in Users
  OBVIOUS
<1>1. CASE Accept(q) \/ View(q) \/ Edit(q) \/ PerformScan(q) \/ SwitchRoot(q)
           \/ TakeRoot(q) \/ RestoreDisk(q) \/ ReadKey(q) \/ Truncate(q) \/ WriteCatalog(q)
  BY <1>1, <1>0, <1>b DEF Doing, Accept, View, Edit, PerformScan, SwitchRoot, TakeRoot, RestoreDisk, ReadKey, Truncate, WriteCatalog
<1>2. CASE StartRun(q) \/ RunReadsRoot(q) \/ RunMatches(q) \/ RunFails(q) \/ RunWorks(q)
           \/ PublishRun(q) \/ Relock(q) \/ Encode(q) \/ SaveStudioStrategy(q) \/ TakeStrategy(q)
  BY <1>2, <1>0, <1>b DEF Doing, StartRun, RunReadsRoot, RunMatches, RunFails, RunWorks, PublishRun, Relock, Encode, SaveStudioStrategy, TakeStrategy
<1>3. CASE Think(q) \/ Infer(q) \/ Gather(q) \/ ApplyNothing(q) \/ WeaveFails(q) \/ OpenFails(q) \/ ApplySEO(q)
  BY <1>3, <1>0, <1>b DEF Doing, Think, Infer, Gather, ApplyNothing, WeaveFails, OpenFails, ApplySEO
<1>4. CASE Adopt(q)
  BY <1>4, <1>a DEF Adopt, Grown, NoGrowth
<1>e. ASSUME Free, NEW g \in Growth, growth' = g, g.keywords \in {Grown.keywords, q},
             g.copy = Grown.copy \/ (g.copy = q /\ requests[q].pc = "put"),
             requests[q].pc \in {"begin", "fetch", "put"}, requests[q].pc = "begin" => g = Grown
      PROVE  Goal
  BY <1>0, <1>c, <1>e
<1>5. CASE GetSEO(q)
  <2>1. growth' = Grown /\ requests[q].pc = "begin" /\ Free
    BY <1>5 DEF GetSEO, Doing
  <2> QED
    BY <1>a, <1>e, <2>1
<1>6. CASE Fetch(q)
  <2> DEFINE g == [Grown EXCEPT !.keywords = q]
  <2>1. g \in Growth /\ g.keywords = q /\ g.copy = Grown.copy
    BY <1>a, <1>d DEF Growth
  <2>2. growth' = g /\ Free /\ requests[q].pc = "fetch"
    BY <1>6 DEF Fetch
  <2> HIDE DEF g
  <2> QED
    BY <1>e, <2>1, <2>2
<1>7. CASE Put(q)
  <2>1. Free /\ requests[q].pc = "put"
    BY <1>7 DEF Put
  <2>2. CASE UNCHANGED growth
    BY <1>0, <1>b, <2>1, <2>2
  <2>3. ASSUME NEW g \in Growth, growth' = g, g.keywords \in {Grown.keywords, q}, g.copy \in {Grown.copy, q}
        PROVE  Goal
    BY <1>e, <2>1, <2>3
  <2> DEFINE a == [Grown EXCEPT !.keywords = q]
             b == [Grown EXCEPT !.copy = q]
             c == [keywords |-> q, copy |-> q]
  <2>4. /\ a \in Growth /\ a.keywords = q /\ a.copy = Grown.copy
        /\ b \in Growth /\ b.copy = q /\ b.keywords = Grown.keywords
        /\ c \in Growth /\ c.keywords = q /\ c.copy = q
    BY <1>a, <1>d DEF Growth
  <2>5. UNCHANGED growth \/ growth' = a \/ growth' = b \/ growth' = c
    BY <1>7 DEF Put
  <2> HIDE DEF a, b, c
  <2> QED
    BY <2>2, <2>3, <2>4, <2>5
<1> HIDE DEF Goal
<1> QED
  BY <1>1, <1>2, <1>3, <1>4, <1>5, <1>6, <1>7 DEF ServeStudio

LEMMA SettledStays ==
    ASSUME StudioTypes, NEW q \in Users, Accept(q) \/ ServeStudio(q), NEW x \in Users, Settled(x)
    PROVE  /\ requests'[x].pc \notin {"idle", "begin", "detect"}
           /\ requests'[x].root = requests[x].root /\ requests'[x].plan = requests[x].plan
<1>1. StudioRequests /\ NextPlace(q)
  BY RequestMoves DEF StudioTypes
<1>2. CASE x # q
  BY <1>1, <1>2, OthersStay DEF Settled
<1>3. CASE x = q
  <2>1. requests[q] \in Request /\ requests[q].pc \notin {"idle", "begin", "detect"}
    BY <1>1, <1>3 DEF StudioRequests, Settled
  <2>2. ASSUME NEW r \in Request, Becomes(q, r) PROVE requests'[q] = r
    BY <1>1, <2>2 DEF Becomes, StudioRequests
  <2>3. CASE Becomes(q, Returned(q))
    BY <1>3, <2>1, <2>2, <2>3 DEF Becomes, Returned, Request
  <2>4. ASSUME NEW pc \in Places \ {"idle", "done", "begin", "read"}, pc # "detect",
               Becomes(q, [requests[q] EXCEPT !.pc = pc])
        PROVE  /\ requests'[x].pc \notin {"idle", "begin", "detect"}
               /\ requests'[x].root = requests[x].root /\ requests'[x].plan = requests[x].plan
    BY <1>3, <2>1, <2>2, <2>4 DEF Becomes, Request
  <2>5. ASSUME NEW p \in Projects, Becomes(q, [requests[q] EXCEPT !.pc = "work", !.with = p])
        PROVE  /\ requests'[x].pc \notin {"idle", "begin", "detect"}
               /\ requests'[x].root = requests[x].root /\ requests'[x].plan = requests[x].plan
    BY <1>3, <2>1, <2>2, <2>5 DEF Becomes, Request
  <2>6. ASSUME NEW c \in Catalog, Becomes(q, [requests[q] EXCEPT !.pc = "truncate", !.copy = c])
        PROVE  /\ requests'[x].pc \notin {"idle", "begin", "detect"}
               /\ requests'[x].root = requests[x].root /\ requests'[x].plan = requests[x].plan
    BY <1>3, <2>1, <2>2, <2>6 DEF Becomes, Request
  <2> QED
    BY <1>1, <2>1, <2>3, <2>4, <2>5, <2>6 DEF NextPlace
<1> QED
  BY <1>2, <1>3

LEMMA CrossedGrows ==
    ASSUME StudioTypes, NEW q \in Users, Accept(q) \/ ServeStudio(q)
    PROVE  crossed \subseteq crossed'
BY RootKinds DEF SwitchRoot, Adopt

\* What is about a project stays so.
LEMMA AboutStays ==
    ASSUME StudioTypes, NEW q \in Users, Accept(q) \/ ServeStudio(q), NEW x, NEW p, About(x, p)
    PROVE  x \in Users => /\ requests'[x].pc \notin {"idle", "begin", "detect"}
                          /\ requests'[x].root = p \/ x \in crossed'
BY SettledStays, CrossedGrows DEF About

\* Who has texts in hand after a step of q.
LEMMA WritingKinds ==
    ASSUME StudioTypes, NEW q \in Users, Accept(q) \/ ServeStudio(q)
    PROVE  requests'[q].pc \in {"truncate", "write"} => Truncate(q) \/ ReadKey(q) \/ ApplySEO(q)
<1> DEFINE Goal == requests'[q].pc \in {"truncate", "write"} => Truncate(q) \/ ReadKey(q) \/ ApplySEO(q)
<1>0. requests \in [Users -> Request] /\ requests[q] \in Request
  BY DEF StudioTypes, StudioRequests
<1> USE <1>0 DEF Step, Done, Doing, Free, AfterThinking, projectVars, scanVars, seoVars, diskVars
<1>a. Accept(q) => requests'[q].pc \in {"scan", "begin"}
  <2> SUFFICES ASSUME Accept(q) PROVE requests'[q].pc \in {"scan", "begin"}
    OBVIOUS
  <2>1. PICK j \in Jobs, p \in Projects, k \in CatalogKeys :
          requests' = [requests EXCEPT ![q].job = j,
                                 ![q].pc = IF j = "scan" THEN "scan" ELSE "begin",
                                 ![q].root = IF j = "switch" THEN p ELSE None,
                                 ![q].key = IF j = "key" THEN k ELSE None]
    BY DEF Accept
  <2> QED
    BY <2>1 DEF Request
<1>1. CASE Accept(q)
  BY <1>1, <1>a
<1>2. CASE Truncate(q) \/ ReadKey(q) \/ ApplySEO(q)
  BY <1>2
<1>3. CASE TakeRoot(q)
  BY <1>3 DEF Request, TakeRoot
<1>4. CASE RestoreDisk(q)
  BY <1>4 DEF Request, RestoreDisk
<1>5. CASE RunReadsRoot(q)
  BY <1>5 DEF Request, RunReadsRoot
<1>6. CASE RunMatches(q)
  BY <1>6 DEF Request, RunMatches
<1>7. CASE TakeStrategy(q)
  BY <1>7 DEF Request, TakeStrategy
<1>8. CASE Put(q)
  BY <1>8 DEF Request, Put
<1>9. CASE SaveStudioStrategy(q)
  BY <1>9 DEF Request, SaveStudioStrategy
<1>10. CASE WriteCatalog(q)
  BY <1>10 DEF Request, WriteCatalog
<1>11. CASE Fetch(q)
  BY <1>11 DEF Request, Fetch
<1>12. CASE View(q) \/ Edit(q) \/ PerformScan(q)
  BY <1>12 DEF Request, View, Edit, PerformScan
<1>13. CASE SwitchRoot(q) \/ Adopt(q) \/ StartRun(q)
  BY <1>13 DEF Request, SwitchRoot, Adopt, StartRun
<1>14. CASE RunFails(q) \/ RunWorks(q) \/ PublishRun(q)
  BY <1>14 DEF Request, RunFails, RunWorks, PublishRun
<1>15. CASE Relock(q) \/ GetSEO(q) \/ Encode(q)
  BY <1>15 DEF Request, Relock, GetSEO, Encode
<1>16. CASE Think(q) \/ Infer(q) \/ Gather(q)
  BY <1>16 DEF Request, Think, Infer, Gather
<1>17. CASE ApplyNothing(q) \/ WeaveFails(q) \/ OpenFails(q)
  BY <1>17 DEF Request, ApplyNothing, WeaveFails, OpenFails
<1> HIDE DEF Goal
<1> QED
  BY <1>1, <1>2, <1>3, <1>4, <1>5, <1>6, <1>7, <1>8, <1>9, <1>10, <1>11, <1>12, <1>13, <1>14, <1>15, <1>16, <1>17 DEF ServeStudio

\* Who holds a strategy after it.
LEMMA PlanningKinds ==
    ASSUME StudioTypes, NEW q \in Users, Accept(q) \/ ServeStudio(q)
    PROVE  requests'[q].pc \in Planning => TakeStrategy(q) \/ requests[q].pc \in Planning
<1> DEFINE Goal == requests'[q].pc \in Planning => TakeStrategy(q) \/ requests[q].pc \in Planning
<1>0. requests \in [Users -> Request] /\ requests[q] \in Request
  BY DEF StudioTypes, StudioRequests
<1> USE <1>0 DEF Planning, Step, Done, Doing, Free, AfterThinking, projectVars, scanVars, seoVars, diskVars
<1>a. Accept(q) => requests'[q].pc \in {"scan", "begin"}
  <2> SUFFICES ASSUME Accept(q) PROVE requests'[q].pc \in {"scan", "begin"}
    OBVIOUS
  <2>1. PICK j \in Jobs, p \in Projects, k \in CatalogKeys :
          requests' = [requests EXCEPT ![q].job = j,
                                 ![q].pc = IF j = "scan" THEN "scan" ELSE "begin",
                                 ![q].root = IF j = "switch" THEN p ELSE None,
                                 ![q].key = IF j = "key" THEN k ELSE None]
    BY DEF Accept
  <2> QED
    BY <2>1 DEF Request
<1>1. CASE Accept(q)
  BY <1>1, <1>a
<1>2. CASE TakeStrategy(q)
  BY <1>2
<1>3. CASE TakeRoot(q)
  BY <1>3 DEF Request, TakeRoot
<1>4. CASE RestoreDisk(q)
  BY <1>4 DEF Request, RestoreDisk
<1>5. CASE ReadKey(q)
  BY <1>5 DEF Request, ReadKey
<1>6. CASE RunReadsRoot(q)
  BY <1>6 DEF Request, RunReadsRoot
<1>7. CASE RunMatches(q)
  BY <1>7 DEF Request, RunMatches
<1>8. CASE ApplySEO(q)
  BY <1>8 DEF Request, ApplySEO
<1>9. CASE Put(q)
  BY <1>9 DEF Request, Put
<1>10. CASE SaveStudioStrategy(q)
  BY <1>10 DEF Request, SaveStudioStrategy
<1>11. CASE WriteCatalog(q)
  BY <1>11 DEF Request, WriteCatalog
<1>12. CASE Fetch(q)
  BY <1>12 DEF Request, Fetch
<1>13. CASE View(q) \/ Edit(q) \/ PerformScan(q)
  BY <1>13 DEF Request, View, Edit, PerformScan
<1>14. CASE SwitchRoot(q) \/ Adopt(q) \/ Truncate(q)
  BY <1>14 DEF Request, SwitchRoot, Adopt, Truncate
<1>15. CASE StartRun(q) \/ RunFails(q) \/ RunWorks(q)
  BY <1>15 DEF Request, StartRun, RunFails, RunWorks
<1>16. CASE PublishRun(q) \/ Relock(q) \/ GetSEO(q)
  BY <1>16 DEF Request, PublishRun, Relock, GetSEO
<1>17. CASE Encode(q) \/ Think(q) \/ Infer(q)
  BY <1>17 DEF Request, Encode, Think, Infer
<1>18. CASE Gather(q) \/ ApplyNothing(q) \/ WeaveFails(q) \/ OpenFails(q)
  BY <1>18 DEF Request, Gather, ApplyNothing, WeaveFails, OpenFails
<1> HIDE DEF Goal
<1> QED
  BY <1>1, <1>2, <1>3, <1>4, <1>5, <1>6, <1>7, <1>8, <1>9, <1>10, <1>11, <1>12, <1>13, <1>14, <1>15, <1>16, <1>17, <1>18 DEF ServeStudio

\* Which run has a platform after it.
LEMMA MatchedKinds ==
    ASSUME StudioTypes, NEW q \in Users, Accept(q) \/ ServeStudio(q)
    PROVE  requests'[q].with # requests[q].with => RunMatches(q)
<1> DEFINE Goal == requests'[q].with # requests[q].with => RunMatches(q)
<1>0. requests \in [Users -> Request] /\ requests[q] \in Request
  BY DEF StudioTypes, StudioRequests
<1> USE <1>0 DEF Step, Done, Doing, Free, AfterThinking, projectVars, scanVars, seoVars, diskVars
<1>a. Accept(q) => requests'[q].with = requests[q].with
  <2> SUFFICES ASSUME Accept(q) PROVE requests'[q].with = requests[q].with
    OBVIOUS
  <2>1. PICK j \in Jobs, p \in Projects, k \in CatalogKeys :
          requests' = [requests EXCEPT ![q].job = j,
                                 ![q].pc = IF j = "scan" THEN "scan" ELSE "begin",
                                 ![q].root = IF j = "switch" THEN p ELSE None,
                                 ![q].key = IF j = "key" THEN k ELSE None]
    BY DEF Accept
  <2> QED
    BY <2>1 DEF Request
<1>1. CASE Accept(q)
  BY <1>1, <1>a
<1>2. CASE RunMatches(q)
  BY <1>2
<1>3. CASE TakeRoot(q)
  BY <1>3 DEF Request, TakeRoot
<1>4. CASE RestoreDisk(q)
  BY <1>4 DEF Request, RestoreDisk
<1>5. CASE ReadKey(q)
  BY <1>5 DEF Request, ReadKey
<1>6. CASE RunReadsRoot(q)
  BY <1>6 DEF Request, RunReadsRoot
<1>7. CASE TakeStrategy(q)
  BY <1>7 DEF Request, TakeStrategy
<1>8. CASE ApplySEO(q)
  BY <1>8 DEF Request, ApplySEO
<1>9. CASE Put(q)
  BY <1>9 DEF Request, Put
<1>10. CASE SaveStudioStrategy(q)
  BY <1>10 DEF Request, SaveStudioStrategy
<1>11. CASE WriteCatalog(q)
  BY <1>11 DEF Request, WriteCatalog
<1>12. CASE Fetch(q)
  BY <1>12 DEF Request, Fetch
<1>13. CASE View(q) \/ Edit(q) \/ PerformScan(q)
  BY <1>13 DEF Request, View, Edit, PerformScan
<1>14. CASE SwitchRoot(q) \/ Adopt(q) \/ Truncate(q)
  BY <1>14 DEF Request, SwitchRoot, Adopt, Truncate
<1>15. CASE StartRun(q) \/ RunFails(q) \/ RunWorks(q)
  BY <1>15 DEF Request, StartRun, RunFails, RunWorks
<1>16. CASE PublishRun(q) \/ Relock(q) \/ GetSEO(q)
  BY <1>16 DEF Request, PublishRun, Relock, GetSEO
<1>17. CASE Encode(q) \/ Think(q) \/ Infer(q)
  BY <1>17 DEF Request, Encode, Think, Infer
<1>18. CASE Gather(q) \/ ApplyNothing(q) \/ WeaveFails(q) \/ OpenFails(q)
  BY <1>18 DEF Request, Gather, ApplyNothing, WeaveFails, OpenFails
<1> HIDE DEF Goal
<1> QED
  BY <1>1, <1>2, <1>3, <1>4, <1>5, <1>6, <1>7, <1>8, <1>9, <1>10, <1>11, <1>12, <1>13, <1>14, <1>15, <1>16, <1>17, <1>18 DEF ServeStudio

\* Who writes catalogs.
LEMMA CatalogKinds ==
    ASSUME StudioTypes, NEW q \in Users, Accept(q) \/ ServeStudio(q)
    PROVE  UNCHANGED catalog \/ RestoreDisk(q) \/ WriteCatalog(q) \/ RunWorks(q)
<1> DEFINE Goal == UNCHANGED catalog \/ RestoreDisk(q) \/ WriteCatalog(q) \/ RunWorks(q)
<1> USE DEF projectVars, scanVars, seoVars, diskVars
<1>1. CASE RestoreDisk(q) \/ WriteCatalog(q) \/ RunWorks(q)
  BY <1>1
<1>2. CASE Accept(q) \/ View(q) \/ Edit(q) \/ PerformScan(q)
           \/ SwitchRoot(q) \/ Adopt(q) \/ TakeRoot(q) \/ ReadKey(q)
  BY <1>2 DEF Accept, View, Edit, PerformScan, SwitchRoot, Adopt, TakeRoot, ReadKey
<1>3. CASE Truncate(q) \/ StartRun(q) \/ RunReadsRoot(q) \/ RunMatches(q)
           \/ RunFails(q) \/ PublishRun(q) \/ Relock(q) \/ GetSEO(q)
  BY <1>3 DEF Truncate, StartRun, RunReadsRoot, RunMatches, RunFails, PublishRun, Relock, GetSEO
<1>4. CASE Encode(q) \/ SaveStudioStrategy(q) \/ TakeStrategy(q) \/ Think(q)
           \/ Infer(q) \/ Gather(q) \/ Fetch(q) \/ Put(q)
  BY <1>4 DEF Encode, SaveStudioStrategy, TakeStrategy, Think, Infer, Gather, Fetch, Put
<1>5. CASE ApplyNothing(q) \/ WeaveFails(q) \/ OpenFails(q) \/ ApplySEO(q)
  BY <1>5 DEF ApplyNothing, WeaveFails, OpenFails, ApplySEO
<1> HIDE DEF Goal
<1> QED
  BY <1>1, <1>2, <1>3, <1>4, <1>5 DEF ServeStudio

\* Who takes notice of other writers.
LEMMA OverlapKinds ==
    ASSUME StudioTypes, NEW q \in Users, Accept(q) \/ ServeStudio(q)
    PROVE  UNCHANGED overlapped \/ RestoreDisk(q) \/ WriteCatalog(q) \/ RunWorks(q) \/ ReadKey(q) \/ ApplySEO(q) \/ Truncate(q)
<1> DEFINE Goal == UNCHANGED overlapped \/ RestoreDisk(q) \/ WriteCatalog(q) \/ RunWorks(q) \/ ReadKey(q) \/ ApplySEO(q) \/ Truncate(q)
<1> USE DEF projectVars, scanVars, seoVars, diskVars
<1>1. CASE RestoreDisk(q) \/ WriteCatalog(q) \/ RunWorks(q) \/ ReadKey(q)
           \/ ApplySEO(q) \/ Truncate(q)
  BY <1>1
<1>2. CASE Accept(q) \/ View(q) \/ Edit(q) \/ PerformScan(q)
           \/ SwitchRoot(q) \/ Adopt(q) \/ TakeRoot(q) \/ StartRun(q)
  BY <1>2 DEF Accept, View, Edit, PerformScan, SwitchRoot, Adopt, TakeRoot, StartRun
<1>3. CASE RunReadsRoot(q) \/ RunMatches(q) \/ RunFails(q) \/ PublishRun(q)
           \/ Relock(q) \/ GetSEO(q) \/ Encode(q) \/ SaveStudioStrategy(q)
  BY <1>3 DEF RunReadsRoot, RunMatches, RunFails, PublishRun, Relock, GetSEO, Encode, SaveStudioStrategy
<1>4. CASE TakeStrategy(q) \/ Think(q) \/ Infer(q) \/ Gather(q)
           \/ Fetch(q) \/ Put(q) \/ ApplyNothing(q) \/ WeaveFails(q) \/ OpenFails(q)
  BY <1>4 DEF TakeStrategy, Think, Infer, Gather, Fetch, Put, ApplyNothing, WeaveFails, OpenFails
<1> HIDE DEF Goal
<1> QED
  BY <1>1, <1>2, <1>3, <1>4 DEF ServeStudio

\* Who touches the strategies.
LEMMA PlanKinds ==
    ASSUME StudioTypes, NEW q \in Users, Accept(q) \/ ServeStudio(q)
    PROVE  UNCHANGED <<plans, pointer>> \/ Adopt(q) \/ Relock(q) \/ SaveStudioStrategy(q) \/ TakeStrategy(q) \/ Infer(q) \/ Put(q)
<1> DEFINE Goal == UNCHANGED <<plans, pointer>> \/ Adopt(q) \/ Relock(q) \/ SaveStudioStrategy(q) \/ TakeStrategy(q) \/ Infer(q) \/ Put(q)
<1> USE DEF projectVars, scanVars, seoVars, diskVars
<1>1. CASE Adopt(q) \/ Relock(q) \/ SaveStudioStrategy(q) \/ TakeStrategy(q)
           \/ Infer(q) \/ Put(q)
  BY <1>1
<1>2. CASE Accept(q) \/ View(q) \/ Edit(q) \/ PerformScan(q)
           \/ SwitchRoot(q) \/ TakeRoot(q) \/ RestoreDisk(q) \/ ReadKey(q)
  BY <1>2 DEF Accept, View, Edit, PerformScan, SwitchRoot, TakeRoot, RestoreDisk, ReadKey
<1>3. CASE Truncate(q) \/ WriteCatalog(q) \/ StartRun(q) \/ RunReadsRoot(q)
           \/ RunMatches(q) \/ RunFails(q) \/ RunWorks(q) \/ PublishRun(q)
  BY <1>3 DEF Truncate, WriteCatalog, StartRun, RunReadsRoot, RunMatches, RunFails, RunWorks, PublishRun
<1>4. CASE GetSEO(q) \/ Encode(q) \/ Think(q) \/ Gather(q)
           \/ Fetch(q) \/ ApplyNothing(q) \/ WeaveFails(q) \/ OpenFails(q) \/ ApplySEO(q)
  BY <1>4 DEF GetSEO, Encode, Think, Gather, Fetch, ApplyNothing, WeaveFails, OpenFails, ApplySEO
<1> HIDE DEF Goal
<1> QED
  BY <1>1, <1>2, <1>3, <1>4 DEF ServeStudio

\* Who says that a run is at work.
LEMMA RunningKinds ==
    ASSUME StudioTypes, NEW q \in Users, Accept(q) \/ ServeStudio(q)
    PROVE  UNCHANGED running \/ StartRun(q) \/ RunFails(q) \/ PublishRun(q)
<1> DEFINE Goal == UNCHANGED running \/ StartRun(q) \/ RunFails(q) \/ PublishRun(q)
<1> USE DEF projectVars, scanVars, seoVars, diskVars
<1>1. CASE StartRun(q) \/ RunFails(q) \/ PublishRun(q)
  BY <1>1
<1>2. CASE Accept(q) \/ View(q) \/ Edit(q) \/ PerformScan(q)
           \/ SwitchRoot(q) \/ Adopt(q) \/ TakeRoot(q) \/ RestoreDisk(q)
  BY <1>2 DEF Accept, View, Edit, PerformScan, SwitchRoot, Adopt, TakeRoot, RestoreDisk
<1>3. CASE ReadKey(q) \/ Truncate(q) \/ WriteCatalog(q) \/ RunReadsRoot(q)
           \/ RunMatches(q) \/ RunWorks(q) \/ Relock(q) \/ GetSEO(q)
  BY <1>3 DEF ReadKey, Truncate, WriteCatalog, RunReadsRoot, RunMatches, RunWorks, Relock, GetSEO
<1>4. CASE Encode(q) \/ SaveStudioStrategy(q) \/ TakeStrategy(q) \/ Think(q)
           \/ Infer(q) \/ Gather(q) \/ Fetch(q) \/ Put(q)
  BY <1>4 DEF Encode, SaveStudioStrategy, TakeStrategy, Think, Infer, Gather, Fetch, Put
<1>5. CASE ApplyNothing(q) \/ WeaveFails(q) \/ OpenFails(q) \/ ApplySEO(q)
  BY <1>5 DEF ApplyNothing, WeaveFails, OpenFails, ApplySEO
<1> HIDE DEF Goal
<1> QED
  BY <1>1, <1>2, <1>3, <1>4, <1>5 DEF ServeStudio

(***************************************************************************)
(* The lock and the phases of a switch.                                    *)
(***************************************************************************)
LEMMA LockStays ==
    ASSUME StudioTypes, LockHeld, NEW q \in Users, Accept(q) \/ ServeStudio(q)
    PROVE  LockHeld'
<1>0. /\ requests \in [Users -> Request] /\ requests[q] \in Request /\ Sane(requests[q])
      /\ StudioRequests' /\ \A o \in Users \ {q} : requests'[o] = requests[o]
  BY RequestMoves, OthersStay DEF StudioTypes, StudioRequests
<1>1. None \notin Users
  BY StudioAssumption
<1>2. ASSUME NEW o \in Users \ {q}, mutex = o PROVE mutex' = o /\ root' = root
  BY <1>1, <1>2, RootKinds DEF SwitchRoot, Free, Adopt, LockHeld
<1>3. ASSUME NEW o \in Users \ {q}
      PROVE  /\ requests'[o].pc = "adopt" => mutex' = o /\ root' = requests'[o].root
             /\ requests'[o].pc \in {"truncate", "write"} /\ requests'[o].job = "applyseo" => mutex' = o
  BY <1>0, <1>2, <1>3 DEF LockHeld, Writing
<1>4. requests'[q].pc = "adopt" => mutex' = q /\ root' = requests'[q].root
  <2>1. requests'[q].pc = "adopt" => SwitchRoot(q) \/ Adopt(q)
    BY RootKinds
  <2>2. Adopt(q) => requests'[q].pc = "scan"
    BY <1>0 DEF Adopt, Step, Request
  <2>3. SwitchRoot(q) => mutex' = q /\ root' = requests'[q].root
    BY <1>0 DEF SwitchRoot, Step, Request
  <2> QED
    BY <2>1, <2>2, <2>3
<1>5. requests'[q].pc \in {"truncate", "write"} /\ requests'[q].job = "applyseo" => mutex' = q
  <2>1. CASE Truncate(q)
    BY <1>0, <2>1 DEF Truncate, Step, LockHeld, Writing, Request, projectVars
  <2>2. CASE ReadKey(q)
    BY <1>0, <2>2 DEF ReadKey, Sane, Request
  <2>3. CASE ApplySEO(q)
    BY <2>3 DEF ApplySEO
  <2> QED
    BY <2>1, <2>2, <2>3, WritingKinds
<1>6. \A o \in Users :
         /\ requests'[o].pc = "adopt" => mutex' = o /\ root' = requests'[o].root
         /\ requests'[o].pc \in {"truncate", "write"} /\ requests'[o].job = "applyseo" => mutex' = o
  BY <1>3, <1>4, <1>5
<1> QED
  BY <1>6 DEF LockHeld, Writing

LEMMA FreeAdopted == ASSUME LockHeld, Free PROVE Adopted
BY StudioAssumption DEF LockHeld, Free, Adopted

LEMMA Phases ==
    ASSUME StudioTypes, LockHeld, NEW q \in Users, Accept(q) \/ ServeStudio(q)
    PROVE  \/ SwitchRoot(q) /\ ~Adopted' /\ Adopted
           \/ /\ Adopt(q) /\ Adopted' /\ ~Adopted
              /\ root' = root /\ root = requests[q].root /\ platform' = root
           \/ /\ UNCHANGED <<root, platform, crossed>> /\ Adopted' = Adopted
              /\ requests[q].pc \notin {"adopt", "done"} /\ ~Doing(q, "begin", {"switch"})
              /\ ~Adopt(q) /\ ~SwitchRoot(q)
<1>0. /\ requests \in [Users -> Request] /\ requests[q] \in Request
      /\ \A o \in Users \ {q} : requests'[o] = requests[o]
  BY RequestMoves, OthersStay DEF StudioTypes, StudioRequests
<1>1. CASE SwitchRoot(q)
  <2>1. requests'[q].pc = "adopt"
    BY <1>0, <1>1 DEF SwitchRoot, Step, Request
  <2> QED
    BY <1>1, <2>1, FreeAdopted DEF SwitchRoot, Adopted
<1>2. CASE Adopt(q)
  <2>1. requests'[q].pc = "scan" /\ requests[q].pc = "adopt"
    BY <1>0, <1>2 DEF Adopt, Step, Request
  <2>2. \A o \in Users \ {q} : requests[o].pc # "adopt"
    BY <2>1 DEF LockHeld
  <2> QED
    BY <1>0, <1>2, <2>1, <2>2 DEF Adopt, Adopted, LockHeld
<1>3. CASE ~Adopt(q) /\ ~SwitchRoot(q)
  <2>1. requests[q].pc # "adopt" /\ requests'[q].pc # "adopt"
    BY <1>3, RootKinds
  <2>2. Adopted' = Adopted
    BY <1>0, <2>1 DEF Adopted
  <2> QED
    BY <1>3, <2>2, RootKinds
<1> QED
  BY <1>1, <1>2, <1>3

LEMMA OnRootStays ==
    ASSUME StudioTypes, LockHeld, OnRoot, NEW q \in Users, Accept(q) \/ ServeStudio(q)
    PROVE  OnRoot'
<1>0. /\ requests \in [Users -> Request] /\ requests[q] \in Request /\ Sane(requests[q])
      /\ \A o \in Users \ {q} : requests'[o] = requests[o]
      /\ NextPlace(q) /\ StudioRequests
  BY RequestMoves, OthersStay DEF StudioTypes, StudioRequests
<1>1. CASE SwitchRoot(q)
  <2>1. ~Adopt(q)
    BY <1>1 DEF SwitchRoot, Adopt, Doing
  <2> QED
    BY <1>1, <2>1, Phases DEF OnRoot
<1>2. CASE Adopt(q)
  <2>1. /\ requests'[q].root = requests[q].root
        /\ crossed' = crossed \cup {p \in Users \ {q} : InFlight(p)}
    BY <1>0, <1>2 DEF Adopt, Step, Request
  <2>2. root' = root /\ root = requests[q].root /\ platform' = root
    BY <1>2, Phases DEF Adopt, SwitchRoot
  <2> QED
    BY <1>0, <2>1, <2>2 DEF OnRoot, InFlight
<1>3. CASE ~SwitchRoot(q) /\ ~Adopt(q)
  <2>1. /\ UNCHANGED <<root, platform, crossed>> /\ Adopted' = Adopted
        /\ requests[q].pc # "done" /\ ~Doing(q, "begin", {"switch"})
    BY <1>3, Phases
  <2>2. ASSUME NEW r \in Request, Becomes(q, r) PROVE requests'[q] = r
    BY <1>0, <2>2 DEF Becomes
  <2> DEFINE Kept == requests'[q].pc \notin {"idle", "done", "begin"} /\ requests'[q].root # None
                        => \/ requests'[q].root = root
                           \/ /\ requests[q].pc \notin {"idle", "done", "begin"}
                              /\ requests'[q].root = requests[q].root
  <2>3. ASSUME Becomes(q, Returned(q)) PROVE Kept
    BY <1>0, <2>2, <2>3 DEF Becomes, Returned, Request
  <2>4. ASSUME NEW pc \in Places, Becomes(q, [requests[q] EXCEPT !.pc = pc])
        PROVE  Kept
    <3>1. requests'[q].root = requests[q].root
      BY <1>0, <2>2, <2>4 DEF Becomes, Request
    <3>2. requests[q].pc \in {"idle", "begin"} => requests[q].root = None
      BY <1>0, <2>1 DEF Sane, Doing
    <3> QED
      BY <2>1, <3>1, <3>2
  <2>5. ASSUME NEW j \in Jobs, NEW p \in Projects \cup {None}, NEW k \in CatalogKeys \cup {None},
               j = "scan" => p = None,
               Becomes(q, [requests[q] EXCEPT !.job = j, !.pc = IF j = "scan" THEN "scan" ELSE "begin",
                                            !.root = p, !.key = k])
        PROVE  Kept
    BY <1>0, <2>2, <2>5 DEF Becomes, Request
  <2>6. ASSUME NEW m \in Makers, NEW pc \in Places, NEW c \in Catalog,
               Becomes(q, [requests[q] EXCEPT !.root = root, !.plan = m, !.pc = pc, !.copy = c])
        PROVE  Kept
    BY <1>0, <2>2, <2>6 DEF Becomes, Request
  <2>7. ASSUME NEW p \in Projects, requests[q].pc = "match",
               Becomes(q, [requests[q] EXCEPT !.pc = "work", !.with = p])
        PROVE  Kept
    BY <1>0, <2>2, <2>7 DEF Becomes, Request
  <2>8. ASSUME NEW c \in Catalog, requests[q].pc = "read",
               Becomes(q, [requests[q] EXCEPT !.pc = "truncate", !.copy = c])
        PROVE  Kept
    BY <1>0, <2>2, <2>8 DEF Becomes, Request
  <2>9. {"read", "disk", "match", "put", "think", "truncate"} \subseteq Places
    BY DEF Places
  <2> HIDE DEF Kept
  <2>10. Kept
    BY <1>0, <2>3, <2>4, <2>5, <2>6, <2>7, <2>8, <2>9 DEF NextPlace
  <2> USE DEF Kept
  <2> QED
    BY <1>0, <2>1, <2>10 DEF OnRoot
<1> QED
  BY <1>1, <1>2, <1>3

(***************************************************************************)
(* What the studio shows and writes.                                       *)
(***************************************************************************)
LEMMA Working ==
    ASSUME StudioTypes, OnRoot, Adopted, NEW q \in Users, requests[q].pc \in {"publish", "fetch", "put"}
    PROVE  About(q, root)
<1>1. Sane(requests[q])
  BY DEF StudioTypes, StudioRequests
<1> QED
  BY <1>1 DEF OnRoot, About, Settled, Sane

LEMMA ShowsStays ==
    ASSUME StudioTypes, LockHeld, OnRoot, Shows, NEW q \in Users, Accept(q) \/ ServeStudio(q)
    PROVE  Shows'
<1> DEFINE New(x) == x \in Users => /\ requests'[x].pc \notin {"idle", "begin", "detect"}
                                    /\ requests'[x].root = root \/ x \in crossed'
<1>0. None \notin Users
  BY StudioAssumption
<1>1. CASE SwitchRoot(q)
  <2>1. ~Adopt(q)
    BY <1>1 DEF SwitchRoot, Adopt, Doing
  <2> QED
    BY <1>1, <2>1, Phases DEF Shows
<1>2. CASE Adopt(q)
  <2>1. result' = None /\ Grown' = NoGrowth
    BY <1>2, ResultKinds, GrowthKinds
  <2> QED
    BY <1>0, <2>1 DEF Shows, About, NoGrowth
<1>3. CASE ~SwitchRoot(q) /\ ~Adopt(q)
  <2>1. UNCHANGED <<root, platform, crossed>> /\ Adopted' = Adopted
    BY <1>3, Phases
  <2> SUFFICES ASSUME Adopted PROVE New(result') /\ New(Grown'.keywords) /\ New(Grown'.copy)
    BY <2>1 DEF Shows, About, Settled
  <2>2. New(None)
    BY <1>0
  <2>3. New(result) /\ New(Grown.keywords) /\ New(Grown.copy)
    BY AboutStays DEF Shows
  <2>4. requests[q].pc \in {"publish", "fetch", "put"} => New(q)
    BY Working, AboutStays
  <2> HIDE DEF New
  <2>5. New(result')
    BY <2>2, <2>3, <2>4, ResultKinds
  <2>6. New(Grown'.keywords) /\ New(Grown'.copy)
    BY <2>2, <2>3, <2>4, GrowthKinds
  <2> QED
    BY <2>5, <2>6
<1> QED
  BY <1>1, <1>2, <1>3

\* The texts of the copy that a step of q gives to q.
LEMMA NewCopy ==
    ASSUME StudioTypes, NEW q \in Users, ReadKey(q) \/ ApplySEO(q), NEW k \in CatalogKeys
    PROVE  /\ UNCHANGED <<catalog, growth>>
           /\ requests'[q].root \in Projects /\ requests'[q].job = requests[q].job
           /\ \/ requests'[q].copy[k] \in {q, None, catalog[requests'[q].root][k]}
              \/ ApplySEO(q) /\ requests'[q].copy[k] = Grown.copy
           /\ \/ q \in overlapped' \/ requests'[q].copy[k] \in {q, catalog[requests'[q].root][k]}
              \/ ApplySEO(q) /\ requests'[q].copy[k] = Grown.copy
           /\ ReadKey(q) => requests'[q].root = requests[q].root
           /\ ApplySEO(q) => Free /\ requests'[q].root = root /\ requests[q].job = "applyseo"
<1>0. requests \in [Users -> Request] /\ requests[q] \in Request /\ Sane(requests[q])
  BY DEF StudioTypes, StudioRequests
<1>1. catalog \in [Projects -> Catalog] /\ root \in Projects /\ overlapped \subseteq Users
  BY DEF StudioTypes, StudioTypeOK
<1>2. ASSUME NEW p \in Projects
      PROVE  /\ ReadCatalog(p) \in [CatalogKeys -> Users \cup {None, Start}]
             /\ ReadCatalog(p)[k] \in {None, catalog[p][k]}
             /\ ~tearing[p] => ReadCatalog(p)[k] = catalog[p][k]
  BY <1>1 DEF ReadCatalog, Catalog
<1>3. CASE ReadKey(q)
  <2> DEFINE p == requests[q].root
             c == [ReadCatalog(p) EXCEPT ![requests[q].key] = q]
  <2>1. p \in Projects /\ requests[q].key \in CatalogKeys
    BY <1>0, <1>3 DEF ReadKey, Sane, Request
  <2>2. requests'[q] = [requests[q] EXCEPT !.pc = "truncate", !.copy = c]
    BY <1>0, <1>3 DEF ReadKey
  <2>3. c[k] \in {q, ReadCatalog(p)[k]}
    BY <1>2, <2>1
  <2>4. tearing[p] => q \in overlapped'
    BY <1>3 DEF ReadKey, Reads
  <2>5. requests'[q].root = p /\ requests'[q].job = requests[q].job /\ requests'[q].copy = c
    BY <1>0, <2>2 DEF Request
  <2>6. UNCHANGED <<catalog, growth>> /\ requests[q].pc = "read"
    BY <1>3 DEF ReadKey, seoVars
  <2>7. ~ApplySEO(q)
    BY <2>6 DEF ApplySEO, Doing
  <2> HIDE DEF c
  <2> QED
    BY <1>2, <1>3, <2>1, <2>3, <2>4, <2>5, <2>6, <2>7
<1>4. CASE ApplySEO(q)
  <2>1. PICK ks \in SUBSET CatalogKeys \ {{}} :
          requests' = [requests EXCEPT ![q].pc = "truncate", ![q].root = root,
                       ![q].copy = [x \in CatalogKeys |-> IF x \in ks THEN growth.copy
                                                    ELSE ReadCatalog(root)[x]]]
    BY <1>4 DEF ApplySEO
  <2> DEFINE c == [x \in CatalogKeys |-> IF x \in ks THEN growth.copy ELSE ReadCatalog(root)[x]]
  <2>2. requests'[q] = [requests[q] EXCEPT !.pc = "truncate", !.root = root, !.copy = c]
    BY <1>0, <2>1
  <2>3. growth.copy = Grown.copy /\ Free /\ requests[q].job = "applyseo" /\ UNCHANGED <<catalog, growth>>
    BY <1>4 DEF ApplySEO, Grown, NoGrowth, Doing, seoVars
  <2>4. c[k] \in {Grown.copy, ReadCatalog(root)[k]}
    BY <2>3
  <2>5. tearing[root] => q \in overlapped'
    BY <1>4 DEF ApplySEO, Reads
  <2>6. requests'[q].root = root /\ requests'[q].job = requests[q].job /\ requests'[q].copy = c
    BY <1>0, <2>2 DEF Request
  <2>7. ~ReadKey(q)
    BY <1>4 DEF ApplySEO, ReadKey, Doing
  <2> HIDE DEF c
  <2> QED
    BY <1>1, <1>2, <1>4, <2>3, <2>4, <2>5, <2>6, <2>7
<1> QED
  BY <1>3, <1>4

\* What a step of q writes to the catalogs.
LEMMA Written ==
    ASSUME StudioTypes, NEW q \in Users, RestoreDisk(q) \/ WriteCatalog(q) \/ RunWorks(q),
           NEW p \in Projects, NEW k \in CatalogKeys
    PROVE  /\ \/ catalog'[p][k] = catalog[p][k]
              \/ catalog'[p][k] \in {None, Start} /\ requests[q].job \in {"reset", "rollback"}
              \/ p = requests[q].root /\ WriteCatalog(q) /\ catalog'[p][k] = requests[q].copy[k]
              \/ p = requests[q].root /\ catalog'[p][k] = q /\ requests[q].job = "run" /\ Settled(q)
           /\ catalog'[p] # catalog[p] =>
                 \A o \in Users \ {q} : requests[o].root = p /\ Writing(o) => o \in overlapped'
           /\ overlapped \subseteq overlapped'
<1>0. requests \in [Users -> Request] /\ requests[q] \in Request /\ Sane(requests[q])
  BY DEF StudioTypes, StudioRequests
<1>1. catalog \in [Projects -> Catalog]
  BY DEF StudioTypes, StudioTypeOK
<1>2. CASE WriteCatalog(q)
  <2>1. requests[q].root \in Projects
    BY <1>0, <1>2 DEF WriteCatalog, Sane, Request
  <2> QED
    BY <1>1, <1>2, <2>1 DEF WriteCatalog, Overlaps
<1>3. CASE RunWorks(q)
  <2>1. requests[q].root \in Projects /\ Settled(q) /\ requests[q].job = "run"
    BY <1>0, <1>3 DEF RunWorks, Sane, Request, Settled
  <2>2. PICK ks \in SUBSET CatalogKeys :
          catalog' = [catalog EXCEPT ![requests[q].root] =
                         [x \in CatalogKeys |-> IF x \in ks THEN q ELSE @[x]]]
    BY <1>3 DEF RunWorks
  <2>3. catalog'[p][k] # catalog[p][k] => p = requests[q].root /\ catalog'[p][k] = q
    BY <1>1, <2>1, <2>2
  <2>4. catalog'[p] # catalog[p] => p = requests[q].root
    BY <1>1, <2>1, <2>2
  <2> QED
    BY <1>3, <2>1, <2>3, <2>4 DEF RunWorks, Overlaps
<1>4. CASE RestoreDisk(q)
  <2>1. CASE UNCHANGED <<catalog, overlapped>>
    BY <2>1
  <2>2. ASSUME requests[q].job = "rollback",
               catalog' = [catalog EXCEPT ![requests[q].root] = [x \in CatalogKeys |-> Start]],
               Overlaps(q, requests[q].root)
        PROVE  /\ catalog'[p][k] # catalog[p][k] => catalog'[p][k] \in {None, Start}
               /\ catalog'[p] # catalog[p] =>
                     \A o \in Users \ {q} : requests[o].root = p /\ Writing(o) => o \in overlapped'
               /\ overlapped \subseteq overlapped' /\ requests[q].job \in {"reset", "rollback"}
    BY <1>1, <2>2 DEF Overlaps
  <2>3. ASSUME requests[q].job = "reset", NEW ps \in SUBSET Projects,
               catalog' = [x \in Projects |-> IF x \in ps THEN [y \in CatalogKeys |-> None]
                                               ELSE catalog[x]],
               overlapped' = overlapped \cup
                                    {o \in Users : requests[o].root \in ps /\ Writing(o)}
        PROVE  /\ catalog'[p][k] # catalog[p][k] => catalog'[p][k] \in {None, Start}
               /\ catalog'[p] # catalog[p] =>
                     \A o \in Users \ {q} : requests[o].root = p /\ Writing(o) => o \in overlapped'
               /\ overlapped \subseteq overlapped' /\ requests[q].job \in {"reset", "rollback"}
    BY <1>1, <2>3
  <2> QED
    BY <1>4, <2>1, <2>2, <2>3 DEF RestoreDisk
<1> QED
  BY <1>2, <1>3, <1>4

LEMMA OverlappedGrows ==
    ASSUME StudioTypes, NEW q \in Users, Accept(q) \/ ServeStudio(q)
    PROVE  overlapped \subseteq overlapped'
<1>1. CASE RestoreDisk(q) \/ WriteCatalog(q) \/ RunWorks(q)
  <2>1. RestoreDisk(q) => overlapped \subseteq overlapped'
    BY DEF RestoreDisk, Overlaps
  <2> QED
    BY <1>1, <2>1 DEF WriteCatalog, RunWorks, Overlaps
<1> QED
  BY <1>1, OverlapKinds DEF ReadKey, ApplySEO, Truncate, Reads, Overlaps

LEMMA OnDiskStays ==
    ASSUME StudioTypes, LockHeld, Shows, OnDisk, NEW q \in Users, Accept(q) \/ ServeStudio(q)
    PROVE  OnDisk'
<1> DEFINE New(x, p) == x \in Users => /\ requests'[x].pc \notin {"idle", "begin", "detect"}
                                       /\ requests'[x].root = p \/ x \in crossed'
<1>0. /\ requests \in [Users -> Request] /\ requests[q] \in Request /\ Sane(requests[q])
      /\ \A o \in Users \ {q} : requests'[o] = requests[o]
  BY RequestMoves, OthersStay DEF StudioTypes, StudioRequests
<1>1. None \notin Users /\ Start \notin Users
  BY StudioAssumption
<1>2. ASSUME NEW x, NEW p, About(x, p) PROVE New(x, p)
  BY <1>2, AboutStays
<1>3. ASSUME NEW p \in Projects, NEW k \in CatalogKeys PROVE New(catalog'[p][k], p)
  <2>1. New(catalog[p][k], p) /\ New(None, p) /\ New(Start, p)
    BY <1>1, <1>2 DEF OnDisk
  <2>2. p = requests[q].root /\ Settled(q) => New(q, p)
    BY <1>2 DEF About
  <2>3. p = requests[q].root /\ WriteCatalog(q) => New(requests[q].copy[k], p)
    BY <1>2 DEF OnDisk, WriteCatalog, Writing
  <2> HIDE DEF New
  <2> QED
    BY <2>1, <2>2, <2>3, CatalogKinds, Written
<1>4. ASSUME NEW o \in Users, requests'[o].pc \in {"truncate", "write"}, NEW k \in CatalogKeys
      PROVE  New(requests'[o].copy[k], requests'[o].root)
  <2>1. CASE o # q
    BY <1>0, <1>2, <1>4, <2>1 DEF OnDisk, Writing
  <2>2. CASE Truncate(q) /\ o = q
    <3>1. requests'[q] = [requests[q] EXCEPT !.pc = "write"] /\ requests[q].pc = "truncate"
      BY <1>0, <2>2 DEF Truncate, Step
    <3>2. requests'[q].copy = requests[q].copy /\ requests'[q].root = requests[q].root
      BY <1>0, <3>1 DEF Request
    <3> QED
      BY <1>2, <2>2, <3>1, <3>2 DEF OnDisk, Writing
  <2>3. CASE (ReadKey(q) \/ ApplySEO(q)) /\ o = q
    <3> DEFINE p == requests'[q].root
    <3>1. p \in Projects
      BY <2>3, NewCopy
    <3>2. New(catalog[p][k], p) /\ New(None, p)
      BY <1>1, <1>2, <3>1 DEF OnDisk
    <3>3. New(q, p)
      <4>1. requests'[q].pc = "truncate"
        <5>1. CASE ReadKey(q)
          BY <1>0, <5>1 DEF ReadKey, Request
        <5>2. CASE ApplySEO(q)
          BY <1>0, <5>2 DEF ApplySEO, Request
        <5> QED
          BY <2>3, <5>1, <5>2
      <4> QED
        BY <4>1
    <3>4. ApplySEO(q) => New(Grown.copy, p)
      <4>1. ApplySEO(q) => Free /\ p = root
        BY NewCopy
      <4> QED
        BY <1>2, <4>1, FreeAdopted DEF Shows
    <3> HIDE DEF New, p
    <3>5. \/ requests'[q].copy[k] \in {q, None, catalog[p][k]}
          \/ ApplySEO(q) /\ requests'[q].copy[k] = Grown.copy
      BY <2>3, NewCopy DEF p
    <3>6. New(requests'[q].copy[k], p)
      BY <3>2, <3>3, <3>4, <3>5
    <3> QED
      BY <2>3, <3>6 DEF p
  <2> QED
    BY <1>4, <2>1, <2>2, <2>3, WritingKinds
<1> QED
  BY <1>3, <1>4 DEF OnDisk, About, Settled, Writing

\* What a run at work does next.
LEMMA WorkKinds ==
    ASSUME StudioTypes, NEW q \in Users, Accept(q) \/ ServeStudio(q)
    PROVE  requests[q].pc \in {"work", "publish"} => RunWorks(q) \/ PublishRun(q)
<1> DEFINE Goal == requests[q].pc \in {"work", "publish"} => RunWorks(q) \/ PublishRun(q)
<1> USE DEF Doing
<1>1. CASE RunWorks(q) \/ PublishRun(q)
  BY <1>1
<1>2. CASE Accept(q) \/ View(q) \/ Edit(q) \/ PerformScan(q)
           \/ SwitchRoot(q) \/ Adopt(q) \/ TakeRoot(q) \/ RestoreDisk(q)
  BY <1>2 DEF Accept, View, Edit, PerformScan, SwitchRoot, Adopt, TakeRoot, RestoreDisk
<1>3. CASE ReadKey(q) \/ Truncate(q) \/ WriteCatalog(q) \/ StartRun(q)
           \/ RunReadsRoot(q) \/ RunMatches(q) \/ RunFails(q) \/ Relock(q)
  BY <1>3 DEF ReadKey, Truncate, WriteCatalog, StartRun, RunReadsRoot, RunMatches, RunFails, Relock
<1>4. CASE GetSEO(q) \/ Encode(q) \/ SaveStudioStrategy(q) \/ TakeStrategy(q)
           \/ Think(q) \/ Infer(q) \/ Gather(q) \/ Fetch(q)
  BY <1>4 DEF GetSEO, Encode, SaveStudioStrategy, TakeStrategy, Think, Infer, Gather, Fetch
<1>5. CASE Put(q) \/ ApplyNothing(q) \/ WeaveFails(q) \/ OpenFails(q) \/ ApplySEO(q)
  BY <1>5 DEF Put, ApplyNothing, WeaveFails, OpenFails, ApplySEO
<1> HIDE DEF Goal
<1> QED
  BY <1>1, <1>2, <1>3, <1>4, <1>5 DEF ServeStudio

\* A scan only scans.
LEMMA ScanKinds ==
    ASSUME StudioTypes, NEW q \in Users, Accept(q) \/ ServeStudio(q)
    PROVE  requests[q].pc = "scan" => PerformScan(q)
<1> DEFINE Goal == requests[q].pc = "scan" => PerformScan(q)
<1> USE DEF Doing
<1>1. CASE PerformScan(q)
  BY <1>1
<1>2. CASE Accept(q) \/ View(q) \/ Edit(q) \/ SwitchRoot(q)
           \/ Adopt(q) \/ TakeRoot(q) \/ RestoreDisk(q) \/ ReadKey(q)
  BY <1>2 DEF Accept, View, Edit, SwitchRoot, Adopt, TakeRoot, RestoreDisk, ReadKey
<1>3. CASE Truncate(q) \/ WriteCatalog(q) \/ StartRun(q) \/ RunReadsRoot(q)
           \/ RunMatches(q) \/ RunFails(q) \/ RunWorks(q) \/ PublishRun(q)
  BY <1>3 DEF Truncate, WriteCatalog, StartRun, RunReadsRoot, RunMatches, RunFails, RunWorks, PublishRun
<1>4. CASE Relock(q) \/ GetSEO(q) \/ Encode(q) \/ SaveStudioStrategy(q)
           \/ TakeStrategy(q) \/ Think(q) \/ Infer(q) \/ Gather(q)
  BY <1>4 DEF Relock, GetSEO, Encode, SaveStudioStrategy, TakeStrategy, Think, Infer, Gather
<1>5. CASE Fetch(q) \/ Put(q) \/ ApplyNothing(q) \/ WeaveFails(q) \/ OpenFails(q) \/ ApplySEO(q)
  BY <1>5 DEF Fetch, Put, ApplyNothing, WeaveFails, OpenFails, ApplySEO
<1> HIDE DEF Goal
<1> QED
  BY <1>1, <1>2, <1>3, <1>4, <1>5 DEF ServeStudio

\* Which runs are at work after a step of q.
LEMMA ActiveKinds ==
    ASSUME StudioTypes, NEW q \in Users, Accept(q) \/ ServeStudio(q)
    PROVE  \/ StartRun(q) \/ RunFails(q) \/ PublishRun(q)
           \/ (requests'[q].pc \in {"detect", "match", "work", "publish"}) = (requests[q].pc \in {"detect", "match", "work", "publish"})
<1> DEFINE Goal == \/ StartRun(q) \/ RunFails(q) \/ PublishRun(q)
                   \/ (requests'[q].pc \in {"detect", "match", "work", "publish"}) = (requests[q].pc \in {"detect", "match", "work", "publish"})
<1>0. requests \in [Users -> Request] /\ requests[q] \in Request
  BY DEF StudioTypes, StudioRequests
<1> USE <1>0 DEF Step, Done, Doing, Free, AfterThinking, projectVars, scanVars, seoVars, diskVars
<1>a. Accept(q) => requests[q].pc = "idle" /\ requests'[q].pc \in {"scan", "begin"}
  <2> SUFFICES ASSUME Accept(q) PROVE requests[q].pc = "idle" /\ requests'[q].pc \in {"scan", "begin"}
    OBVIOUS
  <2>1. PICK j \in Jobs, p \in Projects, k \in CatalogKeys :
          requests' = [requests EXCEPT ![q].job = j,
                                 ![q].pc = IF j = "scan" THEN "scan" ELSE "begin",
                                 ![q].root = IF j = "switch" THEN p ELSE None,
                                 ![q].key = IF j = "key" THEN k ELSE None]
    BY DEF Accept
  <2> QED
    BY <2>1 DEF Request, Accept
<1>1. CASE Accept(q)
  BY <1>1, <1>a
<1>2. CASE StartRun(q) \/ RunFails(q) \/ PublishRun(q)
  BY <1>2
<1>3. CASE TakeRoot(q)
  BY <1>3 DEF Request, TakeRoot
<1>4. CASE RestoreDisk(q)
  BY <1>4 DEF Request, RestoreDisk
<1>5. CASE ReadKey(q)
  BY <1>5 DEF Request, ReadKey
<1>6. CASE RunReadsRoot(q)
  BY <1>6 DEF Request, RunReadsRoot
<1>7. CASE RunMatches(q)
  BY <1>7 DEF Request, RunMatches
<1>8. CASE TakeStrategy(q)
  BY <1>8 DEF Request, TakeStrategy
<1>9. CASE ApplySEO(q)
  BY <1>9 DEF Request, ApplySEO
<1>10. CASE Put(q)
  BY <1>10 DEF Request, Put
<1>11. CASE SaveStudioStrategy(q)
  BY <1>11 DEF Request, SaveStudioStrategy
<1>12. CASE WriteCatalog(q)
  BY <1>12 DEF Request, WriteCatalog
<1>13. CASE Fetch(q)
  BY <1>13 DEF Request, Fetch
<1>14. CASE View(q) \/ Edit(q) \/ PerformScan(q)
  BY <1>14 DEF Request, View, Edit, PerformScan
<1>15. CASE SwitchRoot(q) \/ Adopt(q) \/ Truncate(q)
  BY <1>15 DEF Request, SwitchRoot, Adopt, Truncate
<1>16. CASE RunWorks(q) \/ Relock(q) \/ GetSEO(q)
  BY <1>16 DEF Request, RunWorks, Relock, GetSEO
<1>17. CASE Encode(q) \/ Think(q) \/ Infer(q)
  BY <1>17 DEF Request, Encode, Think, Infer
<1>18. CASE Gather(q) \/ ApplyNothing(q) \/ WeaveFails(q) \/ OpenFails(q)
  BY <1>18 DEF Request, Gather, ApplyNothing, WeaveFails, OpenFails
<1> HIDE DEF Goal
<1> QED
  BY <1>1, <1>2, <1>3, <1>4, <1>5, <1>6, <1>7, <1>8, <1>9, <1>10, <1>11, <1>12, <1>13, <1>14, <1>15, <1>16, <1>17, <1>18 DEF ServeStudio

LEMMA MatchedStays ==
    ASSUME StudioTypes, LockHeld, OnRoot, Matched, NEW q \in Users, Accept(q) \/ ServeStudio(q)
    PROVE  Matched'
<1>0. /\ requests \in [Users -> Request] /\ requests[q] \in Request /\ Sane(requests[q])
      /\ \A o \in Users \ {q} : requests'[o] = requests[o]
  BY RequestMoves, OthersStay DEF StudioTypes, StudioRequests
<1>1. crossed \subseteq crossed'
  BY CrossedGrows
<1>2. ASSUME NEW o \in Users \ crossed', o # q, requests'[o].with # None
      PROVE  \/ requests'[o].root = requests'[o].with
             \/ ~Adopted' /\ requests'[o].pc \in {"work", "publish"}
  <2>1. \/ requests[o].root = requests[o].with
        \/ ~Adopted /\ requests[o].pc \in {"work", "publish"}
    BY <1>0, <1>1, <1>2 DEF Matched
  <2>2. Adopt(q) => ~(requests[o].pc \in {"work", "publish"})
    BY <1>2 DEF Adopt, InFlight
  <2> QED
    BY <1>0, <1>2, <2>1, <2>2, Phases
<1>3. ASSUME q \notin crossed', requests'[q].with # None
      PROVE  \/ requests'[q].root = requests'[q].with
             \/ ~Adopted' /\ requests'[q].pc \in {"work", "publish"}
  <2>1. CASE RunMatches(q)
    <3>1. requests'[q] = [requests[q] EXCEPT !.pc = "work", !.with = platform] /\ requests[q].pc = "match"
      BY <1>0, <2>1 DEF RunMatches
    <3>2. requests'[q].with = platform /\ requests'[q].pc = "work" /\ requests'[q].root = requests[q].root
      BY <1>0, <3>1 DEF Request
    <3>3. requests[q].root # None
      BY <1>0, <3>1 DEF Sane
    <3>4. Adopted' = Adopted
      BY <3>1, Phases DEF Adopt, SwitchRoot, Doing
    <3> QED
      BY <1>1, <1>3, <3>1, <3>2, <3>3, <3>4 DEF OnRoot
  <2>2. CASE ~RunMatches(q)
    <3>1. requests'[q].with = requests[q].with
      BY <2>2, MatchedKinds
    <3>2. requests[q].pc \in {"work", "publish", "scan", "done"}
      BY <1>0, <1>3, <3>1 DEF Sane
    <3>3. requests'[q].root = requests[q].root
      BY <3>2, SettledStays DEF Settled
    <3>4. \/ requests[q].root = requests[q].with
          \/ ~Adopted /\ requests[q].pc \in {"work", "publish"}
      BY <1>1, <1>3, <3>1 DEF Matched
    <3>5. ASSUME ~Adopted, requests[q].pc \in {"work", "publish"}
          PROVE  ~Adopted' /\ requests'[q].pc \in {"work", "publish"}
      <4>1. RunWorks(q)
        BY <3>5, WorkKinds, FreeAdopted DEF PublishRun
      <4>2. requests'[q].pc = "publish"
        BY <1>0, <4>1 DEF RunWorks, Step, Request
      <4> QED
        BY <3>5, <4>2, Phases DEF Adopt, SwitchRoot, Doing
    <3> QED
      BY <3>1, <3>3, <3>4, <3>5
  <2> QED
    BY <2>1, <2>2
<1> QED
  BY <1>2, <1>3 DEF Matched

LEMMA OfKinds ==
    ASSUME StudioTypes, NEW q \in Users, Accept(q) \/ ServeStudio(q), ~Adopt(q)
    PROVE  /\ \A m \in Makers : plans'[m].of = plans[m].of
           /\ pointer' = pointer \/ (pointer' = requests[q].plan /\ requests[q].pc = "put")
<1>0. plans \in [Makers -> Plan] /\ requests[q] \in Request /\ pointer \in Makers
  BY DEF StudioTypes, StudioTypeOK, StudioRequests
<1>1. ASSUME NEW g, NEW m \in Makers, plans' = [plans EXCEPT ![m].goal = g]
      PROVE  \A n \in Makers : plans'[n].of = plans[n].of
  BY <1>0, <1>1 DEF Plan
<1>2. ASSUME NEW g, NEW m \in Makers, plans' = [plans EXCEPT ![m].desc = g]
      PROVE  \A n \in Makers : plans'[n].of = plans[n].of
  BY <1>0, <1>2 DEF Plan
<1>3. CASE UNCHANGED <<plans, pointer>>
  BY <1>3
<1>4. CASE Relock(q)
  BY <1>0, <1>1, <1>4 DEF Relock
<1>5. CASE SaveStudioStrategy(q)
  <2>1. PICK d \in {q, None}, g \in {q, plans[pointer].goal} :
          plans' = [plans EXCEPT ![pointer].desc = d, ![pointer].goal = g]
    BY <1>5 DEF SaveStudioStrategy
  <2>2. \A n \in Makers : plans'[n].of = plans[n].of
    BY <1>0, <2>1 DEF Plan
  <2> QED
    BY <1>5, <2>2 DEF SaveStudioStrategy
<1>6. CASE TakeStrategy(q)
  BY <1>0, <1>1, <1>6 DEF TakeStrategy
<1>7. CASE Infer(q)
  BY <1>0, <1>2, <1>7 DEF Infer, Request
<1>8. CASE Put(q)
  BY <1>0, <1>2, <1>8 DEF Put, Request
<1> QED
  BY <1>3, <1>4, <1>5, <1>6, <1>7, <1>8, PlanKinds

LEMMA StrategiesStay ==
    ASSUME StudioTypes, LockHeld, Strategies, NEW q \in Users, Accept(q) \/ ServeStudio(q)
    PROVE  Strategies'
<1>0. /\ requests \in [Users -> Request] /\ requests[q] \in Request /\ Sane(requests[q])
      /\ \A o \in Users \ {q} : requests'[o] = requests[o]
  BY RequestMoves, OthersStay DEF StudioTypes, StudioRequests
<1>1. crossed \subseteq crossed' /\ crossed \subseteq Users
  BY CrossedGrows DEF StudioTypes, StudioTypeOK
<1>2. CASE SwitchRoot(q)
  <2>1. ~Adopt(q)
    BY <1>2 DEF SwitchRoot, Adopt, Doing
  <2> QED
    BY <1>2, <2>1, Phases DEF Strategies
<1>3. CASE Adopt(q)
  <2>1. root' = root /\ requests'[q].pc = "scan" /\ q \in Makers /\ plans \in [Makers -> Plan]
    BY <1>0, <1>3 DEF Adopt, Step, Request, Makers, StudioTypes, StudioTypeOK
  <2>2. pointer' = q /\ plans'[q].of = root
    BY <1>3, <2>1 DEF Adopt, Fresh
  <2>3. \A o \in Users \ {q} : requests[o].pc \in Planning => o \in crossed'
    BY <1>3 DEF Adopt, InFlight, Planning
  <2>4. \A o \in Users \ crossed' : requests'[o].pc \notin Planning
    BY <1>0, <2>1, <2>3 DEF Planning
  <2> QED
    BY <2>1, <2>2, <2>4 DEF Strategies, Held
<1>4. CASE ~SwitchRoot(q) /\ ~Adopt(q)
  <2>1. UNCHANGED <<root, platform, crossed>> /\ Adopted' = Adopted
    BY <1>4, Phases
  <2> DEFINE Holds(m) == plans'[m].of = root
                         \/ \E c \in crossed : /\ requests'[c].pc \notin {"idle", "begin", "detect"}
                                               /\ requests'[c].plan = m
  <2>2. ASSUME NEW m \in Makers, Held(m) PROVE Holds(m)
    BY <1>1, <1>4, <2>2, OfKinds, SettledStays DEF Held
  <2>3. pointer \in Makers /\ requests[q].plan \in Makers
    BY <1>0 DEF StudioTypes, StudioTypeOK, Request
  <2> SUFFICES ASSUME Adopted
               PROVE  /\ Holds(pointer')
                      /\ \A o \in Users \ crossed : requests'[o].pc \in Planning => Holds(requests'[o].plan)
    BY <2>1 DEF Strategies, Held, Settled
  <2>4. requests[q].pc \in Planning => Held(requests[q].plan)
    BY DEF Strategies, Held, Settled, Planning
  <2>5. Holds(pointer) /\ Holds(pointer')
    BY <1>4, <2>2, <2>3, <2>4, OfKinds DEF Strategies, Planning
  <2>6. ASSUME NEW o \in Users \ crossed, requests'[o].pc \in Planning
        PROVE  Holds(requests'[o].plan)
    <3>1. CASE o # q
      <4>1. requests[o].plan \in Makers
        BY <1>0 DEF Request
      <4> QED
        BY <1>0, <2>2, <2>6, <3>1, <4>1 DEF Strategies
    <3>2. CASE o = q /\ TakeStrategy(q)
      <4>1. requests'[q].plan = pointer
        BY <1>0, <3>2 DEF TakeStrategy, Request
      <4> QED
        BY <2>5, <3>2, <4>1
    <3>3. CASE o = q /\ requests[q].pc \in Planning
      <4>1. requests'[q].plan = requests[q].plan
        BY <3>3, SettledStays DEF Settled, Planning
      <4> QED
        BY <2>2, <2>3, <2>4, <3>3, <4>1
    <3> QED
      BY <2>6, <3>1, <3>2, <3>3, PlanningKinds
  <2> QED
    BY <2>5, <2>6
<1> QED
  BY <1>2, <1>3, <1>4

LEMMA CandidatesStay ==
    ASSUME StudioTypes, LockHeld, CandidatesCurrent, NEW q \in Users, Accept(q) \/ ServeStudio(q)
    PROVE  CandidatesCurrent'
<1>1. CASE SwitchRoot(q)
  <2>1. ~Adopt(q)
    BY <1>1 DEF SwitchRoot, Adopt, Doing
  <2> QED
    BY <1>1, <2>1, Phases DEF CandidatesCurrent
<1>2. CASE ~SwitchRoot(q)
  BY <1>2, Phases, ResultKinds, FreeAdopted DEF CandidatesCurrent
<1> QED
  BY <1>1, <1>2

LEMMA RunningStays ==
    ASSUME StudioTypes, RunningShown, NEW q \in Users, Accept(q) \/ ServeStudio(q)
    PROVE  RunningShown'
<1> DEFINE R == {"detect", "match", "work", "publish"}
           Now(o) == requests'[o].job = "run" /\ requests'[o].pc \in R
           Ended(o) == requests[o].job = "run" /\ requests[o].pc \in {"scan", "done"}
           HasEnded(o) == requests'[o].job = "run" /\ requests'[o].pc \in {"scan", "done"}
<1>0. /\ requests \in [Users -> Request] /\ requests[q] \in Request /\ Sane(requests[q])
      /\ \A o \in Users \ {q} : requests'[o] = requests[o]
      /\ requests'[q] \in Request /\ Sane(requests'[q]) /\ running \in BOOLEAN
  BY RequestMoves, OthersStay DEF StudioTypes, StudioRequests, StudioTypeOK
<1> SUFFICES /\ running' => \E o \in Users : Now(o)
             /\ ~running' => \A o \in Users : Now(o) => \E p \in Users \ {o} : HasEnded(p)
  BY DEF RunningShown, Active
<1>1. Active(q) <=> requests[q].pc \in R
  BY <1>0 DEF Active, Sane
<1>2. Now(q) <=> requests'[q].pc \in R
  BY <1>0 DEF Sane
<1>3. \A o \in Users \ {q} : Active(o) <=> Now(o)
  BY <1>0 DEF Active
<1>4. CASE StartRun(q)
  <2>1. requests'[q].pc = "detect" /\ running'
    BY <1>0, <1>4 DEF StartRun, Step, Request
  <2> QED
    BY <1>2, <2>1
<1>5. CASE RunFails(q) \/ PublishRun(q)
  <2>1. requests[q].pc \in {"match", "publish"} /\ ~running'
    BY <1>5 DEF RunFails, PublishRun
  <2>2. requests[q].job = "run"
    BY <1>0, <2>1 DEF Sane
  <2>3. requests'[q].job = "run" /\ requests'[q].pc \in {"scan", "done"}
    BY <1>0, <1>5, <2>2 DEF RunFails, PublishRun, Step, Done, Request
  <2> QED
    BY <2>1, <2>3
<1>6. CASE ~StartRun(q) /\ ~RunFails(q) /\ ~PublishRun(q)
  <2>1. running' = running /\ (Now(q) <=> Active(q))
    BY <1>1, <1>2, <1>6, RunningKinds, ActiveKinds
  <2>2. Ended(q) => HasEnded(q)
    <3> SUFFICES ASSUME Ended(q) PROVE HasEnded(q)
      OBVIOUS
    <3>1. requests[q].pc # "done"
      BY RootKinds DEF SwitchRoot, Adopt, Doing
    <3>2. PerformScan(q)
      BY <3>1, ScanKinds
    <3> QED
      BY <1>0, <3>2 DEF PerformScan, Done, Request
  <2>3. \A o \in Users : Ended(o) => HasEnded(o)
    BY <1>0, <2>2
  <2>4. \A o \in Users : Active(o) <=> Now(o)
    BY <1>3, <2>1
  <2>5. ~running => \A o \in Users : Active(o) => \E p \in Users \ {o} : Ended(p)
    BY DEF RunningShown
  <2> HIDE DEF Now, Ended, HasEnded
  <2> QED
    BY <2>1, <2>3, <2>4, <2>5 DEF RunningShown
<1> QED
  BY <1>4, <1>5, <1>6

LEMMA UnchangedStays ==
    ASSUME StudioTypes, LockHeld, Unchanged, NEW q \in Users, Accept(q) \/ ServeStudio(q)
    PROVE  Unchanged'
<1>0. /\ requests \in [Users -> Request] /\ requests[q] \in Request /\ Sane(requests[q])
      /\ \A o \in Users \ {q} : requests'[o] = requests[o]
  BY RequestMoves, OthersStay DEF StudioTypes, StudioRequests
<1>1. overlapped \subseteq overlapped'
  BY OverlappedGrows
<1>2. ASSUME NEW o \in Users \ overlapped', requests'[o].pc \in {"truncate", "write"}, o # q,
             NEW k \in CatalogKeys
      PROVE  \/ requests'[o].copy[k] \in {catalog'[requests'[o].root][k], o}
             \/ requests'[o].job = "applyseo" /\ requests'[o].copy[k] = Grown'.copy
  <2>1. Writing(o) /\ o \notin overlapped /\ requests'[o] = requests[o]
    BY <1>0, <1>1, <1>2 DEF Writing
  <2>2. requests[o].root \in Projects
    BY <1>0, <2>1 DEF StudioTypes, StudioRequests, Sane, Writing, Request
  <2>3. catalog'[requests[o].root] = catalog[requests[o].root]
    BY <1>2, <2>1, <2>2, CatalogKinds, Written
  <2>4. ASSUME requests[o].job = "applyseo" PROVE Grown'.copy = Grown.copy
    <3>1. mutex = o /\ o # None
      BY <2>1, <2>4, StudioAssumption DEF LockHeld
    <3>2. ~Free /\ ~Adopt(q)
      BY <1>2, <3>1 DEF Free, LockHeld, Adopt
    <3> QED
      BY <3>2, GrowthKinds
  <2> QED
    BY <2>1, <2>3, <2>4 DEF Unchanged
<1>3. ASSUME q \notin overlapped', requests'[q].pc \in {"truncate", "write"}, NEW k \in CatalogKeys
      PROVE  \/ requests'[q].copy[k] \in {catalog'[requests'[q].root][k], q}
             \/ requests'[q].job = "applyseo" /\ requests'[q].copy[k] = Grown'.copy
  <2>1. CASE Truncate(q)
    <3>1. requests'[q] = [requests[q] EXCEPT !.pc = "write"] /\ requests[q].pc = "truncate"
          /\ UNCHANGED <<catalog, growth>>
      BY <1>0, <2>1 DEF Truncate, Step, seoVars
    <3>2. /\ requests'[q].copy = requests[q].copy /\ requests'[q].root = requests[q].root
          /\ requests'[q].job = requests[q].job /\ Writing(q)
      BY <1>0, <3>1 DEF Request, Writing
    <3>3. Grown' = Grown
      BY <3>1 DEF Grown
    <3> QED
      BY <1>1, <1>3, <3>1, <3>2, <3>3 DEF Unchanged
  <2>2. CASE ReadKey(q) \/ ApplySEO(q)
    <3>1. Grown' = Grown
      BY <2>2, NewCopy DEF Grown
    <3> QED
      BY <1>3, <2>2, <3>1, NewCopy
  <2> QED
    BY <1>3, <2>1, <2>2, WritingKinds
<1> QED
  BY <1>2, <1>3 DEF Unchanged, Writing

(***************************************************************************)
(* All together.                                                           *)
(***************************************************************************)
StudioRec == /\ StudioTypes /\ LockHeld /\ OnRoot /\ Shows /\ OnDisk /\ Matched /\ Strategies
             /\ CandidatesCurrent /\ RunningShown /\ Unchanged

LEMMA StudioInitRec == StudioInit => StudioRec
<1> SUFFICES ASSUME StudioInit PROVE StudioRec
  OBVIOUS
<1>1. StudioTypes
  BY StudioInitTypes
<1>2. /\ \A q \in Users : requests[q] = Idling
      /\ Idling.pc = "idle" /\ Idling.with = None /\ Idling.root = None /\ Idling.job = None
  BY DEF StudioInit, Idling
<1>3. None \notin Users /\ Start \notin Users
  BY StudioAssumption
<1>4. Grown.keywords = None /\ Grown.copy = None
  BY DEF StudioInit, Grown, NoGrowth
<1>5. LockHeld /\ OnRoot /\ Matched /\ Unchanged
  BY <1>2 DEF StudioInit, LockHeld, OnRoot, Matched, Unchanged, Writing, Adopted
<1>6. Shows /\ OnDisk
  BY <1>2, <1>3, <1>4 DEF StudioInit, Shows, OnDisk, About, Writing
<1>7. Strategies
  BY <1>2 DEF StudioInit, Strategies, Held, Fresh, Makers, Planning
<1>8. CandidatesCurrent /\ RunningShown
  BY <1>2 DEF StudioInit, CandidatesCurrent, RunningShown, Active
<1> QED
  BY <1>1, <1>5, <1>6, <1>7, <1>8 DEF StudioRec

LEMMA StudioStepRec == StudioRec /\ [StudioNext]_studioVars => StudioRec'
<1>1. ASSUME StudioRec, UNCHANGED studioVars PROVE StudioRec'
  <2>1. StudioTypes'
    BY <1>1, StudioStepTypes DEF StudioRec
  <2>2. LockHeld' /\ OnRoot' /\ Shows' /\ OnDisk' /\ Matched' /\ Unchanged'
    BY <1>1 DEF studioVars, StudioRec, LockHeld, OnRoot, Shows, OnDisk, Matched, Unchanged, Adopted,
       About, Settled, Writing, Grown
  <2>3. Strategies' /\ CandidatesCurrent' /\ RunningShown'
    BY <1>1 DEF studioVars, StudioRec, Strategies, Held, Settled, CandidatesCurrent, RunningShown,
       Active, Adopted
  <2> QED
    BY <2>1, <2>2, <2>3 DEF StudioRec
<1>2. ASSUME StudioRec, NEW q \in Users, Accept(q) \/ ServeStudio(q), StudioNext PROVE StudioRec'
  <2> USE <1>2 DEF StudioRec
  <2>1. StudioTypes'
    BY StudioStepTypes
  <2>2. LockHeld' /\ OnRoot' /\ Shows' /\ OnDisk'
    BY LockStays, OnRootStays, ShowsStays, OnDiskStays
  <2>3. Matched' /\ Strategies' /\ CandidatesCurrent' /\ RunningShown' /\ Unchanged'
    BY MatchedStays, StrategiesStay, CandidatesStay, RunningStays, UnchangedStays
  <2> QED
    BY <2>1, <2>2, <2>3
<1> QED
  BY <1>1, <1>2 DEF StudioNext

LEMMA StudioAlways == StudioSpec => []StudioRec
BY StudioInitRec, StudioStepRec, PTL DEF StudioSpec

LEMMA RecKeepsAll == StudioRec => StudioInv
<1> SUFFICES ASSUME StudioRec PROVE StudioInv
  OBVIOUS
<1>1. ASSUME Adopted PROVE plans[pointer].of # root => \E c \in crossed : requests[c].plan = pointer
  BY <1>1 DEF StudioRec, Strategies, Held
<1>2. NothingForeign
  BY <1>1 DEF StudioRec, NothingForeign, Shows, OnDisk, Matched, About
<1> QED
  BY <1>2 DEF StudioRec, StudioTypes, StudioInv

\* Whatever the handlers of the studio and the goroutines that they leave
\* behind do, and however often the project is switched under them: what the
\* studio shows and writes is about the open project but for requests that a
\* switch has crossed, its candidates are those of the open project, and a run
\* at work is shown.
THEOREM StudioIsSound == StudioSpec => []StudioInv
BY StudioAlways, RecKeepsAll, PTL

\* A text of a catalog is replaced only on purpose or by a writer that
\* another one overlapped.
THEOREM TextsAreKept == StudioSpec => TextsKept
<1> DEFINE Kept == \A p \in Projects, k \in CatalogKeys :
                     catalog[p][k] # None /\ catalog'[p][k] # catalog[p][k] =>
                       \E q \in Users :
                          /\ requests'[q] # requests[q]
                          /\ \/ requests[q].job \in {"run", "reset", "rollback"}
                             \/ catalog'[p][k] \in {q, Grown.copy}
                             \/ q \in overlapped
<1>1. ASSUME StudioRec, NEW q \in Users, Accept(q) \/ ServeStudio(q) PROVE Kept
  <2>0. /\ requests \in [Users -> Request] /\ requests[q] \in Request /\ StudioTypes
    BY <1>1 DEF StudioRec, StudioTypes, StudioRequests
  <2>1. CASE UNCHANGED catalog
    BY <2>1
  <2>2. CASE RestoreDisk(q) \/ WriteCatalog(q) \/ RunWorks(q)
    <3>1. requests'[q] # requests[q]
      <4>1. requests[q].pc \in {"disk", "write", "work"} /\ requests'[q].pc \in {"done", "scan", "publish"}
        BY <2>0, <2>2 DEF RestoreDisk, WriteCatalog, RunWorks, Step, Done, Request
      <4> QED
        BY <4>1
    <3>2. ASSUME NEW p \in Projects, NEW k \in CatalogKeys, catalog'[p][k] # catalog[p][k]
          PROVE  \/ requests[q].job \in {"run", "reset", "rollback"}
                 \/ catalog'[p][k] \in {q, Grown.copy}
                 \/ q \in overlapped
      <4>1. CASE p = requests[q].root /\ WriteCatalog(q) /\ catalog'[p][k] = requests[q].copy[k]
        BY <1>1, <3>2, <4>1 DEF StudioRec, Unchanged, WriteCatalog, Writing
      <4> QED
        BY <2>0, <2>2, <3>2, <4>1, Written
    <3> QED
      BY <3>1, <3>2
  <2> QED
    BY <1>1, <2>0, <2>1, <2>2, CatalogKinds
<1>2. StudioRec /\ [StudioNext]_studioVars => [Kept]_studioVars
  BY <1>1 DEF StudioNext
<1> QED
  BY <1>2, StudioAlways, PTL DEF StudioSpec, TextsKept
-----------------------------------------------------------------------------
(***************************************************************************)
(* Chat.  The last turn is a question exactly while its asker holds the    *)
(* lock, and then it is his.                                               *)
(***************************************************************************)
Turned(c) ==
    /\ {"work", "base"} \subseteq DOMAIN asks[c]
    /\ asks[c].work = "seeding" => asks[c].base \in Seq(Said)
    /\ asks[c].work = "working" => holder = c

Latest(i) == i \in Turns /\ \A k \in Turns : k <= i

LastTurn ==
    IF holder = None THEN \A i \in Turns : Latest(i) => history[i].role = "assistant"
    ELSE \E i \in Turns : Latest(i) /\ history[i] = Entry("user", holder)

ChatRec ==
    /\ history \in Seq(Said) /\ DOMAIN asks = Askers
    /\ \A c \in Askers : Turned(c)
    /\ raced \in BOOLEAN
    /\ raced \/ (TurnsTogether /\ LastTurn)

\* What an append makes of the turns.
LEMMA Appended ==
    ASSUME history \in Seq(Said), NEW e \in Said, history' = Append(history, e)
    PROVE  LET n == Len(history) + 1 IN
           /\ history' \in Seq(Said) /\ n \in Nat \ {0} /\ history'[n] = e
           /\ Turns \subseteq 1 .. n - 1
           /\ \A i \in Turns : history'[i] = history[i]
           /\ Turns' = IF e.role = "seed" THEN Turns ELSE Turns \cup {n}
<1> DEFINE n == Len(history) + 1
<1>1. /\ history' \in Seq(Said) /\ n \in Nat \ {0} /\ DOMAIN history = 1 .. n - 1
      /\ DOMAIN history' = 1 .. n /\ history'[n] = e
      /\ \A i \in 1 .. n - 1 : history'[i] = history[i]
  OBVIOUS
<1> HIDE DEF n
<1>2. 1 .. n = (1 .. n - 1) \cup {n} /\ n \notin 1 .. n - 1
  BY <1>1
<1>3. Turns \subseteq 1 .. n - 1 /\ \A i \in Turns : history'[i] = history[i]
  BY <1>1 DEF Turns
<1>4. \A i \in 1 .. n : i \in Turns' <=> history'[i].role # "seed"
  BY <1>1 DEF Turns
<1>5. \A i \in 1 .. n - 1 : i \in Turns <=> history[i].role # "seed"
  BY <1>1 DEF Turns
<1>6. Turns' \subseteq 1 .. n
  BY <1>1 DEF Turns
<1>7. Turns' = IF e.role = "seed" THEN Turns ELSE Turns \cup {n}
  BY <1>1, <1>2, <1>3, <1>4, <1>5, <1>6, ZenonT(60)
<1> QED
  BY <1>1, <1>3, <1>7 DEF n

\* An entry of an old conversation changes nothing between the turns.
LEMMA SeedKeeps ==
    ASSUME history \in Seq(Said), NEW c \in Askers, history' = Append(history, Entry("seed", c)),
           UNCHANGED <<holder, raced>>, TurnsTogether, LastTurn
    PROVE  TurnsTogether' /\ LastTurn'
<1>1. Entry("seed", c) \in Said /\ Entry("seed", c).role = "seed"
  BY DEF Said, Entry
<1>2. Turns' = Turns /\ \A i \in Turns : history'[i] = history[i]
  BY <1>1, Appended
<1>3. TurnsTogether'
  <2> SUFFICES ASSUME ~raced PROVE TurnsTogether'
    BY DEF TurnsTogether
  <2>1. \A i, j \in Turns : NextTurn(i, j)' <=> NextTurn(i, j)
    BY <1>2 DEF NextTurn
  <2>2. \A i \in Turns :
            IF history'[i].role = "user"
            THEN \A j \in Turns : NextTurn(i, j)' => history'[j] = Entry("assistant", history'[i].by)
            ELSE \E j \in Turns : NextTurn(j, i)' /\ history'[j] = Entry("user", history'[i].by)
    <3> TAKE i \in Turns
    <3>1. CASE history[i].role = "user"
      BY <1>2, <2>1, <3>1 DEF TurnsTogether
    <3>2. CASE history[i].role # "user"
      BY <1>2, <2>1, <3>2 DEF TurnsTogether
    <3> QED
      BY <3>1, <3>2
  <2> QED
    BY <1>2, <2>2 DEF TurnsTogether
<1>4. LastTurn'
  BY <1>2 DEF LastTurn, Latest
<1> QED
  BY <1>3, <1>4

\* A question follows an answer, or nothing.
LEMMA QuestionKeeps ==
    ASSUME history \in Seq(Said), NEW c \in Askers, history' = Append(history, Entry("user", c)),
           holder = None, holder' = c, c # None, ~raced, ~raced', TurnsTogether, LastTurn
    PROVE  TurnsTogether' /\ LastTurn'
<1> DEFINE e == Entry("user", c)
<1>1. e \in Said /\ e.role = "user"
  BY DEF Said, Entry
<1>2. PICK n \in Nat \ {0} :
          /\ history'[n] = e /\ Turns \subseteq 1 .. n - 1
          /\ (\A i \in Turns : history'[i] = history[i]) /\ Turns' = Turns \cup {n}
  BY <1>1, Appended
<1> HIDE DEF e
<1>3. \A i, j \in Turns : NextTurn(i, j)' <=> NextTurn(i, j)
  BY <1>2 DEF NextTurn
<1>4. \A i \in Turns : NextTurn(i, n)' => Latest(i)
  <2> SUFFICES ASSUME NEW i \in Turns, NextTurn(i, n)', NEW k \in Turns, k > i PROVE FALSE
    BY <1>2 DEF Latest
  <2>1. k \in i + 1 .. n - 1 /\ k \in Turns'
    BY <1>2
  <2> QED
    BY <2>1 DEF NextTurn
<1>5. \A i \in Turns : NextTurn(i, n)' => history[i].role = "assistant"
  BY <1>4 DEF LastTurn
<1>6. \A i \in Turns : ~NextTurn(n, i)'
  BY <1>2 DEF NextTurn
<1>7. ~NextTurn(n, n)'
  BY <1>2 DEF NextTurn
<1>8. TurnsTogether'
  <2> SUFFICES ASSUME NEW i \in Turns'
               PROVE  IF history'[i].role = "user"
                      THEN \A j \in Turns' : NextTurn(i, j)' =>
                              history'[j] = Entry("assistant", history'[i].by)
                      ELSE \E j \in Turns' : NextTurn(j, i)' /\ history'[j] = Entry("user", history'[i].by)
    BY DEF TurnsTogether
  <2>1. CASE i = n
    BY <1>1, <1>2, <1>6, <1>7, <2>1
  <2>2. CASE i \in Turns /\ history[i].role = "user"
    BY <1>2, <1>3, <1>5, <2>2 DEF TurnsTogether
  <2>3. CASE i \in Turns /\ history[i].role # "user"
    BY <1>2, <1>3, <2>3 DEF TurnsTogether
  <2> QED
    BY <1>2, <2>1, <2>2, <2>3
<1>9. LastTurn'
  <2>1. Latest(n)'
    BY <1>2 DEF Latest
  <2> QED
    BY <1>2, <2>1 DEF LastTurn, e
<1> QED
  BY <1>8, <1>9

\* The answer follows the question of the one who holds the lock.
LEMMA AnswerKeeps ==
    ASSUME history \in Seq(Said), NEW c \in Askers, history' = Append(history, Entry("assistant", c)),
           holder = c, holder' = None, c # None, ~raced, ~raced', TurnsTogether, LastTurn
    PROVE  TurnsTogether' /\ LastTurn'
<1> DEFINE e == Entry("assistant", c)
<1>1. e \in Said /\ e.role = "assistant" /\ e.by = c
  BY DEF Said, Entry
<1>2. PICK n \in Nat \ {0} :
          /\ history'[n] = e /\ Turns \subseteq 1 .. n - 1
          /\ (\A i \in Turns : history'[i] = history[i]) /\ Turns' = Turns \cup {n}
  BY <1>1, Appended
<1> HIDE DEF e
<1>3. \A i, j \in Turns : NextTurn(i, j)' <=> NextTurn(i, j)
  BY <1>2 DEF NextTurn
<1>4. PICK q \in Turns : Latest(q) /\ history[q] = Entry("user", c)
  BY DEF LastTurn
<1>5. \A i \in Turns : NextTurn(i, n)' => i = q
  <2> SUFFICES ASSUME NEW i \in Turns, NextTurn(i, n)', i # q PROVE FALSE
    OBVIOUS
  <2>1. q \in i + 1 .. n - 1 /\ q \in Turns'
    BY <1>2, <1>4 DEF Latest
  <2> QED
    BY <2>1 DEF NextTurn
<1>6. NextTurn(q, n)'
  BY <1>2, <1>4 DEF NextTurn, Latest
<1>7. \A i \in Turns \cup {n} : ~NextTurn(n, i)'
  BY <1>2 DEF NextTurn
<1>8. TurnsTogether'
  <2> SUFFICES ASSUME NEW i \in Turns'
               PROVE  IF history'[i].role = "user"
                      THEN \A j \in Turns' : NextTurn(i, j)' =>
                              history'[j] = Entry("assistant", history'[i].by)
                      ELSE \E j \in Turns' : NextTurn(j, i)' /\ history'[j] = Entry("user", history'[i].by)
    BY DEF TurnsTogether
  <2>1. CASE i = n
    BY <1>1, <1>2, <1>4, <1>6, <2>1
  <2>2. CASE i \in Turns /\ history[i].role = "user"
    <3>1. history[q].by = c
      BY <1>4 DEF Entry
    <3>2. ASSUME NEW j \in Turns', NextTurn(i, j)'
          PROVE  history'[j] = Entry("assistant", history'[i].by)
      <4>1. CASE j = n
        <5>1. i = q /\ history'[i] = history[i]
          BY <1>2, <1>5, <2>2, <3>2, <4>1
        <5> QED
          BY <1>2, <3>1, <4>1, <5>1 DEF e
      <4>2. CASE j \in Turns
        BY <1>2, <1>3, <2>2, <3>2, <4>2 DEF TurnsTogether
      <4> QED
        BY <1>2, <3>2, <4>1, <4>2
    <3> QED
      BY <1>2, <2>2, <3>2
  <2>3. CASE i \in Turns /\ history[i].role # "user"
    BY <1>2, <1>3, <2>3 DEF TurnsTogether
  <2> QED
    BY <1>2, <2>1, <2>2, <2>3
<1>9. LastTurn'
  <2>1. \A i \in Turns' : Latest(i)' => i = n
    BY <1>2 DEF Latest
  <2> QED
    BY <1>1, <1>2, <2>1 DEF LastTurn
<1> QED
  BY <1>8, <1>9

LEMMA ChatInitRec == ChatInit => ChatRec
<1> SUFFICES ASSUME ChatInit PROVE ChatRec
  OBVIOUS
<1>1. history \in Seq(Said) /\ Turns = {}
  BY DEF ChatInit, Turns
<1>2. \A c \in Askers : asks[c] = Idle
  BY DEF ChatInit
<1>3. \A c \in Askers : Turned(c)
  BY <1>2 DEF Turned, Idle
<1> QED
  BY <1>1, <1>3 DEF ChatInit, ChatRec, TurnsTogether, LastTurn

\* A step that leaves the turns alone.
LEMMA SameTurns ==
    ASSUME UNCHANGED <<history, holder, raced>>, TurnsTogether, LastTurn
    PROVE  TurnsTogether' /\ LastTurn'
<1>1. Turns' = Turns
  BY DEF Turns
<1> QED
  BY <1>1 DEF TurnsTogether, LastTurn, Latest, NextTurn

\* Steps of a request that do not begin or end its work.
LEMMA RequestKeeps ==
    ASSUME ChatRec, UNCHANGED <<history, holder, raced>>, DOMAIN asks' = Askers,
           \A c \in Askers : Turned(c)'
    PROVE  ChatRec'
BY SameTurns DEF ChatRec

LEMMA ChatStepRec ==
    ASSUME ChatRec, [ChatNext]_chatVars
    PROVE  ChatRec'
<1>1. CASE UNCHANGED chatVars
  BY <1>1, RequestKeeps DEF ChatRec, Turned, chatVars
<1>2. CASE ResetHistory
  <2>1. history' = <<>> /\ UNCHANGED <<holder, world, asks, raced>> /\ holder = None
    BY <1>2 DEF ResetHistory
  <2>2. Turns' = {}
    BY <2>1 DEF Turns
  <2> QED
    BY <2>1, <2>2 DEF ChatRec, Turned, TurnsTogether, LastTurn
<1>3. ASSUME NEW c \in Askers, DOMAIN asks' = Askers,
             \A d \in Askers \ {c} : asks'[d] = asks[d],
             {"work", "base"} \subseteq DOMAIN asks'[c],
             asks'[c].work = "seeding" => asks'[c].base \in Seq(Said),
             asks'[c].work = "working" => holder' = c,
             holder' = holder \/ holder \in {None, c}
      PROVE  \A d \in Askers : Turned(d)'
  <2>1. \A d \in Askers \ {c} : asks[d].work = "working" => holder = d /\ holder' = d
    BY <1>3, ChatAssumption DEF ChatRec, Turned
  <2> QED
    BY <1>3, <2>1 DEF ChatRec, Turned
<1>4. ASSUME NEW c \in Askers, Ask(c) \/ UnknownTool(c) \/ RunTool(c) \/ Hear(c)
                               \/ Finish(c) \/ LeaveChat(c)
      PROVE  ChatRec'
  <2>0. DOMAIN asks = Askers /\ {"work", "base"} \subseteq DOMAIN asks[c]
        /\ (asks[c].work = "seeding" => asks[c].base \in Seq(Said))
        /\ (asks[c].work = "working" => holder = c)
    BY DEF ChatRec, Turned
  <2>1. UNCHANGED <<history, holder, raced>>
    BY <1>4 DEF Ask, UnknownTool, RunTool, Hear, Finish, LeaveChat
  <2>2. CASE Ask(c)
    <3>1. PICK at \in {"waiting", "checked"} : asks' = [asks EXCEPT ![c].work = at]
      BY <2>2 DEF Ask
    <3>2. DOMAIN asks' = Askers /\ (\A d \in Askers \ {c} : asks'[d] = asks[d])
          /\ {"work", "base"} \subseteq DOMAIN asks'[c] /\ asks'[c].work = at
      BY <2>0, <3>1
    <3> QED
      BY <1>3, <2>0, <2>1, <3>2, RequestKeeps
  <2>3. CASE UnknownTool(c) \/ RunTool(c) \/ Hear(c) \/ Finish(c) \/ LeaveChat(c)
    <3>1. DOMAIN asks' = Askers /\ (\A d \in Askers \ {c} : asks'[d] = asks[d])
          /\ {"work", "base"} \subseteq DOMAIN asks'[c]
          /\ asks'[c].work = asks[c].work /\ asks'[c].base = asks[c].base
      <4>1. CASE UnknownTool(c)
        BY <2>0, <4>1 DEF UnknownTool
      <4>2. CASE RunTool(c)
        BY <2>0, <4>2 DEF RunTool
      <4>3. CASE Hear(c)
        BY <2>0, <4>3 DEF Hear
      <4>4. CASE Finish(c)
        BY <2>0, <4>4 DEF Finish
      <4>5. CASE LeaveChat(c)
        BY <2>0, <4>5 DEF LeaveChat
      <4> QED
        BY <2>3, <4>1, <4>2, <4>3, <4>4, <4>5
    <3> QED
      BY <1>3, <2>0, <2>1, <3>1, RequestKeeps
  <2> QED
    BY <1>4, <2>2, <2>3
<1>5. ASSUME NEW c \in Askers, SeedRead(c) PROVE ChatRec'
  <2>0. DOMAIN asks = Askers /\ {"work", "base"} \subseteq DOMAIN asks[c] /\ history \in Seq(Said)
    BY DEF ChatRec, Turned
  <2>1. UNCHANGED <<history, holder, raced>>
    BY <1>5 DEF SeedRead
  <2>2. DOMAIN asks' = Askers /\ (\A d \in Askers \ {c} : asks'[d] = asks[d])
        /\ {"work", "base"} \subseteq DOMAIN asks'[c]
        /\ asks'[c].work = "seeding" /\ asks'[c].base = history
    BY <1>5, <2>0 DEF SeedRead
  <2> QED
    BY <1>3, <2>0, <2>1, <2>2, RequestKeeps
<1>6. ASSUME NEW c \in Askers, SeedWrite(c) PROVE ChatRec'
  <2>0. DOMAIN asks = Askers /\ {"work", "base"} \subseteq DOMAIN asks[c]
        /\ asks[c].work = "seeding" /\ asks[c].base \in Seq(Said)
    BY <1>6 DEF ChatRec, Turned, SeedWrite
  <2>1. /\ history' = Append(asks[c].base, Entry("seed", c)) /\ holder' = holder
        /\ raced' = (raced \/ asks[c].base # history)
    BY <1>6 DEF SeedWrite
  <2>2. DOMAIN asks' = Askers /\ (\A d \in Askers \ {c} : asks'[d] = asks[d])
        /\ {"work", "base"} \subseteq DOMAIN asks'[c] /\ asks'[c].work = "waiting"
    BY <1>6, <2>0 DEF SeedWrite
  <2>3. \A d \in Askers : Turned(d)'
    BY <1>3, <2>1, <2>2
  <2>4. Entry("seed", c) \in Said
    BY DEF Entry, Said
  <2>5. history' \in Seq(Said) /\ raced' \in BOOLEAN
    BY <2>0, <2>1, <2>4 DEF ChatRec
  <2>6. ~raced' => TurnsTogether' /\ LastTurn'
    BY <2>1, SeedKeeps DEF ChatRec
  <2> QED
    BY <2>2, <2>3, <2>5, <2>6 DEF ChatRec
<1>7. ASSUME NEW c \in Askers, Listen(c) \/ Answer(c) PROVE ChatRec'
  <2>0. DOMAIN asks = Askers /\ {"work", "base"} \subseteq DOMAIN asks[c] /\ raced' = raced
    BY <1>7 DEF ChatRec, Turned, Listen, Answer
  <2>1. CASE Listen(c)
    <3>1. holder = None /\ holder' = c /\ history' = Append(history, Entry("user", c))
      BY <2>1 DEF Listen
    <3>2. DOMAIN asks' = Askers /\ (\A d \in Askers \ {c} : asks'[d] = asks[d])
          /\ {"work", "base"} \subseteq DOMAIN asks'[c] /\ asks'[c].work = "working"
      BY <2>0, <2>1 DEF Listen
    <3>3. \A d \in Askers : Turned(d)'
      BY <1>3, <3>1, <3>2
    <3>4. Entry("user", c) \in Said
      BY DEF Entry, Said
    <3>5. history' \in Seq(Said)
      BY <3>1, <3>4 DEF ChatRec
    <3>6. ~raced' => TurnsTogether' /\ LastTurn'
      BY <2>0, <3>1, QuestionKeeps, ChatAssumption DEF ChatRec
    <3> QED
      BY <2>0, <3>2, <3>3, <3>5, <3>6 DEF ChatRec
  <2>2. CASE Answer(c)
    <3>1. holder = c /\ holder' = None /\ history' = Append(history, Entry("assistant", c))
      BY <2>2 DEF Answer, ChatRec, Turned
    <3>2. DOMAIN asks' = Askers /\ (\A d \in Askers \ {c} : asks'[d] = asks[d])
          /\ {"work", "base"} \subseteq DOMAIN asks'[c] /\ asks'[c].work = "done"
      BY <2>0, <2>2 DEF Answer
    <3>3. \A d \in Askers : Turned(d)'
      BY <1>3, <3>1, <3>2
    <3>4. Entry("assistant", c) \in Said
      BY DEF Entry, Said
    <3>5. history' \in Seq(Said)
      BY <3>1, <3>4 DEF ChatRec
    <3>6. ~raced' => TurnsTogether' /\ LastTurn'
      BY <2>0, <3>1, AnswerKeeps, ChatAssumption DEF ChatRec
    <3> QED
      BY <2>0, <3>2, <3>3, <3>5, <3>6 DEF ChatRec
  <2> QED
    BY <1>7, <2>1, <2>2
<1> QED
  BY <1>1, <1>2, <1>4, <1>5, <1>6, <1>7 DEF ChatNext

\* However many requests to the copilot overlap, whatever pages are closed
\* and whenever the history is reset: questions and answers stay together in
\* its memory, if no append of an old conversation lost another one.
THEOREM TurnsStayTogether == ChatSpec => []TurnsTogether
<1>1. ChatRec /\ [ChatNext]_chatVars => ChatRec'
  BY ChatStepRec
<1>2. ChatRec => TurnsTogether
  BY DEF ChatRec, TurnsTogether
<1> QED
  BY <1>1, <1>2, ChatInitRec, PTL DEF ChatSpec
-----------------------------------------------------------------------------
(***************************************************************************)
(* The reply of a request.  What is in the channel and what the flow has   *)
(* heard make up what SendMessage did, for each kind of event.             *)
(***************************************************************************)
Finds(h, type, events) ==
    h = [i \in 0 .. Len(events) |-> IF i = 0 THEN <<>> ELSE Collect(h[i - 1], type, events[i])]

Finding(type, events) == CHOOSE h : Finds(h, type, events)

\* OfType, event by event.
LEMMA FindingExists ==
    ASSUME NEW type, NEW events, Len(events) \in Nat
    PROVE  \E h : Finds(h, type, events)
<1> DEFINE Up(n) == \E h : h = [i \in 0 .. n |-> IF i = 0 THEN <<>> ELSE Collect(h[i - 1], type, events[i])]
           T == {n \in Nat : Up(n)}
<1>1. Up(0)
  <2> WITNESS [i \in 0 .. 0 |-> <<>>]
  <2> QED
    OBVIOUS
<1>2. ASSUME NEW n \in Nat, Up(n) PROVE Up(n + 1)
  <2>1. PICK h : h = [i \in 0 .. n |-> IF i = 0 THEN <<>> ELSE Collect(h[i - 1], type, events[i])]
    BY <1>2
  <2> DEFINE g == [i \in 0 .. n + 1 |-> IF i = 0 THEN <<>> ELSE Collect(h[i - 1], type, events[i])]
  <2>2. \A i \in 0 .. n + 1 : i # 0 => i - 1 \in 0 .. n
    OBVIOUS
  <2>3. \A i \in 0 .. n : g[i] = h[i]
    <3>1. \A i \in 0 .. n : h[i] = IF i = 0 THEN <<>> ELSE Collect(h[i - 1], type, events[i])
      BY <2>1
    <3> QED
      BY <3>1
  <2>4. g = [i \in 0 .. n + 1 |-> IF i = 0 THEN <<>> ELSE Collect(g[i - 1], type, events[i])]
    BY <2>2, <2>3
  <2> QED
    BY <2>4
<1>3. 0 \in T /\ \A n \in Nat : n \in T => n + 1 \in T
  <2> HIDE DEF Up
  <2> QED
    BY <1>1, <1>2
<1>4. \A n \in Nat : n \in T
  <2> HIDE DEF T
  <2> QED
    BY <1>3, Induction
<1>5. Up(Len(events))
  <2> HIDE DEF Up
  <2> QED
    BY <1>4
<1> QED
  BY <1>5 DEF Finds

LEMMA FindingStep ==
    ASSUME NEW type, NEW events, Len(events) \in Nat
    PROVE  /\ OfType(type, events) = Finding(type, events)[Len(events)]
           /\ Finding(type, events)[0] = <<>>
           /\ \A i \in 1 .. Len(events) :
                 Finding(type, events)[i] = Collect(Finding(type, events)[i - 1], type, events[i])
<1> DEFINE F == Finding(type, events)
<1>1. F = [i \in 0 .. Len(events) |-> IF i = 0 THEN <<>> ELSE Collect(F[i - 1], type, events[i])]
  <2>1. Finds(F, type, events)
    BY FindingExists, Zenon DEF Finding
  <2> QED
    BY <2>1 DEF Finds
<1>2. OfType(type, events) = F[Len(events)]
  BY DEF OfType, Finding, Finds
<1> HIDE DEF F
<1>3. F[0] = <<>>
  BY <1>1
<1>4. \A i \in 1 .. Len(events) : F[i] = Collect(F[i - 1], type, events[i])
  <2> SUFFICES ASSUME NEW i \in 1 .. Len(events) PROVE F[i] = Collect(F[i - 1], type, events[i])
    OBVIOUS
  <2>1. i \in 0 .. Len(events) /\ i # 0
    OBVIOUS
  <2> QED
    BY <1>1, <2>1 DEF Collect
<1> QED
  BY <1>2, <1>3, <1>4 DEF F

LEMMA OfTypeNothing ==
    ASSUME NEW type
    PROVE  OfType(type, <<>>) = <<>>
<1>1. Len(<<>>) = 0
  OBVIOUS
<1> QED
  BY <1>1, FindingStep

\* One more event.
LEMMA OfTypeAppend ==
    ASSUME NEW type, NEW s \in Seq(Events), NEW e \in Events
    PROVE  OfType(type, Append(s, e)) = Collect(OfType(type, s), type, e)
<1> DEFINE w == Append(s, e)
           F == Finding(type, w)
           G == Finding(type, s)
<1>1. PICK l \in Nat : l = Len(s)
  OBVIOUS
<1>2. w \in Seq(Events) /\ Len(w) = l + 1 /\ w[l + 1] = e /\ \A i \in 1 .. l : w[i] = s[i]
  BY <1>1, AppendProperties
<1> HIDE DEF w
<1>3. /\ OfType(type, w) = F[l + 1] /\ F[0] = <<>>
      /\ \A i \in 1 .. l + 1 : F[i] = Collect(F[i - 1], type, w[i])
  <2>1. Len(w) \in Nat
    BY <1>2
  <2> QED
    BY <1>2, <2>1, FindingStep
<1>4. /\ OfType(type, s) = G[l] /\ G[0] = <<>>
      /\ \A i \in 1 .. l : G[i] = Collect(G[i - 1], type, s[i])
  BY <1>1, FindingStep
<1> HIDE DEF F, G
<1> DEFINE T == {i \in Nat : F[i] = G[i]}
<1>5. \A i \in 0 .. l : i \in T
  <2>1. 0 \in T
    BY <1>3, <1>4
  <2>2. ASSUME NEW i \in 0 .. l - 1, i \in T PROVE i + 1 \in T
    <3>1. i + 1 \in 1 .. l /\ i + 1 \in 1 .. l + 1 /\ (i + 1) - 1 = i /\ i \in Nat
      BY <1>1
    <3>2. F[i + 1] = Collect(F[i], type, w[i + 1]) /\ G[i + 1] = Collect(G[i], type, s[i + 1])
      BY <1>3, <1>4, <3>1
    <3>3. F[i] = G[i] /\ w[i + 1] = s[i + 1]
      BY <1>2, <2>2, <3>1
    <3> QED
      BY <3>1, <3>2, <3>3
  <2> HIDE DEF T
  <2> QED
    BY <1>1, <2>1, <2>2, InductionUpTo
<1>6. F[l] = G[l]
  BY <1>1, <1>5
<1>7. l + 1 \in 1 .. l + 1 /\ (l + 1) - 1 = l
  BY <1>1
<1>8. F[l + 1] = Collect(F[l], type, e)
  BY <1>2, <1>3, <1>7
<1>9. OfType(type, w) = Collect(OfType(type, s), type, e)
  BY <1>3, <1>4, <1>6, <1>8
<1> QED
  BY <1>9 DEF w

LEMMA CollectIs ==
    ASSUME NEW type, NEW u \in Numbers, NEW e \in Events
    PROVE  /\ Collect(u, type, e) \in Numbers
           /\ Collect(u, type, e) = u \o Collect(<<>>, type, e)
           /\ Collect(<<>>, type, e) = IF e.type = type THEN <<e.of>> ELSE <<>>
<1>0. u \in Seq(Nat) /\ <<>> \in Seq(Nat) /\ u \o <<>> = u
  BY ConcatEmptySeq DEF Numbers
<1>1. e.of \in Nat
  BY ChatAssumption DEF Events
<1>2. Append(u, e.of) = u \o <<e.of>> /\ Append(u, e.of) \in Seq(Nat) /\ Append(<<>>, e.of) = <<e.of>>
  BY <1>0, <1>1, AppendIsConcat, AppendProperties
<1> QED
  BY <1>0, <1>2 DEF Collect, Numbers

\* What is found in two rows of events, one after the other.
LEMMA OfTypeConcat ==
    ASSUME NEW type, NEW s \in Seq(Events), NEW t \in Seq(Events)
    PROVE  /\ OfType(type, s) \in Numbers
           /\ OfType(type, s \o t) = OfType(type, s) \o OfType(type, t)
<1> DEFINE O(x) == OfType(type, x)
           Good(n) == \A v \in Seq(Events) : Len(v) = n =>
                         /\ O(v) \in Numbers
                         /\ O(s) \in Numbers => O(s \o v) = O(s) \o O(v)
           T == {n \in Nat : Good(n)}
<1>1. Good(0)
  <2> SUFFICES ASSUME NEW v \in Seq(Events), Len(v) = 0
               PROVE  O(v) \in Numbers /\ (O(s) \in Numbers => O(s \o v) = O(s) \o O(v))
    OBVIOUS
  <2>1. v = <<>> /\ s \o v = s
    BY EmptySeq, ConcatEmptySeq
  <2>2. O(v) = <<>>
    BY <2>1, OfTypeNothing
  <2> HIDE DEF O
  <2> QED
    BY <2>1, <2>2, ConcatEmptySeq, EmptySeq DEF Numbers
<1>2. ASSUME NEW n \in Nat, Good(n) PROVE Good(n + 1)
  <2> SUFFICES ASSUME NEW v \in Seq(Events), Len(v) = n + 1
               PROVE  O(v) \in Numbers /\ (O(s) \in Numbers => O(s \o v) = O(s) \o O(v))
    OBVIOUS
  <2>1. v # <<>>
    BY EmptySeq
  <2>2. PICK u \in Seq(Events), e \in Events : v = Append(u, e)
    BY <2>1, SequenceEmptyOrAppend
  <2>3. Len(u) = n
    BY <2>2, AppendProperties
  <2>4. O(u) \in Numbers /\ (O(s) \in Numbers => O(s \o u) = O(s) \o O(u))
    BY <1>2, <2>3
  <2>5. s \o v = Append(s \o u, e) /\ s \o u \in Seq(Events)
    BY <2>2
  <2>6. O(v) = Collect(O(u), type, e) /\ O(s \o v) = Collect(O(s \o u), type, e)
    BY <2>2, <2>5, OfTypeAppend
  <2> HIDE DEF O
  <2>7. O(v) \in Numbers
    <3> DEFINE x == O(u)
    <3>1. x \in Numbers /\ O(v) = Collect(x, type, e)
      BY <2>4, <2>6
    <3> HIDE DEF x
    <3>2. Collect(x, type, e) \in Numbers
      BY <3>1, CollectIs
    <3> QED
      BY <3>1, <3>2
  <2>8. ASSUME O(s) \in Numbers PROVE O(s \o v) = O(s) \o O(v)
    <3> DEFINE a == O(s)
               b == O(u)
               c == Collect(<<>>, type, e)
               ab == a \o b
               bc == b \o c
    <3>1. a \in Seq(Nat) /\ b \in Seq(Nat) /\ ab \in Seq(Nat)
      BY <2>4, <2>8, ConcatProperties DEF Numbers
    <3>2. c \in Seq(Nat)
      BY CollectIs, EmptySeq DEF Numbers
    <3>3. O(v) = bc /\ O(s \o v) = ab \o c
      <4>1. Collect(b, type, e) = b \o c
        BY <3>1, CollectIs DEF Numbers
      <4>2. Collect(ab, type, e) = ab \o c
        BY <3>1, CollectIs DEF Numbers
      <4> QED
        BY <2>4, <2>6, <2>8, <4>1, <4>2
    <3> HIDE DEF a, b, c, ab, bc
    <3>4. ab = a \o b /\ bc = b \o c
      BY DEF ab, bc
    <3>5. a \in Seq(Nat) /\ b \in Seq(Nat) /\ c \in Seq(Nat) /\ ab = a \o b /\ bc = b \o c
      BY <3>1, <3>2, <3>4
    <3>6. ab \o c = a \o bc
      BY <3>5, ConcatAssociative, SMTT(30)
    <3> QED
      BY <3>3, <3>6 DEF a
  <2> QED
    BY <2>7, <2>8
<1>3. \A n \in Nat : n \in T
  <2>1. 0 \in T /\ \A n \in Nat : n \in T => n + 1 \in T
    <3> HIDE DEF Good
    <3> QED
      BY <1>1, <1>2
  <2> HIDE DEF T
  <2> QED
    BY <2>1, Induction
<1>4. Len(s) \in T /\ Len(t) \in T
  <2>1. Len(s) \in Nat /\ Len(t) \in Nat
    OBVIOUS
  <2> HIDE DEF T
  <2> QED
    BY <1>3, <2>1
<1>5. Good(Len(s)) /\ Good(Len(t))
  BY <1>4
<1> HIDE DEF O
<1>6. O(s) \in Numbers
  BY <1>5
<1>7. O(s \o t) = O(s) \o O(t)
  BY <1>5, <1>6
<1> QED
  BY <1>6, <1>7 DEF O

LEMMA OfTypeOne ==
    ASSUME NEW type, NEW e \in Events
    PROVE  /\ <<e>> \in Seq(Events) /\ Len(<<e>>) = 1
           /\ OfType(type, <<e>>) = IF e.type = type THEN <<e.of>> ELSE <<>>
<1>1. <<>> \in Seq(Events) /\ <<>> \in Numbers /\ Append(<<>>, e) = <<e>>
  BY EmptySeq DEF Numbers
<1>2. OfType(type, Append(<<>>, e)) = Collect(OfType(type, <<>>), type, e)
  BY <1>1, OfTypeAppend
<1>3. OfType(type, <<e>>) = Collect(<<>>, type, e)
  BY <1>1, <1>2, OfTypeNothing
<1> QED
  BY <1>1, <1>3, CollectIs

\* Nothing is found of a type no event has.
LEMMA OfTypeNone ==
    ASSUME NEW type, NEW s \in Seq(Events), \A i \in 1 .. Len(s) : s[i].type # type
    PROVE  OfType(type, s) = <<>>
<1> DEFINE F == Finding(type, s)
           T == {i \in Nat : F[i] = <<>>}
<1>1. PICK l \in Nat : l = Len(s)
  OBVIOUS
<1>2. OfType(type, s) = F[l] /\ F[0] = <<>> /\ \A i \in 1 .. l : F[i] = Collect(F[i - 1], type, s[i])
  BY <1>1, FindingStep
<1> HIDE DEF F
<1>3. 0 \in T
  BY <1>2
<1>4. ASSUME NEW i \in 0 .. l - 1, i \in T PROVE i + 1 \in T
  <2>1. i + 1 \in 1 .. l /\ (i + 1) - 1 = i /\ i \in Nat
    BY <1>1
  <2>2. F[i + 1] = Collect(F[i], type, s[i + 1])
    BY <1>2, <2>1
  <2>3. s[i + 1].type # type /\ F[i] = <<>>
    BY <1>1, <1>4, <2>1
  <2> QED
    BY <2>1, <2>2, <2>3 DEF Collect
<1>5. \A i \in 0 .. l : i \in T
  <2> HIDE DEF T
  <2> QED
    BY <1>1, <1>3, <1>4, InductionUpTo
<1>6. F[l] = <<>>
  BY <1>1, <1>5
<1> QED
  BY <1>2, <1>6

(***************************************************************************)
(* The invariant of a request.                                             *)
(***************************************************************************)
Works == {"idle", "checked", "seeding", "waiting", "working", "done"}
Requests == [work : Works, page : {"open", "left", "answered"}, base : Seq(Said),
             made : EventLists, heard : EventLists, bridge : Seq(Events)]

\* What was heard and what is still in the channel is what was made.
Heeded(a) ==
    /\ a.made.calls   = Join(a.heard.calls, OfType("tool_start", a.bridge))
    /\ a.made.results = Join(a.heard.results, OfType("tool_end", a.bridge))
    /\ a.made.cards   = Join(a.heard.cards, OfType("card", a.bridge))

Answered(a) ==
    /\ a.heard.cards = a.made.cards
    /\ IsPrefix(a.heard.calls, a.made.calls) /\ IsPrefix(a.heard.results, a.made.results)

Replying(a) ==
    /\ a \in Requests /\ Len(a.bridge) <= Bridge
    /\ Len(a.made.results) <= Len(a.made.calls) /\ Len(a.made.cards) <= Len(a.made.calls)
    /\ a.work \notin {"working", "done"} => a.made = Nothing /\ a.heard = Nothing /\ a.bridge = <<>>
    /\ a.work = "working" => Len(a.bridge) <= 3 * Len(a.made.calls) + 1
    /\ a.page # "open" => a.bridge = <<>>
    /\ a.page = "open" => Heeded(a)
    /\ a.page = "answered" => a.work = "done" /\ Answered(a)

\* The invariant that steps keep.
ReplyRec ==
    /\ history \in Seq(Said) /\ holder \in Askers \cup {None} /\ world \in World /\ raced \in BOOLEAN
    /\ asks \in [Askers -> Requests] /\ \A c \in Askers : Replying(asks[c])
    /\ \A c \in Askers : holder = c <=> asks[c].work = "working"

LEMMA IndicesAre ==
    ASSUME NEW s
    PROVE  s \in Indices <=> s \in Seq(1 .. MaxTools) /\ Len(s) <= MaxTools
<1>0. MaxTools \in Nat
  BY ChatAssumption
<1>1. ASSUME s \in Indices PROVE s \in Seq(1 .. MaxTools) /\ Len(s) <= MaxTools
  <2>1. PICK n \in 0 .. MaxTools : s \in [1 .. n -> 1 .. MaxTools]
    BY <1>1 DEF Indices
  <2> QED
    BY <1>0, <2>1
<1>2. ASSUME s \in Seq(1 .. MaxTools), Len(s) <= MaxTools PROVE s \in Indices
  <2>1. Len(s) \in 0 .. MaxTools /\ s \in [1 .. Len(s) -> 1 .. MaxTools]
    BY <1>0, <1>2
  <2> QED
    BY <2>1 DEF Indices
<1> QED
  BY <1>1, <1>2

LEMMA IndicesGrow ==
    ASSUME NEW s \in Indices, NEW i \in 1 .. MaxTools, Len(s) < MaxTools
    PROVE  /\ s \in Numbers /\ Len(s) \in Nat
           /\ Append(s, i) \in Indices /\ Len(Append(s, i)) = Len(s) + 1
           /\ Append(s, i) = Join(s, <<i>>) /\ Join(s, <<>>) = s
<1>1. s \in Seq(1 .. MaxTools) /\ MaxTools \in Nat
  BY IndicesAre, ChatAssumption
<1>2. Append(s, i) \in Seq(1 .. MaxTools) /\ Len(Append(s, i)) = Len(s) + 1 /\ Len(s) \in Nat
  BY <1>1, AppendProperties
<1>3. Append(s, i) = s \o <<i>> /\ s \o <<>> = s
  BY <1>1, AppendIsConcat, ConcatEmptySeq
<1>4. s \in Seq(Nat)
  BY <1>1
<1>5. Append(s, i) \in Indices
  <2>1. Len(s) + 1 <= MaxTools
    BY <1>1, <1>2
  <2> QED
    BY <1>2, <2>1, IndicesAre
<1> QED
  BY <1>2, <1>3, <1>4, <1>5 DEF Join, Numbers

LEMMA IndicesOf ==
    ASSUME NEW s \in Indices
    PROVE  s \in Numbers /\ Len(s) \in Nat /\ Len(s) <= MaxTools
<1>1. s \in Seq(1 .. MaxTools) /\ MaxTools \in Nat /\ Len(s) <= MaxTools
  BY IndicesAre, ChatAssumption
<1>2. s \in Seq(Nat)
  BY <1>1
<1> QED
  BY <1>1, <1>2 DEF Numbers

\* What comes before the rest of some indices are indices.
LEMMA PrefixIs ==
    ASSUME NEW u \in Numbers, NEW v \in Numbers, NEW w \in Indices, w = Join(u, v)
    PROVE  u \in Indices /\ IsPrefix(u, w)
<1>1. w \in Seq(1 .. MaxTools) /\ Len(w) <= MaxTools /\ MaxTools \in Nat /\ w \in Seq(Nat)
  BY IndicesAre, IndicesOf, ChatAssumption DEF Numbers
<1>2. PICK l \in Nat, m \in Nat : l = Len(u) /\ m = Len(v)
  BY DEF Numbers
<1>3. Len(w) = l + m /\ \A i \in 1 .. l : w[i] = u[i]
  <2>1. u \in Seq(Nat) /\ v \in Seq(Nat) /\ w = Join(u, v)
    BY DEF Numbers
  <2>2. Len(w) = Len(u) + Len(v) /\ \A i \in 1 .. Len(u) : w[i] = u[i]
    BY ONLY <2>1, JoinedAs
  <2> QED
    BY <1>2, <2>2
<1>4. u \in Seq(1 .. MaxTools)
  <2>1. \A i \in 1 .. l : u[i] \in 1 .. MaxTools
    <3>1. \A i \in 1 .. l : i \in 1 .. Len(w)
      BY <1>2, <1>3
    <3> QED
      BY <1>1, <1>3, <3>1, ElementOfSeq
  <2>2. u = [i \in 1 .. l |-> u[i]]
    BY <1>2 DEF Numbers
  <2>3. [i \in 1 .. l |-> u[i]] \in Seq(1 .. MaxTools)
    BY <2>1
  <2> QED
    BY <2>2, <2>3
<1>5. l <= MaxTools /\ l <= Len(w)
  BY <1>1, <1>2, <1>3
<1>6. u \in Indices
  BY <1>2, <1>4, <1>5, IndicesAre
<1>7. SubSeq(u, 1, l) = SubSeq(w, 1, l)
  <2>1. u \in Seq(Nat) /\ 1 \in 1 .. Len(u) + 1 /\ 1 \in 1 .. Len(w) + 1 /\ l \in 1 - 1 .. Len(u)
        /\ l \in 1 - 1 .. Len(w) /\ l - 1 + 1 = l
    BY <1>2, <1>3 DEF Numbers
  <2>2. SubSeq(u, 1, l) \in Seq(Nat) /\ Len(SubSeq(u, 1, l)) = l
        /\ \A j \in 1 .. l : SubSeq(u, 1, l)[j] = u[j + 1 - 1]
    BY <2>1, SubSeqIs
  <2>3. SubSeq(w, 1, l) \in Seq(Nat) /\ Len(SubSeq(w, 1, l)) = l
        /\ \A j \in 1 .. l : SubSeq(w, 1, l)[j] = w[j + 1 - 1]
    BY <1>1, <2>1, SubSeqIs
  <2>4. \A j \in 1 .. l : SubSeq(u, 1, l)[j] = SubSeq(w, 1, l)[j]
    <3>1. \A j \in 1 .. l : j + 1 - 1 = j
      OBVIOUS
    <3> QED
      BY <1>3, <2>2, <2>3, <3>1
  <2> QED
    BY <2>2, <2>3, <2>4, SeqEqual
<1>8. IsPrefix(u, w)
  BY <1>2, <1>5, <1>7 DEF IsPrefix
<1> QED
  BY <1>6, <1>8

\* Events that fit are all in the channel; of others the first ones are.
LEMMA EmitIs ==
    ASSUME NEW a \in Requests, Len(a.bridge) <= Bridge, NEW events \in Seq(Events)
    PROVE  /\ a.page = "left" => Emit(a, events) = <<>>
           /\ Emit(a, events) \in Seq(Events) /\ Len(Emit(a, events)) <= Bridge
           /\ a.page # "left" /\ Len(a.bridge) + Len(events) <= Bridge =>
                 /\ Emit(a, events) = Join(a.bridge, events)
                 /\ Len(Emit(a, events)) = Len(a.bridge) + Len(events)
           /\ a.page # "left" =>
                 \E first \in Seq(Events) :
                    /\ Emit(a, events) = Join(a.bridge, first) /\ Len(first) <= Len(events)
                    /\ \A i \in 1 .. Len(first) : first[i] = events[i]
<1> DEFINE b == a.bridge
           all == Join(b, events)
<1>0. Bridge \in Nat
  BY ChatAssumption
<1>1. b \in Seq(Events)
  BY DEF Requests
<1>2. PICK l \in Nat, m \in Nat : l = Len(b) /\ m = Len(events)
  BY <1>1
<1>3. /\ all \in Seq(Events) /\ Len(all) = l + m
      /\ (\A i \in 1 .. l : all[i] = b[i]) /\ \A i \in 1 .. m : all[l + i] = events[i]
  <2>1. b \in Seq(Events) /\ events \in Seq(Events) /\ all = Join(b, events)
    BY <1>1
  <2> HIDE DEF b, all
  <2>2. /\ all \in Seq(Events) /\ Len(all) = Len(b) + Len(events)
        /\ (\A i \in 1 .. Len(b) : all[i] = b[i])
        /\ \A i \in 1 .. Len(events) : all[Len(b) + i] = events[i]
    BY ONLY <2>1, JoinedAs
  <2> QED
    BY <1>2, <2>2
<1>4. CASE a.page = "left"
  <2>1. Emit(a, events) = <<>>
    BY <1>4 DEF Emit
  <2> QED
    BY <1>0, <1>4, <2>1, EmptySeq
<1>5. CASE a.page # "left"
  <2> DEFINE n == IF l + m <= Bridge THEN l + m ELSE Bridge
             first == SubSeq(events, 1, n - l)
             e == Emit(a, events)
             af == Join(b, first)
  <2>1. e = SubSeq(all, 1, n)
    <3>1. e = SubSeq(all, 1, Min({Len(all), Bridge}))
      BY <1>5 DEF Emit, Join
    <3>2. Min({l + m, Bridge}) = n
      BY <1>0, MinOfTwo
    <3> HIDE DEF all, n, e
    <3> QED
      BY <1>3, <3>1, <3>2
  <2>2. n \in l .. l + m /\ n - l \in 0 .. m /\ n <= Bridge /\ (l + m <= Bridge => n = l + m)
    BY <1>0, <1>2
  <2> HIDE DEF n, all
  <2>3. e \in Seq(Events) /\ Len(e) = n /\ \A i \in 1 .. n : e[i] = all[i]
    <3>1. 1 \in 1 .. Len(all) + 1 /\ n \in 1 - 1 .. Len(all) /\ n - 1 + 1 = n
          /\ \A i \in 1 .. n : i + 1 - 1 = i
      BY <1>3, <2>2
    <3>2. SubSeq(all, 1, n) \in Seq(Events) /\ Len(SubSeq(all, 1, n)) = n - 1 + 1
          /\ \A i \in 1 .. n - 1 + 1 : SubSeq(all, 1, n)[i] = all[i + 1 - 1]
      BY <1>3, <3>1, SubSeqIs
    <3> QED
      BY <2>1, <3>1, <3>2
  <2>4. first \in Seq(Events) /\ Len(first) = n - l /\ \A i \in 1 .. n - l : first[i] = events[i]
    <3>1. 1 \in 1 .. Len(events) + 1 /\ n - l \in 1 - 1 .. Len(events) /\ (n - l) - 1 + 1 = n - l
          /\ \A i \in 1 .. n - l : i + 1 - 1 = i
      BY <1>2, <2>2
    <3>2. first \in Seq(Events) /\ Len(first) = (n - l) - 1 + 1
          /\ \A i \in 1 .. (n - l) - 1 + 1 : first[i] = events[i + 1 - 1]
      BY <3>1, SubSeqIs
    <3> HIDE DEF first
    <3> QED
      BY <3>1, <3>2
  <2> HIDE DEF e, first
  <2>5. /\ af \in Seq(Events) /\ Len(af) = l + (n - l)
        /\ (\A i \in 1 .. l : af[i] = b[i]) /\ \A i \in 1 .. n - l : af[l + i] = first[i]
    <3>1. b \in Seq(Events) /\ first \in Seq(Events) /\ af = Join(b, first)
      BY <1>1, <2>4
    <3> HIDE DEF af, b
    <3>2. /\ af \in Seq(Events) /\ Len(af) = Len(b) + Len(first)
          /\ (\A i \in 1 .. Len(b) : af[i] = b[i])
          /\ \A i \in 1 .. Len(first) : af[Len(b) + i] = first[i]
      BY ONLY <3>1, JoinedAs
    <3> QED
      BY <1>2, <2>4, <3>2
  <2> HIDE DEF af
  <2>6. e = af
    <3>1. \A i \in 1 .. n : e[i] = af[i]
      <4> SUFFICES ASSUME NEW i \in 1 .. n PROVE e[i] = af[i]
        OBVIOUS
      <4>1. CASE i <= l
        BY <1>3, <2>2, <2>3, <2>5, <4>1
      <4>2. CASE i > l
        <5>1. PICK j \in 1 .. n - l : i = l + j
          <6>1. i - l \in 1 .. n - l /\ i = l + (i - l)
            BY <1>2, <2>2, <4>2
          <6> QED
            BY <6>1
        <5>2. j \in 1 .. m
          BY <2>2
        <5> QED
          BY <1>3, <2>3, <2>4, <2>5, <5>1, <5>2
      <4> QED
        BY <1>2, <2>2, <4>1, <4>2
    <3>2. Len(af) = n
      BY <2>2, <2>5
    <3> QED
      BY <2>3, <2>5, <3>1, <3>2, SeqEqual
  <2>7. ASSUME l + m <= Bridge PROVE first = events
    <3>1. n - l = m
      BY <2>2, <2>7
    <3> QED
      BY <1>2, <2>4, <3>1, SeqEqual
  <2>8. e = Join(b, first) /\ Len(first) <= Len(events) /\ Len(e) = n /\ n <= Bridge
        /\ \A i \in 1 .. Len(first) : first[i] = events[i]
    <3>1. e = Join(b, first)
      BY <2>6 DEF af
    <3>2. n - l <= m /\ Len(e) = n /\ n <= Bridge
      BY <1>2, <2>2, <2>3
    <3>3. Len(first) <= Len(events) /\ \A i \in 1 .. Len(first) : first[i] = events[i]
      BY <1>2, <2>4, <3>2
    <3> HIDE DEF b
    <3> QED
      BY <3>1, <3>2, <3>3
  <2>9. l + m <= Bridge => e = Join(b, events) /\ Len(e) = l + m
    BY <2>2, <2>7, <2>8
  <2> QED
    BY <1>2, <1>5, <2>3, <2>4, <2>8, <2>9 DEF e
<1> QED
  BY <1>4, <1>5

\* Events behind those in the channel belong behind what these will bring.
LEMMA HeededMore ==
    ASSUME NEW type, NEW h \in Numbers, NEW b \in Seq(Events), NEW e \in Seq(Events), NEW m,
           m = Join(h, OfType(type, b))
    PROVE  Join(m, OfType(type, e)) = Join(h, OfType(type, Join(b, e)))
<1> DEFINE o == OfType(type, b)
           n == OfType(type, e)
           on == o \o n
<1>1. o \in Seq(Nat) /\ n \in Seq(Nat) /\ h \in Seq(Nat) /\ OfType(type, b \o e) = on
  BY OfTypeConcat DEF Numbers
<1> HIDE DEF o, n
<1>2. m = h \o o /\ on = o \o n
  BY DEF o, Join
<1> HIDE DEF on
<1>3. m \o n = h \o on
  <2>1. h \in Seq(Nat) /\ o \in Seq(Nat) /\ n \in Seq(Nat) /\ m = h \o o /\ on = o \o n
    BY <1>1, <1>2
  <2> QED
    BY <2>1, ConcatAssociative, SMTT(30)
<1> QED
  BY <1>1, <1>3 DEF Join, n

\* Events that fit leave the channel and the lists in step.
LEMMA Fed ==
    ASSUME NEW a, Replying(a), a.work \in {"waiting", "working"}, a.page # "answered",
           NEW events \in Seq(Events), NEW m \in EventLists,
           m.calls = Join(a.made.calls, OfType("tool_start", events)),
           m.results = Join(a.made.results, OfType("tool_end", events)),
           m.cards = Join(a.made.cards, OfType("card", events)),
           Len(m.results) <= Len(m.calls), Len(m.cards) <= Len(m.calls),
           Len(a.bridge) + Len(events) <= 3 * Len(m.calls) + 1
    PROVE  Replying([a EXCEPT !.work = "working", !.made = m, !.bridge = Emit(a, events)])
<1> DEFINE e == Emit(a, events)
           r == [a EXCEPT !.work = "working", !.made = m, !.bridge = e]
<1>1. a \in Requests /\ Len(a.bridge) <= Bridge /\ a.bridge \in Seq(Events)
      /\ a.heard \in EventLists /\ a.page \in {"open", "left"}
  BY DEF Replying, Requests
<1>2. /\ a.page = "left" => e = <<>>
      /\ e \in Seq(Events) /\ Len(e) <= Bridge
      /\ a.page # "left" /\ Len(a.bridge) + Len(events) <= Bridge =>
                 /\ e = Join(a.bridge, events)
                 /\ Len(e) = Len(a.bridge) + Len(events)
  BY <1>1, EmitIs
<1> HIDE DEF e
<1>3. Len(a.bridge) + Len(events) <= Bridge
  <2>1. Len(m.calls) \in Nat /\ Len(m.calls) <= MaxTools
    BY IndicesOf DEF EventLists
  <2>2. PICK p \in Nat, q \in Nat : p = Len(a.bridge) /\ q = Len(events)
    BY <1>1
  <2> QED
    BY <2>1, <2>2, ChatAssumption
<1>4. r \in Requests
  BY <1>1, <1>2 DEF Requests, Works
<1>5. r.work = "working" /\ r.made = m /\ r.bridge = e /\ r.page = a.page /\ r.heard = a.heard
  BY <1>1 DEF Requests
<1>6. ASSUME a.page = "open" PROVE Heeded(r)
  <2>1. e = Join(a.bridge, events) /\ Heeded(a)
    BY <1>2, <1>3, <1>6 DEF Replying
  <2>2. a.heard.calls \in Numbers /\ a.heard.results \in Numbers /\ a.heard.cards \in Numbers
    <3>1. a.heard.calls \in Indices /\ a.heard.results \in Indices /\ a.heard.cards \in Indices
      BY <1>1 DEF EventLists
    <3> QED
      BY <3>1, IndicesOf
  <2>3. m.calls = Join(a.heard.calls, OfType("tool_start", e))
    BY <1>1, <2>1, <2>2, HeededMore DEF Heeded
  <2>4. m.results = Join(a.heard.results, OfType("tool_end", e))
    BY <1>1, <2>1, <2>2, HeededMore DEF Heeded
  <2>5. m.cards = Join(a.heard.cards, OfType("card", e))
    BY <1>1, <2>1, <2>2, HeededMore DEF Heeded
  <2> HIDE DEF r
  <2> QED
    BY <1>5, <2>3, <2>4, <2>5 DEF Heeded
<1>7. Len(e) <= 3 * Len(m.calls) + 1
  <2>1. CASE a.page = "left"
    <3>1. Len(e) = 0 /\ Len(m.calls) \in Nat
      BY <1>2, <2>1, IndicesOf DEF EventLists
    <3> QED
      BY <3>1
  <2>2. CASE a.page # "left"
    BY <1>2, <1>3, <2>2
  <2> QED
    BY <2>1, <2>2
<1> HIDE DEF r
<1>8. Replying(r)
  BY <1>1, <1>2, <1>4, <1>5, <1>6, <1>7 DEF Replying
<1> QED
  BY <1>8 DEF r, e

\* The words of an answer are none of what the reply lists.
LEMMA Closed ==
    ASSUME NEW a, Replying(a), a.work = "working", NEW events \in Seq(Events),
           \A i \in 1 .. Len(events) : events[i].type \in {"chunk", "done"}
    PROVE  Replying([a EXCEPT !.work = "done", !.bridge = Emit(a, events)])
<1> DEFINE e == Emit(a, events)
           r == [a EXCEPT !.work = "done", !.bridge = e]
<1>1. a \in Requests /\ Len(a.bridge) <= Bridge /\ a.bridge \in Seq(Events)
      /\ a.heard \in EventLists /\ a.made \in EventLists /\ a.page \in {"open", "left"}
  BY DEF Replying, Requests
<1>2. /\ a.page = "left" => e = <<>>
      /\ e \in Seq(Events) /\ Len(e) <= Bridge
      /\ a.page # "left" =>
                 \E first \in Seq(Events) :
                    /\ e = Join(a.bridge, first) /\ Len(first) <= Len(events)
                    /\ \A i \in 1 .. Len(first) : first[i] = events[i]
  BY <1>1, EmitIs
<1> HIDE DEF e
<1>4. r \in Requests
  BY <1>1, <1>2 DEF Requests, Works
<1>5. r.work = "done" /\ r.made = a.made /\ r.bridge = e /\ r.page = a.page /\ r.heard = a.heard
  BY <1>1 DEF Requests
<1>6. ASSUME a.page = "open" PROVE Heeded(r)
  <2>1. PICK first \in Seq(Events) :
                    /\ e = Join(a.bridge, first) /\ Len(first) <= Len(events)
                    /\ \A i \in 1 .. Len(first) : first[i] = events[i]
    BY <1>2, <1>6
  <2>2. a.heard.calls \in Numbers /\ a.heard.results \in Numbers /\ a.heard.cards \in Numbers
        /\ a.made.calls \in Numbers /\ a.made.results \in Numbers /\ a.made.cards \in Numbers
    <3>1. a.heard.calls \in Indices /\ a.heard.results \in Indices /\ a.heard.cards \in Indices
          /\ a.made.calls \in Indices /\ a.made.results \in Indices /\ a.made.cards \in Indices
      BY <1>1 DEF EventLists
    <3> QED
      BY <3>1, IndicesOf
  <2>3. \A i \in 1 .. Len(first) : first[i].type \in {"chunk", "done"}
    <3>1. PICK p \in Nat, q \in Nat : p = Len(first) /\ q = Len(events)
      OBVIOUS
    <3>2. \A i \in 1 .. p : i \in 1 .. q
      BY <2>1, <3>1
    <3> QED
      BY <2>1, <3>1, <3>2
  <2>4. OfType("tool_start", first) = <<>> /\ OfType("tool_end", first) = <<>> /\ OfType("card", first) = <<>>
    <3>1. \A i \in 1 .. Len(first) : first[i].type # "tool_start"
      BY <2>3
    <3>2. \A i \in 1 .. Len(first) : first[i].type # "tool_end"
      BY <2>3
    <3>3. \A i \in 1 .. Len(first) : first[i].type # "card"
      BY <2>3
    <3> QED
      BY <3>1, <3>2, <3>3, OfTypeNone
  <2>5. \A w \in Numbers : Join(w, <<>>) = w
    BY ConcatEmptySeq DEF Numbers, Join
  <2>6. Heeded(a)
    BY <1>6 DEF Replying
  <2>7. a.made.calls = Join(a.heard.calls, OfType("tool_start", e))
    <3>1. Join(a.made.calls, OfType("tool_start", first)) = Join(a.heard.calls, OfType("tool_start", Join(a.bridge, first)))
      BY <1>1, <2>2, <2>6, HeededMore DEF Heeded
    <3> QED
      BY <2>1, <2>2, <2>4, <2>5, <3>1
  <2>8. a.made.results = Join(a.heard.results, OfType("tool_end", e))
    <3>1. Join(a.made.results, OfType("tool_end", first)) = Join(a.heard.results, OfType("tool_end", Join(a.bridge, first)))
      BY <1>1, <2>2, <2>6, HeededMore DEF Heeded
    <3> QED
      BY <2>1, <2>2, <2>4, <2>5, <3>1
  <2>9. a.made.cards = Join(a.heard.cards, OfType("card", e))
    <3>1. Join(a.made.cards, OfType("card", first)) = Join(a.heard.cards, OfType("card", Join(a.bridge, first)))
      BY <1>1, <2>2, <2>6, HeededMore DEF Heeded
    <3> QED
      BY <2>1, <2>2, <2>4, <2>5, <3>1
  <2> HIDE DEF r
  <2> QED
    BY <1>5, <2>7, <2>8, <2>9 DEF Heeded
<1> HIDE DEF r
<1>8. Replying(r)
  BY <1>1, <1>2, <1>4, <1>5, <1>6 DEF Replying
<1> QED
  BY <1>8 DEF r, e

\* The first event in the channel moves from there to the reply.
LEMMA HearOne ==
    ASSUME NEW type, NEW h \in Numbers, NEW b \in Seq(Events), b # <<>>,
           NEW w \in Indices, w = Join(h, OfType(type, b))
    PROVE  /\ Collect(h, type, Head(b)) \in Indices
           /\ w = Join(Collect(h, type, Head(b)), OfType(type, Tail(b)))
<1> DEFINE e == Head(b)
           t == Tail(b)
           o == OfType(type, <<e>>)
           n == OfType(type, t)
           ho == h \o o
           on == o \o n
<1>1. e \in Events /\ t \in Seq(Events) /\ <<e>> \o t = b /\ <<e>> \in Seq(Events)
  <2>1. e \in Events /\ t \in Seq(Events) /\ <<e>> \in Seq(Events)
    OBVIOUS
  <2>2. <<e>> \o t = b
    OBVIOUS
  <2> QED
    BY <2>1, <2>2
<1> HIDE DEF e, t
<1>2. o \in Seq(Nat) /\ n \in Seq(Nat) /\ OfType(type, b) = on
  BY <1>1, OfTypeConcat DEF Numbers
<1>3. Collect(h, type, e) = ho
  <2>1. Collect(h, type, e) = h \o Collect(<<>>, type, e)
        /\ Collect(<<>>, type, e) = IF e.type = type THEN <<e.of>> ELSE <<>>
    BY <1>1, CollectIs
  <2>2. o = IF e.type = type THEN <<e.of>> ELSE <<>>
    BY <1>1, OfTypeOne
  <2> QED
    BY <2>1, <2>2
<1> HIDE DEF o, n
<1>4. h \in Seq(Nat) /\ o \in Seq(Nat) /\ n \in Seq(Nat) /\ ho = h \o o /\ on = o \o n
  BY <1>2 DEF Numbers
<1> HIDE DEF ho, on
<1>5. ho \o n = h \o on /\ ho \in Seq(Nat)
  <2>1. ho \in Seq(Nat)
    BY <1>4, ConcatProperties
  <2> QED
    BY <1>4, <2>1, ConcatAssociative
<1>6. w = Join(ho, n) /\ ho \in Numbers /\ n \in Numbers
  BY <1>2, <1>4, <1>5 DEF Join, Numbers
<1>7. ho \in Indices
  BY <1>6, PrefixIs
<1> QED
  BY <1>3, <1>6, <1>7 DEF e, n, t

\* One event adds to the list of its type.
LEMMA HeardIs ==
    ASSUME NEW lists \in EventLists, NEW e \in Events
    PROVE  Heard(lists, e) = [calls   |-> Collect(lists.calls, "tool_start", e),
                              results |-> Collect(lists.results, "tool_end", e),
                              cards   |-> Collect(lists.cards, "card", e)]
  BY DEF Heard, Collect, EventLists

\* The loop of the flow takes an event.
LEMMA HeardKeeps ==
    ASSUME NEW a, Replying(a), a.page = "open", a.bridge # <<>>
    PROVE  Replying([a EXCEPT !.heard = Heard(a.heard, Head(a.bridge)), !.bridge = Tail(a.bridge)])
<1> DEFINE e == Head(a.bridge)
           t == Tail(a.bridge)
           l == Heard(a.heard, e)
           r == [a EXCEPT !.heard = l, !.bridge = t]
<1>1. a \in Requests /\ Len(a.bridge) <= Bridge /\ a.bridge \in Seq(Events)
      /\ a.heard \in EventLists /\ a.made \in EventLists /\ Heeded(a)
  BY DEF Replying, Requests
<1>2. e \in Events /\ t \in Seq(Events) /\ Len(t) = Len(a.bridge) - 1 /\ Len(a.bridge) \in Nat
  BY <1>1
<1>3. a.heard.calls \in Numbers /\ a.heard.results \in Numbers /\ a.heard.cards \in Numbers
      /\ a.made.calls \in Indices /\ a.made.results \in Indices /\ a.made.cards \in Indices
  <2>1. a.heard.calls \in Indices /\ a.heard.results \in Indices /\ a.heard.cards \in Indices
        /\ a.made.calls \in Indices /\ a.made.results \in Indices /\ a.made.cards \in Indices
    BY <1>1 DEF EventLists
  <2> QED
    BY <2>1, IndicesOf
<1>4. l = [calls |-> Collect(a.heard.calls, "tool_start", e),
           results |-> Collect(a.heard.results, "tool_end", e),
           cards |-> Collect(a.heard.cards, "card", e)]
  BY <1>1, <1>2, HeardIs
<1> HIDE DEF l
<1>5. l.calls \in Indices /\ a.made.calls = Join(l.calls, OfType("tool_start", t))
  BY <1>1, <1>3, <1>4, HearOne DEF Heeded
<1>6. l.results \in Indices /\ a.made.results = Join(l.results, OfType("tool_end", t))
  BY <1>1, <1>3, <1>4, HearOne DEF Heeded
<1>7. l.cards \in Indices /\ a.made.cards = Join(l.cards, OfType("card", t))
  BY <1>1, <1>3, <1>4, HearOne DEF Heeded
<1>8. l \in EventLists
  BY <1>4, <1>5, <1>6, <1>7 DEF EventLists
<1> HIDE DEF t, e
<1>9. r \in Requests
  BY <1>1, <1>2, <1>8 DEF Requests
<1>10. r.work = a.work /\ r.made = a.made /\ r.bridge = t /\ r.page = a.page /\ r.heard = l
  BY <1>1 DEF Requests
<1> HIDE DEF r
<1>11. Heeded(r)
  BY <1>5, <1>6, <1>7, <1>10 DEF Heeded
<1>12. a.work \in {"working", "done"}
  BY <1>1 DEF Replying, Requests, Works
<1>13. Len(t) <= Bridge /\ (a.work = "working" => Len(t) <= 3 * Len(a.made.calls) + 1)
  <2>1. Len(a.made.calls) \in Nat /\ Bridge \in Nat
    BY <1>3, IndicesOf, ChatAssumption
  <2> QED
    BY <1>1, <1>2, <2>1 DEF Replying
<1>14. Replying(r)
  <2>1. Len(a.made.results) <= Len(a.made.calls) /\ Len(a.made.cards) <= Len(a.made.calls)
    BY DEF Replying
  <2> QED
    BY <1>9, <1>10, <1>11, <1>12, <1>13, <2>1 DEF Replying
<1> QED
  BY <1>14 DEF r, l, t, e

\* The reply of a request whose SendMessage has returned.
LEMMA Completed ==
    ASSUME NEW a, Replying(a), a.page = "open", a.work = "done"
    PROVE  Replying([a EXCEPT !.page = "answered", !.bridge = <<>>,
                              !.heard = Filled(Drained(a.heard, a.bridge), a.made)])
<1> DEFINE d == Drained(a.heard, a.bridge)
           l == Filled(d, a.made)
           r == [a EXCEPT !.page = "answered", !.bridge = <<>>, !.heard = l]
<1>1. a \in Requests /\ Len(a.bridge) <= Bridge /\ a.bridge \in Seq(Events)
      /\ a.heard \in EventLists /\ a.made \in EventLists /\ Heeded(a)
  BY DEF Replying, Requests
<1>2. /\ a.heard.calls \in Indices /\ a.heard.results \in Indices /\ a.heard.cards \in Indices
      /\ a.made.calls \in Indices /\ a.made.results \in Indices /\ a.made.cards \in Indices
  BY <1>1 DEF EventLists
<1>3. a.heard.calls \in Numbers /\ a.heard.results \in Numbers /\ a.made.calls \in Numbers /\ a.made.results \in Numbers
      /\ OfType("tool_start", a.bridge) \in Numbers /\ OfType("tool_end", a.bridge) \in Numbers
  BY <1>1, <1>2, IndicesOf, OfTypeConcat
<1>4. d = [calls |-> a.heard.calls, results |-> a.heard.results, cards |-> a.made.cards]
  <2>1. a.heard.cards \o OfType("card", a.bridge) = a.made.cards
    BY <1>1 DEF Heeded, Join
  <2>2. d = [a.heard EXCEPT !.cards = a.made.cards]
    BY <2>1 DEF Drained
  <2>3. a.heard \in [calls : Indices, results : Indices, cards : Indices]
    BY <1>1 DEF EventLists
  <2> HIDE DEF d
  <2> QED
    BY <2>2, <2>3
<1> HIDE DEF d
<1>5. l = [calls |-> IF a.heard.calls = <<>> THEN a.made.calls ELSE a.heard.calls,
           results |-> IF a.heard.results = <<>> THEN a.made.results ELSE a.heard.results,
           cards |-> a.made.cards]
  <2>1. DOMAIN d = {"calls", "results", "cards"}
    BY <1>4
  <2>2. l = [f \in {"calls", "results", "cards"} |-> IF d[f] = <<>> THEN a.made[f] ELSE d[f]]
    BY <2>1 DEF Filled
  <2>3. l["calls"] = IF a.heard.calls = <<>> THEN a.made.calls ELSE a.heard.calls
    BY <1>4, <2>2
  <2>4. l["results"] = IF a.heard.results = <<>> THEN a.made.results ELSE a.heard.results
    BY <1>4, <2>2
  <2>5. l["cards"] = a.made.cards
    BY <1>4, <2>2
  <2>6. l = [f \in {"calls", "results", "cards"} |-> l[f]]
    BY <2>2
  <2> HIDE DEF l
  <2> QED
    BY <2>3, <2>4, <2>5, <2>6
<1> HIDE DEF l
<1>6. l \in EventLists
  BY <1>2, <1>5 DEF EventLists
<1>7. r \in Requests
  BY <1>1, <1>6, EmptySeq DEF Requests
<1>8. r.work = "done" /\ r.made = a.made /\ r.bridge = <<>> /\ r.page = "answered" /\ r.heard = l
  BY <1>1 DEF Requests
<1> HIDE DEF r
<1>9. IsPrefix(a.heard.calls, a.made.calls) /\ IsPrefix(a.heard.results, a.made.results)
  BY <1>1, <1>2, <1>3, PrefixIs DEF Heeded
<1>10. \A w \in Indices : IsPrefix(w, w)
  <2>1. \A w \in Indices : w \in Seq(Nat) /\ Len(w) \in Nat
    BY IndicesOf DEF Numbers
  <2> QED
    BY <2>1 DEF IsPrefix
<1>11. Answered(r)
  BY <1>2, <1>5, <1>8, <1>9, <1>10 DEF Answered
<1>12. Replying(r)
  <2>1. Len(a.made.results) <= Len(a.made.calls) /\ Len(a.made.cards) <= Len(a.made.calls)
        /\ Bridge \in Nat
    BY ChatAssumption DEF Replying
  <2> QED
    BY <1>7, <1>8, <1>11, <2>1 DEF Replying
<1> QED
  BY <1>12 DEF r, l, d

\* A page that is closed hears nothing more.
LEMMA Closing ==
    ASSUME NEW a, Replying(a), a.page = "open"
    PROVE  Replying([a EXCEPT !.page = "left", !.bridge = <<>>])
<1> DEFINE r == [a EXCEPT !.page = "left", !.bridge = <<>>]
<1>1. a \in Requests /\ a.made \in EventLists
  BY DEF Replying, Requests
<1>2. r \in Requests
  BY <1>1, EmptySeq DEF Requests
<1>3. r.work = a.work /\ r.made = a.made /\ r.bridge = <<>> /\ r.page = "left" /\ r.heard = a.heard
  BY <1>1 DEF Requests
<1>4. Len(a.made.calls) \in Nat /\ Bridge \in Nat
  BY <1>1, IndicesOf, ChatAssumption DEF EventLists
<1> HIDE DEF r
<1>5. Replying(r)
  BY <1>2, <1>3, <1>4 DEF Replying
<1> QED
  BY <1>5 DEF r

\* Each way a tool can end.
Ends == [world : World, card : BOOLEAN]

LEMMA EndsAre ==
    \A v \in World : /\ Shown(v) \in Ends /\ Plain(v) \in Ends /\ Failed(v) \in Ends
                     /\ \A f \in BOOLEAN : /\ [v EXCEPT !.found = f] \in World
                                           /\ [v EXCEPT !.touched = f] \in World
                                           /\ [v EXCEPT !.wished = f] \in World
<1> SUFFICES ASSUME NEW v \in World
             PROVE  /\ Shown(v) \in Ends /\ Plain(v) \in Ends /\ Failed(v) \in Ends
                    /\ \A f \in BOOLEAN : /\ [v EXCEPT !.found = f] \in World
                                          /\ [v EXCEPT !.touched = f] \in World
                                          /\ [v EXCEPT !.wished = f] \in World
  OBVIOUS
<1>1. TRUE \in BOOLEAN /\ FALSE \in BOOLEAN
  OBVIOUS
<1>2. Shown(v) \in Ends /\ Plain(v) \in Ends /\ Failed(v) \in Ends
  BY <1>1 DEF Shown, Plain, Failed, Ends
<1>3. \A f \in BOOLEAN : [v EXCEPT !.found = f] \in World /\ [v EXCEPT !.touched = f] \in World
                         /\ [v EXCEPT !.wished = f] \in World
  BY DEF World
<1> QED
  BY <1>2, <1>3

\* A tool leaves the project and the engine in one of their states.
LEMMA OutcomesAre ==
    ASSUME NEW w \in World, NEW out \in Outcomes(w)
    PROVE  out \in Ends
<1>1. TRUE \in BOOLEAN /\ FALSE \in BOOLEAN
  OBVIOUS
<1>2. \A v \in World : ExecuteLocalization(v) \subseteq Ends
  BY <1>1, EndsAre DEF ExecuteLocalization
<1>3. CASE out \in ScanRepository(w)
  BY <1>3, EndsAre DEF ScanRepository
<1>4. CASE out \in InspectString(w)
  BY <1>4, EndsAre DEF InspectString
<1>5. CASE out \in ExecuteLocalization(w) \cup TriggerJob(w)
  BY <1>1, <1>2, <1>5, EndsAre DEF TriggerJob
<1>6. CASE out \in ManageCheckpoints(w)
  <2>1. w.touched \in BOOLEAN
    BY DEF World
  <2> QED
    BY <1>1, <1>6, <2>1, EndsAre DEF ManageCheckpoints
<1>7. CASE out \in ManageConfig(w)
  BY <1>1, <1>7, EndsAre DEF ManageConfig
<1>8. CASE out \in PruneDeadKeys(w)
  BY <1>1, <1>8, EndsAre DEF PruneDeadKeys
<1>9. CASE out \in FindStrings(w) \cup PlanLocalization(w) \cup QueryJobs(w) \cup UpdateTranslationKey(w)
                   \cup VerifyTranslations(w) \cup ApplyPatch(w) \cup AnalyzeCompetitor(w)
                   \cup SimulateSERP(w) \cup WeaveCopy(w) \cup ScoutPersonas(w) \cup DiagnoseSystem(w)
  BY <1>9, EndsAre DEF FindStrings, PlanLocalization, QueryJobs, UpdateTranslationKey, VerifyTranslations,
              ApplyPatch, AnalyzeCompetitor, SimulateSERP, WeaveCopy, ScoutPersonas, DiagnoseSystem
<1> QED
  BY <1>3, <1>4, <1>5, <1>6, <1>7, <1>8, <1>9 DEF Outcomes

\* One request moves; the others keep what they have of the lock.
LEMMA RequestSteps ==
    ASSUME ReplyRec, NEW c \in Askers, NEW r, Replying(r), asks' = [asks EXCEPT ![c] = r],
           history' \in Seq(Said), holder' \in Askers \cup {None}, world' \in World, raced' \in BOOLEAN,
           holder' = c <=> r.work = "working",
           \A d \in Askers \ {c} : holder' = d <=> holder = d
    PROVE  ReplyRec'
<1>1. asks \in [Askers -> Requests] /\ r \in Requests
  BY DEF ReplyRec, Replying
<1>2. asks' \in [Askers -> Requests] /\ asks'[c] = r /\ \A d \in Askers \ {c} : asks'[d] = asks[d]
  BY <1>1
<1>3. \A d \in Askers : Replying(asks'[d])
  BY <1>2 DEF ReplyRec
<1>4. \A d \in Askers : holder' = d <=> asks'[d].work = "working"
  BY <1>2 DEF ReplyRec
<1>5. \A d \in Askers : Replying(asks[d])' <=> Replying(asks'[d])
  BY DEF Replying, Heeded, Answered
<1> QED
  BY <1>2, <1>3, <1>4, <1>5 DEF ReplyRec

\* A request that has made nothing.
LEMMA NothingIs ==
    /\ Nothing \in EventLists /\ Nothing.calls = <<>> /\ Nothing.results = <<>> /\ Nothing.cards = <<>>
    /\ Len(<<>>) = 0 /\ <<>> \in Indices /\ <<>> \in Seq(Events) /\ <<>> \in Seq(Said)
    /\ Join(<<>>, <<>>) = <<>> /\ \A t : OfType(t, <<>>) = <<>>
<1>1. <<>> \in Indices
  <2>1. <<>> \in Seq(1 .. MaxTools) /\ Len(<<>>) = 0 /\ 0 <= MaxTools
    BY EmptySeq, ChatAssumption
  <2> QED
    BY <2>1, IndicesAre
<1>2. Join(<<>>, <<>>) = <<>>
  BY EmptySeq, ConcatEmptySeq DEF Join
<1> QED
  BY <1>1, <1>2, EmptySeq, OfTypeNothing DEF Nothing, EventLists

LEMMA ChatStarts == ChatInit => ReplyRec
<1> SUFFICES ASSUME ChatInit PROVE ReplyRec
  OBVIOUS
<1>1. Idle \in Requests
  BY NothingIs DEF Idle, Requests, Works
<1>2. Replying(Idle)
  BY <1>1, NothingIs, ChatAssumption DEF Idle, Replying, Heeded
<1>3. history \in Seq(Said) /\ holder = None /\ world \in World /\ raced \in BOOLEAN
      /\ \A c \in Askers : asks[c] = Idle
  BY NothingIs DEF ChatInit, World
<1>4. asks \in [Askers -> Requests]
  BY <1>1 DEF ChatInit
<1>5. Idle.work = "idle"
  BY DEF Idle
<1> QED
  BY <1>2, <1>3, <1>4, <1>5, ChatAssumption DEF ReplyRec

\* Until it has the lock, a request keeps everything but what it is at.
LEMMA Waits ==
    ASSUME NEW a, Replying(a), a.work \notin {"working", "done"}, NEW at \in Works \ {"working", "done"},
           NEW base \in Seq(Said), NEW r, r = [a EXCEPT !.work = at, !.base = base]
    PROVE  Replying(r)
<1>1. a \in Requests /\ a.made = Nothing /\ a.heard = Nothing /\ a.bridge = <<>>
  BY DEF Replying
<1>2. r \in Requests
  BY <1>1 DEF Requests
<1>3. r.work = at /\ r.made = a.made /\ r.bridge = a.bridge /\ r.page = a.page /\ r.heard = a.heard
  BY <1>1 DEF Requests
<1>4. Heeded(r) <=> Heeded(a)
  BY <1>3 DEF Heeded
<1>5. Len(r.bridge) <= Bridge
  BY <1>3 DEF Replying
<1> QED
  BY <1>1, <1>2, <1>3, <1>4, <1>5 DEF Replying, Works

LEMMA EntryIs == \A role \in {"user", "assistant", "seed"}, c \in Askers : Entry(role, c) \in Said
  BY DEF Entry, Said

LEMMA EventIs ==
    ASSUME NEW t \in {"thought", "tool_start", "tool_end", "card", "chunk", "done"}, NEW i \in 0 .. MaxTools
    PROVE  Event(t, i) \in Events /\ Event(t, i).type = t /\ Event(t, i).of = i
  BY DEF Event, Events

\* Before the question: handleChatStream and the history of the page.
LEMMA SeedStep ==
    ASSUME ReplyRec, NEW c \in Askers, Ask(c) \/ SeedRead(c) \/ SeedWrite(c)
    PROVE  ReplyRec'
<1>1. Replying(asks[c]) /\ asks[c] \in Requests /\ asks \in [Askers -> Requests] /\ history \in Seq(Said)
      /\ holder \in Askers \cup {None} /\ world \in World /\ raced \in BOOLEAN
      /\ (holder = c <=> asks[c].work = "working")
  BY DEF ReplyRec
<1>2. asks[c].base \in Seq(Said)
  BY <1>1 DEF Requests
<1>3. CASE Ask(c)
  <2>1. PICK at \in {"waiting", "checked"} : asks' = [asks EXCEPT ![c].work = at]
    BY <1>3 DEF Ask
  <2> DEFINE r == [asks[c] EXCEPT !.work = at, !.base = asks[c].base]
  <2>2. asks' = [asks EXCEPT ![c] = r]
    BY <1>1, <2>1 DEF Requests
  <2>3. Replying(r)
    BY <1>1, <1>2, <1>3, Waits DEF Ask, Works
  <2>4. r.work = at
    BY <1>1 DEF Requests
  <2> HIDE DEF r
  <2> QED
    BY <1>1, <1>3, <2>2, <2>3, <2>4, RequestSteps DEF Ask
<1>4. CASE SeedRead(c)
  <2> DEFINE r == [asks[c] EXCEPT !.work = "seeding", !.base = history]
  <2>2. asks' = [asks EXCEPT ![c] = r]
    BY <1>1, <1>4 DEF Requests, SeedRead
  <2>3. Replying(r)
    BY <1>1, <1>4, Waits DEF SeedRead, Works
  <2>4. r.work = "seeding"
    BY <1>1 DEF Requests
  <2> HIDE DEF r
  <2> QED
    BY <1>1, <1>4, <2>2, <2>3, <2>4, RequestSteps DEF SeedRead
<1>5. CASE SeedWrite(c)
  <2> DEFINE r == [asks[c] EXCEPT !.work = "waiting", !.base = <<>>]
  <2>2. asks' = [asks EXCEPT ![c] = r]
    BY <1>1, <1>5 DEF Requests, SeedWrite
  <2>3. Replying(r)
    BY <1>1, <1>5, Waits, NothingIs DEF SeedWrite, Works
  <2>4. r.work = "waiting"
    BY <1>1 DEF Requests
  <2>5. history' \in Seq(Said) /\ raced' \in BOOLEAN
    BY <1>1, <1>2, <1>5, EntryIs, AppendProperties DEF SeedWrite
  <2> HIDE DEF r
  <2> QED
    BY <1>1, <1>5, <2>2, <2>3, <2>4, <2>5, RequestSteps DEF SeedWrite
<1> QED
  BY <1>3, <1>4, <1>5

\* A row of one event.
LEMMA OneEvent ==
    ASSUME NEW t \in {"thought", "tool_start", "tool_end", "card", "chunk", "done"}, NEW i \in 0 .. MaxTools
    PROVE  /\ <<Event(t, i)>> \in Seq(Events) /\ Len(<<Event(t, i)>>) = 1
           /\ \A type : OfType(type, <<Event(t, i)>>) = IF t = type THEN <<i>> ELSE <<>>
<1>1. PICK e \in Events : e = Event(t, i) /\ e.type = t /\ e.of = i
  BY EventIs
<1>2. /\ <<e>> \in Seq(Events) /\ Len(<<e>>) = 1
      /\ \A type : OfType(type, <<e>>) = IF e.type = type THEN <<e.of>> ELSE <<>>
  BY OfTypeOne
<1> QED
  BY <1>1, <1>2

\* SendMessage takes the lock.
LEMMA ListenStep ==
    ASSUME ReplyRec, NEW c \in Askers, Listen(c)
    PROVE  ReplyRec'
<1> DEFINE a == asks[c]
<1>1. Replying(a) /\ a \in Requests /\ asks \in [Askers -> Requests] /\ history \in Seq(Said)
      /\ holder = None /\ world \in World /\ raced \in BOOLEAN /\ None \notin Askers
      /\ a.work = "waiting" /\ world' = world /\ raced' = raced /\ holder' = c
  BY ChatAssumption DEF ReplyRec, Listen
<1>2. PICK thought \in {<<>>, <<Event("thought", 0)>>} :
         asks' = [asks EXCEPT ![c].work = "working", ![c].bridge = Emit(asks[c], thought)]
  BY DEF Listen
<1> DEFINE r == [a EXCEPT !.work = "working", !.made = a.made, !.bridge = Emit(a, thought)]
<1>3. asks' = [asks EXCEPT ![c] = r]
  BY <1>1, <1>2 DEF Requests
<1>4. r.work = "working"
  BY <1>1 DEF Requests
<1>5. a.made = Nothing /\ a.bridge = <<>> /\ a.page # "answered"
  BY <1>1 DEF Replying
<1>6. thought \in Seq(Events) /\ Len(thought) <= 1 /\ Len(thought) \in Nat
      /\ \A t \in {"tool_start", "tool_end", "card"} : OfType(t, thought) = <<>>
  <2>1. CASE thought = <<>>
    BY <2>1, NothingIs
  <2>2. CASE thought = <<Event("thought", 0)>>
    <3>1. 0 \in 0 .. MaxTools
      BY ChatAssumption
    <3>2. /\ thought \in Seq(Events) /\ Len(thought) = 1
          /\ \A t : OfType(t, thought) = IF "thought" = t THEN <<0>> ELSE <<>>
      BY <2>2, <3>1, OneEvent
    <3> QED
      BY <3>2
  <2> QED
    BY <1>2, <2>1, <2>2
<1>7. Replying(r)
  <2>1. Len(a.bridge) = 0 /\ Len(a.made.calls) = 0 /\ Len(a.made.results) = 0 /\ Len(a.made.cards) = 0
    BY <1>5, NothingIs
  <2>2. /\ a.made \in EventLists
        /\ a.made.calls = Join(a.made.calls, OfType("tool_start", thought))
        /\ a.made.results = Join(a.made.results, OfType("tool_end", thought))
        /\ a.made.cards = Join(a.made.cards, OfType("card", thought))
    BY <1>5, <1>6, NothingIs
  <2>3. /\ Len(a.made.results) <= Len(a.made.calls) /\ Len(a.made.cards) <= Len(a.made.calls)
        /\ Len(a.bridge) + Len(thought) <= 3 * Len(a.made.calls) + 1
    BY <1>6, <2>1
  <2>4. a.work \in {"waiting", "working"} /\ thought \in Seq(Events)
    BY <1>1, <1>6
  <2> HIDE DEF a
  <2> QED
    BY <1>1, <1>5, <2>2, <2>3, <2>4, Fed
<1>8. history' \in Seq(Said)
  BY <1>1, EntryIs, AppendProperties DEF Listen
<1> HIDE DEF r, a
<1> QED
  BY <1>1, <1>3, <1>4, <1>7, <1>8, RequestSteps

\* A start without a result.
LEMMA UnknownToolStep ==
    ASSUME ReplyRec, NEW c \in Askers, UnknownTool(c)
    PROVE  ReplyRec'
<1> DEFINE a == asks[c]
           i == Len(a.made.calls) + 1
           events == <<Event("tool_start", i)>>
           m == [a.made EXCEPT !.calls = Append(a.made.calls, i)]
           r == [a EXCEPT !.work = "working", !.made = m, !.bridge = Emit(a, events)]
<1>1. /\ Replying(a) /\ a \in Requests /\ asks \in [Askers -> Requests] /\ history \in Seq(Said)
      /\ holder \in Askers \cup {None} /\ world \in World /\ raced \in BOOLEAN
      /\ (holder = c <=> a.work = "working")
      /\ a.work = "working" /\ Len(a.made.calls) < MaxTools
      /\ world' = world /\ raced' = raced /\ holder' = holder /\ history' = history
      /\ asks' = [asks EXCEPT ![c].made.calls = Append(@, i), ![c].bridge = Emit(asks[c], events)]
  BY DEF ReplyRec, UnknownTool, More
<1>2. a.made \in [calls : Indices, results : Indices, cards : Indices] /\ a.page # "answered"
      /\ Len(a.made.results) <= Len(a.made.calls) /\ Len(a.made.cards) <= Len(a.made.calls)
      /\ Len(a.bridge) <= 3 * Len(a.made.calls) + 1 /\ Len(a.bridge) \in Nat
  BY <1>1 DEF Replying, Requests, EventLists
<1>3. /\ a.made.calls \in Indices /\ Len(a.made.calls) \in Nat
      /\ Len(a.made.results) \in Nat /\ Len(a.made.cards) \in Nat
  BY <1>2, IndicesOf
<1>4. i \in 1 .. MaxTools /\ i \in 0 .. MaxTools
  BY <1>1, <1>3, ChatAssumption, SMTT(30)
<1> HIDE DEF i
<1>5. /\ Append(a.made.calls, i) \in Indices /\ Len(Append(a.made.calls, i)) = Len(a.made.calls) + 1
      /\ Append(a.made.calls, i) = Join(a.made.calls, <<i>>)
  BY <1>1, <1>3, <1>4, IndicesGrow
<1>6. /\ Join(a.made.results, <<>>) = a.made.results /\ Join(a.made.cards, <<>>) = a.made.cards
  <2>1. a.made.results \in Seq(Nat) /\ a.made.cards \in Seq(Nat)
    BY <1>2, IndicesOf DEF Numbers
  <2> QED
    BY <2>1, ConcatEmptySeq DEF Join
<1>7. /\ m \in EventLists /\ m.calls = Append(a.made.calls, i)
      /\ m.results = a.made.results /\ m.cards = a.made.cards
  BY <1>2, <1>5 DEF EventLists
<1>8. /\ events \in Seq(Events) /\ Len(events) = 1
      /\ OfType("tool_start", events) = <<i>> /\ OfType("tool_end", events) = <<>> /\ OfType("card", events) = <<>>
  BY <1>4, OneEvent
<1>9. asks' = [asks EXCEPT ![c] = r]
  BY <1>1 DEF Requests
<1> HIDE DEF events, m
<1>10. r.work = "working"
  BY <1>1 DEF Requests
<1>11. Replying(r)
  <2>1. Len(a.bridge) + Len(events) <= 3 * Len(m.calls) + 1
        /\ Len(m.results) <= Len(m.calls) /\ Len(m.cards) <= Len(m.calls)
    BY <1>2, <1>3, <1>5, <1>7, <1>8
  <2>2. /\ m.calls = Join(a.made.calls, OfType("tool_start", events))
        /\ m.results = Join(a.made.results, OfType("tool_end", events))
        /\ m.cards = Join(a.made.cards, OfType("card", events))
    BY <1>5, <1>6, <1>7, <1>8
  <2> HIDE DEF a
  <2> QED
    BY <1>1, <1>2, <1>7, <1>8, <2>1, <2>2, Fed
<1> HIDE DEF r, a
<1> QED
  BY <1>1, <1>9, <1>10, <1>11, RequestSteps

\* A tool's start, its card if it has one, and its result all fit in the
\* channel.
LEMMA RunToolStep ==
    ASSUME ReplyRec, NEW c \in Askers, RunTool(c)
    PROVE  ReplyRec'
<1> DEFINE a == asks[c]
           i == Len(a.made.calls) + 1
<1>0. PICK out \in Outcomes(world) :
          LET card == IF out.card THEN <<i>> ELSE <<>>
              events == <<Event("tool_start", i)>>
                        \o (IF out.card THEN <<Event("card", i)>> ELSE <<>>)
                        \o <<Event("tool_end", i)>>
          IN /\ world' = out.world
             /\ asks' = [asks EXCEPT
                  ![c].made = [calls |-> Append(@.calls, i), results |-> Append(@.results, i),
                               cards |-> @.cards \o card],
                  ![c].bridge = Emit(asks[c], events)]
  BY DEF RunTool
<1> DEFINE card == IF out.card THEN <<i>> ELSE <<>>
           shown == IF out.card THEN <<Event("card", i)>> ELSE <<>>
           begun == <<Event("tool_start", i)>>
           ended == <<Event("tool_end", i)>>
           events == (begun \o shown) \o ended
           m == [calls |-> Append(a.made.calls, i), results |-> Append(a.made.results, i),
                 cards |-> Join(a.made.cards, card)]
           r == [a EXCEPT !.work = "working", !.made = m, !.bridge = Emit(a, events)]
<1>1. /\ Replying(a) /\ a \in Requests /\ asks \in [Askers -> Requests] /\ history \in Seq(Said)
      /\ holder \in Askers \cup {None} /\ world \in World /\ raced \in BOOLEAN
      /\ (holder = c <=> a.work = "working")
      /\ a.work = "working" /\ Len(a.made.calls) < MaxTools
      /\ raced' = raced /\ holder' = holder /\ history' = history
  BY DEF ReplyRec, RunTool, More
<1>2. a.made \in [calls : Indices, results : Indices, cards : Indices] /\ a.page # "answered"
      /\ Len(a.made.results) <= Len(a.made.calls) /\ Len(a.made.cards) <= Len(a.made.calls)
      /\ Len(a.bridge) <= 3 * Len(a.made.calls) + 1 /\ Len(a.bridge) \in Nat
  BY <1>1 DEF Replying, Requests, EventLists
<1>3. /\ a.made.calls \in Indices /\ a.made.results \in Indices /\ a.made.cards \in Indices
      /\ Len(a.made.calls) \in Nat /\ Len(a.made.results) \in Nat /\ Len(a.made.cards) \in Nat
  BY <1>2, IndicesOf
<1>4. i \in 1 .. MaxTools /\ i \in 0 .. MaxTools
  BY <1>1, <1>3, ChatAssumption
<1>5. asks' = [asks EXCEPT ![c] = r] /\ world' \in World
  <2>1. world' \in World
    BY <1>0, <1>1, OutcomesAre DEF Ends
  <2>2. asks' = [asks EXCEPT ![c].made = [calls |-> Append(@.calls, i), results |-> Append(@.results, i),
                                          cards |-> @.cards \o card],
                             ![c].bridge = Emit(asks[c], events)]
    BY <1>0
  <2> DEFINE e == Emit(a, events)
  <2>3. asks' = [asks EXCEPT ![c].made = m, ![c].bridge = e]
    <3> HIDE DEF card, i, e
    <3> QED
      BY <1>1, <2>2 DEF Join, e
  <2> HIDE DEF m, e, i
  <2>4. asks' = [asks EXCEPT ![c] = [a EXCEPT !.work = "working", !.made = m, !.bridge = e]]
    BY <1>1, <2>3 DEF Requests
  <2> QED
    BY <2>1, <2>4 DEF e
<1> HIDE DEF i
<1>6. /\ begun \in Seq(Events) /\ Len(begun) = 1 /\ ended \in Seq(Events) /\ Len(ended) = 1
      /\ OfType("tool_start", begun) = <<i>> /\ OfType("tool_end", begun) = <<>> /\ OfType("card", begun) = <<>>
      /\ OfType("tool_start", ended) = <<>> /\ OfType("tool_end", ended) = <<i>> /\ OfType("card", ended) = <<>>
  BY <1>4, OneEvent
<1>7. /\ shown \in Seq(Events) /\ Len(shown) \in 0 .. 1
      /\ OfType("tool_start", shown) = <<>> /\ OfType("tool_end", shown) = <<>> /\ OfType("card", shown) = card
  <2>1. CASE out.card
    <3>1. card = <<i>> /\ shown = <<Event("card", i)>>
      BY <2>1
    <3> HIDE DEF card, shown
    <3>2. /\ shown \in Seq(Events) /\ Len(shown) = 1
          /\ \A t : OfType(t, shown) = IF "card" = t THEN <<i>> ELSE <<>>
      BY <1>4, <3>1, OneEvent
    <3> QED
      BY <3>1, <3>2
  <2>2. CASE ~out.card
    BY <2>2, NothingIs
  <2> QED
    BY <2>1, <2>2
<1>8. card \in Numbers /\ <<i>> \in Numbers /\ Len(card) \in 0 .. 1
  <2>1. i \in Nat /\ <<i>> \in Seq(Nat) /\ <<>> \in Seq(Nat) /\ Len(<<i>>) = 1 /\ Len(<<>>) = 0
    BY <1>4, EmptySeq
  <2> QED
    BY <2>1 DEF Numbers
<1>9. (card = <<i>> \/ card = <<>>)
  OBVIOUS
<1> HIDE DEF begun, shown, ended, card
<1>10. /\ events \in Seq(Events) /\ Len(events) <= 3 /\ Len(events) \in Nat
       /\ OfType("tool_start", events) = <<i>> /\ OfType("tool_end", events) = <<i>>
       /\ OfType("card", events) = card
  <2> DEFINE front == begun \o shown
  <2>1. front \in Seq(Events) /\ Len(front) = 1 + Len(shown)
    BY <1>6, <1>7, ConcatProperties, SMTT(30)
  <2>2. \A t : OfType(t, front) = OfType(t, begun) \o OfType(t, shown)
    BY <1>6, <1>7, OfTypeConcat
  <2>3. \A u \in Numbers : u \o <<>> = u /\ <<>> \o u = u
    BY ConcatEmptySeq DEF Numbers
  <2>4. <<>> \in Numbers
    BY EmptySeq DEF Numbers
  <2>5. OfType("tool_start", front) = <<i>> /\ OfType("tool_end", front) = <<>> /\ OfType("card", front) = card
    BY <1>6, <1>7, <1>8, <2>2, <2>3, <2>4
  <2> HIDE DEF front
  <2>6. events = front \o ended
    BY DEF front
  <2> HIDE DEF events
  <2>7. events \in Seq(Events) /\ Len(events) = Len(front) + 1
    BY <1>6, <2>1, <2>6, ConcatProperties
  <2>8. \A t : OfType(t, events) = OfType(t, front) \o OfType(t, ended)
    BY <1>6, <2>1, <2>6, OfTypeConcat
  <2>9. OfType("tool_start", events) = <<i>> /\ OfType("tool_end", events) = <<i>> /\ OfType("card", events) = card
    BY <1>6, <1>8, <2>3, <2>4, <2>5, <2>8
  <2>10. Len(events) <= 3 /\ Len(events) \in Nat
    <3>1. PICK n \in 0 .. 1 : n = Len(shown)
      BY <1>7
    <3>2. Len(events) = 1 + n + 1
      BY <2>1, <2>7, <3>1
    <3> QED
      BY <3>2
  <2> QED
    BY <2>7, <2>9, <2>10
<1> HIDE DEF events
<1>11. /\ Append(a.made.calls, i) \in Indices /\ Len(Append(a.made.calls, i)) = Len(a.made.calls) + 1
       /\ Append(a.made.calls, i) = Join(a.made.calls, <<i>>)
  BY <1>1, <1>3, <1>4, IndicesGrow
<1>12. /\ Append(a.made.results, i) \in Indices /\ Len(Append(a.made.results, i)) = Len(a.made.results) + 1
       /\ Append(a.made.results, i) = Join(a.made.results, <<i>>)
  <2>1. Len(a.made.results) < MaxTools
    BY <1>1, <1>2, <1>3, ChatAssumption
  <2> QED
    BY <1>3, <1>4, <2>1, IndicesGrow
<1>13. /\ Join(a.made.cards, card) \in Indices /\ Len(Join(a.made.cards, card)) <= Len(a.made.cards) + 1
  <2>1. Len(a.made.cards) < MaxTools
    BY <1>1, <1>2, <1>3, ChatAssumption
  <2>2. /\ Append(a.made.cards, i) \in Indices /\ Len(Append(a.made.cards, i)) = Len(a.made.cards) + 1
        /\ Append(a.made.cards, i) = Join(a.made.cards, <<i>>) /\ Join(a.made.cards, <<>>) = a.made.cards
    BY <1>3, <1>4, <2>1, IndicesGrow
  <2>3. CASE card = <<i>>
    BY <1>3, <2>2, <2>3
  <2>4. CASE card = <<>>
    BY <1>3, <2>2, <2>4
  <2> QED
    BY <1>9, <2>3, <2>4
<1>14. m \in EventLists
  BY <1>11, <1>12, <1>13 DEF EventLists
<1>15. m.calls = Append(a.made.calls, i) /\ m.results = Append(a.made.results, i) /\ m.cards = Join(a.made.cards, card)
  OBVIOUS
<1> HIDE DEF m
<1>16. r.work = "working"
  BY <1>1 DEF Requests
<1>17. Len(m.calls) = Len(a.made.calls) + 1 /\ Len(m.results) = Len(a.made.results) + 1
       /\ Len(m.cards) <= Len(a.made.cards) + 1 /\ Len(m.cards) \in Nat
  BY <1>11, <1>12, <1>13, <1>14, <1>15, IndicesOf DEF EventLists
<1>18. Replying(r)
  <2>1. Len(a.bridge) + Len(events) <= 3 * Len(m.calls) + 1
        /\ Len(m.results) <= Len(m.calls) /\ Len(m.cards) <= Len(m.calls)
    BY <1>2, <1>3, <1>10, <1>17, SMTT(30)
  <2>2. /\ m.calls = Join(a.made.calls, OfType("tool_start", events))
        /\ m.results = Join(a.made.results, OfType("tool_end", events))
        /\ m.cards = Join(a.made.cards, OfType("card", events))
    BY <1>10, <1>11, <1>12, <1>15
  <2> HIDE DEF a
  <2> QED
    BY <1>1, <1>2, <1>10, <1>14, <2>1, <2>2, Fed
<1> HIDE DEF r, a
<1> QED
  BY <1>1, <1>5, <1>16, <1>18, RequestSteps

\* Words that do not fit are lost, and none of what the reply lists.
LEMMA AnswerStep ==
    ASSUME ReplyRec, NEW c \in Askers, Answer(c)
    PROVE  ReplyRec'
<1> DEFINE a == asks[c]
<1>1. /\ Replying(a) /\ a \in Requests /\ asks \in [Askers -> Requests] /\ history \in Seq(Said)
      /\ holder \in Askers \cup {None} /\ world \in World /\ raced \in BOOLEAN /\ None \notin Askers
      /\ a.work = "working" /\ holder = c /\ holder' = None
      /\ world' = world /\ raced' = raced
  BY ChatAssumption DEF ReplyRec, Answer
<1>2. PICK n \in 0 .. MaxChunks :
          asks' = [asks EXCEPT ![c].work = "done",
                      ![c].bridge = Emit(asks[c], [i \in 1 .. n |-> Event("chunk", 0)]
                                            \o <<Event("done", 0)>>)]
  BY DEF Answer
<1> DEFINE chunks == [i \in 1 .. n |-> Event("chunk", 0)]
           ended == <<Event("done", 0)>>
           events == chunks \o ended
           r == [a EXCEPT !.work = "done", !.bridge = Emit(a, events)]
<1>3. asks' = [asks EXCEPT ![c] = r]
  BY <1>1, <1>2 DEF Requests
<1>4. r.work = "done"
  BY <1>1 DEF Requests
<1>5. n \in Nat /\ 0 \in 0 .. MaxTools
  BY <1>2, ChatAssumption
<1>6. /\ Event("chunk", 0) \in Events /\ Event("chunk", 0).type = "chunk"
      /\ Event("done", 0) \in Events /\ Event("done", 0).type = "done"
  BY <1>5, EventIs
<1>7. chunks \in Seq(Events) /\ Len(chunks) = n /\ \A i \in 1 .. n : chunks[i] = Event("chunk", 0)
  BY <1>5, <1>6
<1>8. ended \in Seq(Events) /\ Len(ended) = 1 /\ ended[1] = Event("done", 0)
  BY <1>6
<1> HIDE DEF chunks, ended
<1>9. /\ events \in Seq(Events) /\ Len(events) = n + 1
      /\ (\A i \in 1 .. n : events[i] = chunks[i]) /\ \A i \in 1 .. 1 : events[n + i] = ended[i]
  <2>1. events = chunks \o ended
    OBVIOUS
  <2> HIDE DEF events
  <2>2. /\ events \in Seq(Events) /\ Len(events) = Len(chunks) + Len(ended)
        /\ (\A i \in 1 .. Len(chunks) : events[i] = chunks[i])
        /\ \A i \in 1 .. Len(ended) : events[Len(chunks) + i] = ended[i]
    <3>1. PICK u, v, w : u = chunks /\ v = ended /\ w = events /\ w = Join(u, v)
      BY <2>1 DEF Join
    <3>2. u \in Seq(Events) /\ v \in Seq(Events) /\ w = Join(u, v)
      BY <1>7, <1>8, <3>1
    <3>3. /\ w \in Seq(Events) /\ Len(w) = Len(u) + Len(v)
          /\ (\A i \in 1 .. Len(u) : w[i] = u[i]) /\ \A i \in 1 .. Len(v) : w[Len(u) + i] = v[i]
      BY ONLY <3>2, JoinedAs
    <3> QED
      BY <3>1, <3>3
  <2> QED
    BY <1>7, <1>8, <2>2
<1>10. \A i \in 1 .. Len(events) : events[i].type \in {"chunk", "done"}
  <2> SUFFICES ASSUME NEW i \in 1 .. n + 1 PROVE events[i].type \in {"chunk", "done"}
    BY <1>9
  <2> HIDE DEF events
  <2>1. CASE i <= n
    BY <1>5, <1>6, <1>7, <1>9, <2>1
  <2>2. CASE i = n + 1
    BY <1>6, <1>8, <1>9, <2>2
  <2> QED
    BY <1>5, <2>1, <2>2
<1> HIDE DEF events
<1>11. Replying(r)
  <2> HIDE DEF a
  <2> QED
    BY <1>1, <1>9, <1>10, Closed
<1>12. history' \in Seq(Said)
  BY <1>1, EntryIs, AppendProperties DEF Answer
<1> HIDE DEF r, a
<1> QED
  BY <1>1, <1>3, <1>4, <1>11, <1>12, RequestSteps

\* What the flow and the page do.
LEMMA FlowStep ==
    ASSUME ReplyRec, NEW c \in Askers, Hear(c) \/ Finish(c) \/ LeaveChat(c)
    PROVE  ReplyRec'
<1> DEFINE a == asks[c]
<1>1. /\ Replying(a) /\ a \in Requests /\ asks \in [Askers -> Requests] /\ history \in Seq(Said)
      /\ holder \in Askers \cup {None} /\ world \in World /\ raced \in BOOLEAN
      /\ (holder = c <=> a.work = "working") /\ a.page = "open"
      /\ history' = history /\ holder' = holder /\ world' = world /\ raced' = raced
  BY DEF ReplyRec, Hear, Finish, LeaveChat
<1>2. CASE Hear(c)
  <2> DEFINE r == [a EXCEPT !.heard = Heard(a.heard, Head(a.bridge)), !.bridge = Tail(a.bridge)]
  <2>1. asks' = [asks EXCEPT ![c] = r] /\ a.bridge # <<>>
    BY <1>1, <1>2 DEF Requests, Hear
  <2>2. r.work = a.work
    BY <1>1 DEF Requests
  <2>3. Replying(r)
    <3> HIDE DEF a
    <3> QED
      BY <1>1, <2>1, HeardKeeps
  <2> HIDE DEF r, a
  <2> QED
    BY <1>1, <2>1, <2>2, <2>3, RequestSteps
<1>3. CASE Finish(c)
  <2> DEFINE r == [a EXCEPT !.page = "answered", !.bridge = <<>>,
                            !.heard = Filled(Drained(a.heard, a.bridge), a.made)]
  <2>1. asks' = [asks EXCEPT ![c] = r] /\ a.work = "done"
    BY <1>1, <1>3 DEF Requests, Finish
  <2>2. r.work = a.work
    BY <1>1 DEF Requests
  <2>3. Replying(r)
    <3> HIDE DEF a
    <3> QED
      BY <1>1, <2>1, Completed
  <2> HIDE DEF r, a
  <2> QED
    BY <1>1, <2>1, <2>2, <2>3, RequestSteps
<1>4. CASE LeaveChat(c)
  <2> DEFINE r == [a EXCEPT !.page = "left", !.bridge = <<>>]
  <2>1. asks' = [asks EXCEPT ![c] = r]
    BY <1>1, <1>4 DEF Requests, LeaveChat
  <2>2. r.work = a.work
    BY <1>1 DEF Requests
  <2>3. Replying(r)
    <3> HIDE DEF a
    <3> QED
      BY <1>1, Closing
  <2> HIDE DEF r, a
  <2> QED
    BY <1>1, <2>1, <2>2, <2>3, RequestSteps
<1> QED
  BY <1>2, <1>3, <1>4

LEMMA ReplyStep == ReplyRec /\ [ChatNext]_chatVars => ReplyRec'
<1> SUFFICES ASSUME ReplyRec, [ChatNext]_chatVars PROVE ReplyRec'
  OBVIOUS
<1>1. ASSUME NEW c \in Askers, Ask(c) \/ SeedRead(c) \/ SeedWrite(c) PROVE ReplyRec'
  BY <1>1, SeedStep
<1>2. ASSUME NEW c \in Askers, Listen(c) \/ UnknownTool(c) \/ RunTool(c) \/ Answer(c) PROVE ReplyRec'
  BY <1>2, ListenStep, UnknownToolStep, RunToolStep, AnswerStep
<1>3. ASSUME NEW c \in Askers, Hear(c) \/ Finish(c) \/ LeaveChat(c) PROVE ReplyRec'
  BY <1>3, FlowStep
<1>4. CASE ResetHistory \/ UNCHANGED chatVars
  <2>1. history' \in Seq(Said) /\ UNCHANGED <<holder, world, asks, raced>>
    BY <1>4, NothingIs DEF ResetHistory, chatVars, ReplyRec
  <2> QED
    BY <2>1 DEF ReplyRec, Replying, Heeded, Answered
<1> QED
  BY <1>1, <1>2, <1>3, <1>4 DEF ChatNext

LEMMA ReplyRecIs == ReplyRec => ChatInv
<1> SUFFICES ASSUME ReplyRec PROVE ChatTypeOK /\ ReplyFaithful
  BY DEF ChatInv
<1>1. \A c \in Askers : asks[c] \in Requests /\ Len(asks[c].bridge) <= Bridge
                        /\ (asks[c].page = "answered" => Answered(asks[c]))
  BY DEF ReplyRec, Replying
<1>2. ReplyFaithful
  BY <1>1 DEF ReplyFaithful, Answered
<1>3. \A c \in Askers :
          /\ asks[c].work \in {"idle", "checked", "seeding", "waiting", "working", "done"}
          /\ asks[c].page \in {"open", "left", "answered"}
          /\ asks[c].made \in EventLists /\ asks[c].heard \in EventLists
          /\ asks[c].bridge \in Seq(Events) /\ Len(asks[c].bridge) <= Bridge
          /\ asks[c].base \in Seq(Said)
  BY <1>1 DEF Requests, Works
<1>4. ChatTypeOK
  BY <1>3 DEF ChatTypeOK, ReplyRec
<1> QED
  BY <1>2, <1>4

\* ChatInv of Chat, for any number of requests, tools and words, whatever pages
\* are closed and whichever of its two channels the flow looks at first: a reply
\* has every card of its plan, and of calls and results the first ones, in order.
THEOREM RepliesAreFaithful == ChatSpec => []ChatInv
<1>1. ChatInit => ReplyRec
  BY ChatStarts
<1>2. ReplyRec /\ [ChatNext]_chatVars => ReplyRec'
  BY ReplyStep
<1>3. ReplyRec => ChatInv
  BY ReplyRecIs
<1> QED
  BY <1>1, <1>2, <1>3, PTL DEF ChatSpec
=============================================================================
