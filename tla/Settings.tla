-------------------------------- MODULE Settings --------------------------------
(***************************************************************************)
(* The settings of pkg/memory/config.go: one file for the person, one for  *)
(* each project, neither locked, both written in place.  The terminal      *)
(* interface loads them once and saves them after each choice, for         *)
(* whatever project is open then; a request to the web studio or a tool of *)
(* the chat loads, changes and saves.                                      *)
(*                                                                         *)
(* Three settings stand for all: a provider, always present in both files; *)
(* a custom command, absent from both when it is empty; an API key, in the *)
(* person's file only.  A value is the saver that chose it.  The copy of   *)
(* keys in the environment is left out.                                    *)
(***************************************************************************)
EXTENDS Local, Naturals, FiniteSets

CONSTANTS
    Savers,      \* programs and requests that change settings
    Default      \* the provider of LoadConfig's defaults

ASSUME SettingsAssumption == None \notin Savers /\ Default \notin Savers \cup {None}

VARIABLES
    global,      \* the person's file: its last complete contents, or None
    globalTorn,  \* it is truncated, being written
    own,         \* project -> contents of its file, or None
    ownTorn,     \* project -> it is truncated, being written
    savers,      \* the savers: kind, place, project, AppConfig, saves to come
    late         \* history: savers that read a truncated file, or in whose
                 \* time another one wrote a file they had read

settingsVars == <<global, globalTorn, own, ownTorn, savers, late>>
fileVars == <<global, globalTorn, own, ownTorn>>

Providers == Savers \cup {Default}
\* No entry for the key, an emptied one, or the key somebody typed.
Keys      == Savers \cup {None, ""}
Config  == [provider : Providers, command : Savers \cup {None}, key : Keys]
OwnFile == [provider : Providers, command : Savers \cup {None}]
SaverKinds == {"terminal", "web", "chat"}

ASSUME FileAssumption == None \notin Config \cup OwnFile

SettingsTypeOK ==
    /\ global \in Config \cup {None} /\ globalTorn \in BOOLEAN
    /\ own \in [Projects -> OwnFile \cup {None}] /\ ownTorn \in [Projects -> BOOLEAN]
    /\ savers \in [Savers ->
          [kind : SaverKinds, at : {"idle", "global", "project", "edit", "save", "fill",
                                    "overlay", "refill", "saved"},
           of : Projects, config : Config, saves : 0 .. 2]]
    /\ late \subseteq Savers
    /\ \A s \in Savers : savers[s].at \in {"save", "fill", "overlay", "refill"} =>
          savers[s].saves > 0

Defaults == [provider |-> Default, command |-> None, key |-> None]

SettingsInit ==
    /\ global = None /\ globalTorn = FALSE
    /\ own = [p \in Projects |-> None] /\ ownTorn = [p \in Projects |-> FALSE]
    /\ savers \in [Savers -> [kind : SaverKinds, at : {"idle"}, of : Projects,
                              config : {Defaults}, saves : {0}]]
    /\ late = {}

\* Mistake: the file is not read.
ReadDefaults == Defaults

\* json.Unmarshal over what is there; a file that is missing or truncated
\* changes nothing.  Empty commands are omitted, so they cover nothing.
ReadGlobal == IF globalTorn \/ global = None THEN Defaults ELSE global

\* Mistake: the file of the project is not read.
OverlayBare(c, p) == c

Overlay(c, p) ==
    IF ownTorn[p] \/ own[p] = None THEN c
    ELSE [c EXCEPT !.provider = own[p].provider,
                   !.command = IF own[p].command = None THEN @ ELSE own[p].command]

\* LoadConfig, in one look.
Loaded(p) == Overlay(ReadGlobal, p)

LoadGlobal(s) ==
    /\ savers[s].at = "idle"
    /\ savers' = [savers EXCEPT ![s].at = "project", ![s].config = ReadGlobal]
    /\ late' = IF globalTorn THEN late \cup {s} ELSE late
    /\ UNCHANGED fileVars

LoadProject(s) ==
    /\ savers[s].at = "project"
    /\ savers' = [savers EXCEPT ![s].at = "edit",
                                ![s].config = Overlay(savers[s].config, savers[s].of)]
    /\ late' = IF ownTorn[savers[s].of] THEN late \cup {s} ELSE late
    /\ UNCHANGED fileVars

Changed(s, config, saves) ==
    savers' = [savers EXCEPT ![s].at = "save", ![s].config = config, ![s].saves = saves]

\* SetProvider and SetAPIKey from the terminal interface, for the project
\* that is open now; it may empty a key.
SetFromTerminal(s) ==
    /\ savers[s].kind = "terminal" /\ savers[s].at \in {"edit", "saved"}
    /\ \E p \in Projects :
          savers' \in
             {[savers EXCEPT ![s].at = "save", ![s].of = p, ![s].saves = 1, ![s].config = c] :
                c \in {[savers[s].config EXCEPT !.provider = s],
                       [savers[s].config EXCEPT !.key = s],
                       [savers[s].config EXCEPT !.key = ""]}}
    /\ UNCHANGED <<fileVars, late>>

\* handleSaveSettings takes the commands as they come, an empty one too; it
\* saves once for a new key and once more.
SetFromWeb(s) ==
    /\ savers[s].kind = "web" /\ savers[s].at = "edit"
    /\ \E p \in {s, savers[s].config.provider}, c \in {s, None}, k \in {s, None} :
          Changed(s, [provider |-> p, command |-> c,
                      key |-> IF k = None THEN savers[s].config.key ELSE k],
                  IF k = None THEN 1 ELSE 2)
    /\ UNCHANGED <<fileVars, late>>

\* The chat's manage_config changes what its arguments name.
SetFromChat(s) ==
    /\ savers[s].kind = "chat" /\ savers[s].at = "edit"
    /\ \E p \in {s, savers[s].config.provider}, c \in {s, savers[s].config.command} :
          Changed(s, [savers[s].config EXCEPT !.provider = p, !.command = c], 1)
    /\ UNCHANGED <<fileVars, late>>

To(s, place) == savers' = [savers EXCEPT ![s].at = place]
Others(s) == {o \in Savers \ {s} : savers[o].at # "idle"}

\* SaveGlobal cannot open the file: the project's is not written either.
SaveFails(s) ==
    /\ savers[s].at = "save"
    /\ savers' = [savers EXCEPT ![s].at = IF savers[s].saves > 1 THEN "save" ELSE "saved",
                                ![s].saves = @ - 1]
    /\ late' = late \cup {s}
    /\ UNCHANGED fileVars

\* SaveGlobal: os.WriteFile truncates, then fills.
SaveGlobal(s) ==
    /\ savers[s].at = "save"
    /\ globalTorn' = TRUE
    /\ late' = late \cup Others(s)
    /\ To(s, "fill")
    /\ UNCHANGED <<global, own, ownTorn>>

FillGlobal(s) ==
    /\ savers[s].at = "fill"
    /\ global' = savers[s].config
    /\ globalTorn' = FALSE
    /\ late' = late \cup Others(s)
    /\ To(s, "overlay")
    /\ UNCHANGED <<own, ownTorn>>

SaveProject(s) ==
    /\ savers[s].at = "overlay"
    /\ ownTorn' = [ownTorn EXCEPT ![savers[s].of] = TRUE]
    /\ late' = late \cup Others(s)
    /\ To(s, "refill")
    /\ UNCHANGED <<global, globalTorn, own>>

\* Mistake: a project's file that is there is not written.
FillOnce(s) ==
    /\ savers[s].at = "refill"
    /\ own' = [own EXCEPT ![savers[s].of] =
                  IF @ # None THEN @
                  ELSE [provider |-> savers[s].config.provider, command |-> savers[s].config.command]]
    /\ ownTorn' = [ownTorn EXCEPT ![savers[s].of] = FALSE]
    /\ late' = late \cup Others(s)
    /\ savers' = [savers EXCEPT ![s].at = IF savers[s].saves > 1 THEN "save" ELSE "saved",
                                ![s].saves = @ - 1]
    /\ UNCHANGED <<global, globalTorn>>

\* The project's file gets no keys.
FillProject(s) ==
    /\ savers[s].at = "refill"
    /\ own' = [own EXCEPT ![savers[s].of] =
                  [provider |-> savers[s].config.provider, command |-> savers[s].config.command]]
    /\ ownTorn' = [ownTorn EXCEPT ![savers[s].of] = FALSE]
    /\ late' = late \cup Others(s)
    /\ savers' = [savers EXCEPT ![s].at = IF savers[s].saves > 1 THEN "save" ELSE "saved",
                                ![s].saves = @ - 1]
    /\ UNCHANGED <<global, globalTorn>>
-----------------------------------------------------------------------------
Save(s) ==
    SaveFails(s) \/ SaveGlobal(s) \/ FillGlobal(s) \/ SaveProject(s) \/ FillProject(s)

SettingsNext ==
    \E s \in Savers :
        \/ LoadGlobal(s) \/ LoadProject(s)
        \/ SetFromTerminal(s) \/ SetFromWeb(s) \/ SetFromChat(s)
        \/ Save(s)

SettingsSpec == SettingsInit /\ [][SettingsNext]_settingsVars
-----------------------------------------------------------------------------
(***************************************************************************)
(* Properties                                                              *)
(***************************************************************************)
\* An API key leaves the person's file only for one that is typed, or
\* emptied, or at the hand of a program whose copy of the settings is out of
\* date: no program with a current copy loses a key to a change of something
\* else.
KeysSurvive ==
    [][\A k \in Savers :
          (global # None /\ global.key = k) /\ global'.key # k =>
             \E s \in Savers :
                /\ savers[s].at = "fill" /\ savers'[s].at # "fill"
                /\ \/ global'.key = s
                   \/ global'.key = "" /\ savers[s].kind = "terminal"
                   \/ s \in late]_settingsVars

\* Who saves settings for a project, and meets nobody, finds them there: the
\* project's old file does not bring back what was changed.
SavedIsLoaded ==
    \A s \in Savers \ late :
        savers[s].at = "saved" => Loaded(savers[s].of) = savers[s].config

\* The provider of a project that has settings of its own is not changed by
\* savers for other projects, though each of them rewrites the person's file.
\* (Commands have no such shelter: an empty one is not in the project's file.)
ProjectsShielded ==
    [][\A p \in Projects :
          own[p] # None /\ ~ownTorn[p] /\ ~ownTorn'[p]
             /\ Loaded(p)'.provider # Loaded(p).provider =>
                \E s \in Savers : savers[s].of = p /\ savers'[s] # savers[s]]_settingsVars

\* What becomes of the files when interfaces save them, each on its own.
SettingsKept == [](SettingsTypeOK /\ SavedIsLoaded) /\ KeysSurvive /\ ProjectsShielded
=============================================================================
