-------------------------------- MODULE MCLocal --------------------------------
(***************************************************************************)
(* The local program for TLC: the terminal application, the settings of    *)
(* all its interfaces, the copilot and the patch engine.  The four share   *)
(* no variable, so a behaviour runs one of them, and x and y are savers of *)
(* settings in one and turns of the chat in another.                       *)
(***************************************************************************)
EXTENDS Terminal, Settings, Chat, Patches, TLC

CONSTANTS pa, pb, x, y

VARIABLE part

\* A file of tokens of these kinds, each of which says something of its own.
Written(kinds) == [i \in DOMAIN kinds |-> [kind |-> kinds[i], of |-> <<i>>]]

\* Two components; a callback in one; an import of two lines; a file that uses
\* the hook already, by the plan's import and by another one; a file with no
\* component.
NoComponent == Written(<<"text", "text", "code">>)
Shapes == {
    Written(<<"comment", "import", "block", "text", "text", "end", "block", "text", "end">>),
    Written(<<"client", "text", "block", "arrow", "text", "text", "end", "text", "end">>),
    Written(<<"open", "rest", "block", "text", "end">>),
    Written(<<"client", "i18n", "block", "hook", "text", "end", "block", "text", "end">>),
    Written(<<"client", "combined", "block", "hook", "code", "text", "end">>),
    NoComponent}

\* The parts that do not run begin in one state.
LocalInit ==
    /\ part \in {"terminal", "settings", "chat", "patches"}
    /\ TerminalInit /\ SettingsInit /\ ChatInit /\ PatchInit
    /\ part \in {"chat", "patches"} => open = pa
    /\ part # "settings" => \A s \in Savers : savers[s].kind = "web" /\ savers[s].of = open
    /\ part # "patches" => file = NoComponent

LocalNext ==
    /\ \/ /\ part = "terminal" /\ TerminalNext
          /\ UNCHANGED <<settingsVars, chatVars, patchVars>>
       \/ /\ part = "settings" /\ SettingsNext
          /\ UNCHANGED <<terminalVars, chatVars, patchVars>>
       \/ /\ part = "chat" /\ ChatNext
          /\ UNCHANGED <<terminalVars, settingsVars, patchVars>>
       \/ /\ part = "patches" /\ PatchNext
          /\ UNCHANGED <<terminalVars, settingsVars, chatVars>>
    /\ UNCHANGED part

LocalSpec == LocalInit /\ [][LocalNext]_<<terminalVars, settingsVars, chatVars, patchVars, part>>

Symmetry == Permutations(Projects) \cup Permutations(Savers)
=============================================================================
