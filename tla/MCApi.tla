-------------------------------- MODULE MCApi --------------------------------
(***************************************************************************)
(* The requests of the two HTTP servers for TLC: the handlers of the cloud *)
(* server over the rows of one repository (CloudApi), its login and its    *)
(* installations (Accounts), and the local web studio (Studio).  The three *)
(* share no variable, so a behaviour runs one of them; of CloudApi it runs *)
(* the handlers of one menu, which share tables.                           *)
(***************************************************************************)
EXTENDS CloudApi, Accounts, Studio, TLC

CONSTANTS q1, q2, q3, k1, k2, gemini, openai, pa, pb, ann, bob, old, i1, org, r1

VARIABLE menu

Menus == {{"save", "quick", "config", "trigger"},
          {"cell", "copilot", "key", "translate", "reset"},
          {"cell", "key", "analyze", "strategy", "scout"},
          {"cell", "optimize", "apply", "reset"}}

OnLogin == i1 :> ann @@ org :> Nobody

\* The parts that do not run begin in one state; the studio with the project
\* pa, as well as with pb.
ServersInit ==
    /\ menu \in Menus \cup {{"accounts"}, {"studio"}}
    /\ ApiInit /\ AccountsInit /\ StudioInit
    /\ menu \notin Menus => settings = NoRow /\ strategy = NoRow
    /\ root = pa /\ (menu # {"studio"} => ~found.some)

MenuNext == /\ ApiNext
            /\ \A q \in Requests : reqs'[q].body # NoRow => reqs'[q].body.kind \in menu

ServersNext ==
    /\ \/ menu \in Menus /\ MenuNext /\ UNCHANGED <<accountVars, studioVars>>
       \/ menu = {"accounts"} /\ AccountsNext /\ UNCHANGED <<apiVars, studioVars>>
       \/ menu = {"studio"} /\ StudioNext /\ UNCHANGED <<apiVars, accountVars>>
    /\ UNCHANGED menu

ServersSpec == ServersInit /\ [][ServersNext]_<<apiVars, accountVars, studioVars, menu>>

Symmetry == Permutations(Requests)
=============================================================================
