--------------------------------- MODULE Local ---------------------------------
(***************************************************************************)
(* What the front ends of the local program share: the directories it may  *)
(* be pointed at, and an absent value.                                     *)
(***************************************************************************)
CONSTANTS
    Projects,    \* directories with a project
    None         \* nil, the empty text, nobody

ASSUME LocalAssumption == Projects # {} /\ None \notin Projects
=============================================================================
