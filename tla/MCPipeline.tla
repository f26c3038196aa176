------------------------------ MODULE MCPipeline ------------------------------
(* Instances of Pipeline for TLC. *)
EXTENDS Pipeline, TLC

CONSTANTS f1, f2, n1, es, r1, r2

SameName == f1 :> n1 @@ f2 :> n1
OneName  == f1 :> n1

Requested(mode, dry) == [mode |-> mode, dry |-> dry]
EachKind == {Requested("skip", FALSE), Requested("replace", FALSE), Requested("skip", TRUE)}
OneKind  == {Requested("skip", FALSE)}

RunSymmetry == Permutations(Runs)
=============================================================================
