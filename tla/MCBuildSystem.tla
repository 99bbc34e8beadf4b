--------------------------- MODULE MCBuildSystem ---------------------------
(* TLC instances of BuildSystem. *)
EXTENDS BuildSystem

AllOps == BuildOps
AllValidOps == {op \in BuildOps : op.what \notin Refused}
=============================================================================
