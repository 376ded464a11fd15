--------------------------- MODULE MCModelDeployment ---------------------------
(* Instances of ModelDeployment for TLC: two calls that write their         *)
(* archives in one directory.                                               *)
EXTENDS ModelDeployment, TLC
CONSTANTS c1, c2, v1, v2, d1

SharedCwd == [c \in Call |-> d1]

(* One call by stage, which may come to mean the version of the other.      *)
StageAndVersion == c1 :> {Stage} @@ c2 :> {v2}

(* Each call for a version of its own.                                      *)
OwnVersion == c1 :> {v1} @@ c2 :> {v2}

=============================================================================
