------------------------------ MODULE MCCondaPack ------------------------------
(* An instance of CondaPack for TLC.                                        *)
EXTENDS CondaPack, TLC
CONSTANTS c1, c2, c3, p1, p2, f1, n1, n2

(* Two calls one after the other in one process and a third in another one, *)
(* over one directory; NO_CONTAINER was unset in one process only.          *)
ProcOfCall == c1 :> p1 @@ c2 :> p1 @@ c3 :> p2
FolderOfCall == [c \in Call |-> f1]
Outside == p1 :> Unset @@ p2 :> "False"

(* Names with slugs of their own.                                           *)
OwnSlug == [n \in Name |-> n]

(* Exchanging the two calls of p1, or the two names.                        *)
Symmetry == {p @@ q : p \in Permutations({c1, c2}), q \in Permutations(Name)}
=============================================================================
