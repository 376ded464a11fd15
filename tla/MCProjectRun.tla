------------------------------ MODULE MCProjectRun ------------------------------
(* Instances of ProjectRun for TLC.                                         *)
EXTENDS ProjectRun, TLC
CONSTANTS c1, c2, p1, securityToken

(* Two calls of one process.  One asks for a way to authenticate, the other *)
(* leaves it to the environment.                                            *)
OneProcess == [c \in Call |-> p1]
OneConfigured == c1 :> securityToken @@ c2 :> None
IamTypeOnly ==
  p1 :> [ocifs |-> None, iam |-> ResourcePrincipal, resourcePrincipal |-> FALSE]

(* Templates that say nothing of the MLflow run, and some that do.          *)
Bare(r) == [runtime |-> r, env |-> None, driver |-> None, executor |-> None]
OfCall1 ==
  {Bare("dataFlow"), [Bare("job") EXCEPT !.env = Elsewhere],
   [Bare("dataFlow") EXCEPT !.executor = Elsewhere]}
OfCall2 == {Bare("job"), Bare("dataFlowNotebook"), Bare("other")}
AllTemplates == OfCall1 \cup OfCall2
PerCall == c1 :> OfCall1 @@ c2 :> OfCall2

=============================================================================
