------------------------------- MODULE Deployment -------------------------------
(***************************************************************************)
(* What create_deployment (oci_mlflow/deployment.py) promises of the model *)
(* it stores in the catalog and the deployment it makes from it, seen from *)
(* outside: no files, no tags, no steps of the code.  ModelDeployment      *)
(* implements this specification.                                          *)
(***************************************************************************)
CONSTANT Call      \* the invocations of create_deployment

VARIABLES
  life,    \* what there is of each call's model and deployment
  result   \* how each call ended, or "open"

vars == <<life, result>>

(* "absent"     there is no model                                           *)
(* "stored"     the model is in the catalog, nothing was deployed from it   *)
(* "starting"   a deployment of the model is being made                     *)
(* "serving"    the deployment is active                                    *)
(* "down"       the deployment failed or was deleted, the model is there    *)
(* "withdrawn"  the model is deleted, and no deployment starts or serves    *)
(* "given_up"   the call stopped waiting for the service, or never heard of *)
(*              what it had asked for: model and deployment may be anything *)
Life == {"absent", "stored", "starting", "serving", "down", "withdrawn", "given_up"}
Result == {"open", "returned", "raised"}

(* What the call itself may bring about, and what happens to a deployment   *)
(* at the service.                                                          *)
CallMoves ==
  {<<"absent", "stored">>, <<"stored", "starting">>, <<"stored", "withdrawn">>,
   <<"down", "withdrawn">>}
  \cup {"stored", "starting", "serving", "down"} \X {"given_up"}
ServiceMoves ==
  {<<"starting", "serving">>, <<"starting", "down">>, <<"serving", "down">>}

Init ==
  /\ life = [c \in Call |-> "absent"]
  /\ result = [c \in Call |-> "open"]

Move(c, to) == life' = [life EXCEPT ![c] = to]

(* Only an open call changes anything; what it does may also fail it.       *)
Act(c) ==
  /\ result[c] = "open"
  /\ \E to \in Life : <<life[c], to>> \in CallMoves /\ Move(c, to)
  /\ result' \in {result, [result EXCEPT ![c] = "raised"]}

(* A call does not return with a model nothing was deployed from.           *)
Return(c) ==
  /\ result[c] = "open"
  /\ life[c] \notin {"absent", "stored"}
  /\ result' = [result EXCEPT ![c] = "returned"]
  /\ UNCHANGED life

(* A roll-back is the last thing a call does that has no deployment object. *)
WithdrawAndReturn(c) ==
  /\ result[c] = "open" /\ life[c] = "stored"
  /\ Move(c, "withdrawn")
  /\ result' = [result EXCEPT ![c] = "returned"]

Raise(c) ==
  /\ result[c] = "open"
  /\ result' = [result EXCEPT ![c] = "raised"]
  /\ UNCHANGED life

(* The service goes on with a deployment, whether the call is there or not. *)
Serve(c) ==
  /\ \E to \in Life : <<life[c], to>> \in ServiceMoves /\ Move(c, to)
  /\ UNCHANGED result

Next == \E c \in Call :
  Act(c) \/ Return(c) \/ WithdrawAndReturn(c) \/ Raise(c) \/ Serve(c)

Spec == Init /\ [][Next]_vars
=============================================================================
