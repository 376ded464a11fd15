----------------------------- MODULE AccessDecision -----------------------------
(***************************************************************************)
(* What the authorizer function (authorizer/src) promises the gateway: it  *)
(* decides on each request once, by the groups its signer is in at that    *)
(* moment.  Authorizer implements this specification.                      *)
(***************************************************************************)
CONSTANTS
  Call,       \* invocations of the function
  Principal,  \* who may sign a request
  Group,      \* the groups of the tenancy
  GROUP_IDS,  \* the allowed groups
  None        \* nobody

VARIABLES
  signer,   \* who signed the request of each call, None if it proves nobody
  groups,   \* the groups of each principal
  answer,   \* "open", then "active", "refused" or "failed"
  subject   \* who was let in

vars == <<signer, groups, answer, subject>>

Allowed(c) == signer[c] # None /\ groups[signer[c]] \cap GROUP_IDS # {}

Init ==
  /\ signer \in [Call -> Principal \cup {None}]
  /\ groups \in [Principal -> SUBSET Group]
  /\ answer = [c \in Call |-> "open"]
  /\ subject = [c \in Call |-> None]

Answer(c, a) ==
  /\ answer[c] = "open"
  /\ answer' = [answer EXCEPT ![c] = a]
  /\ UNCHANGED <<signer, groups>>

(* The signer is let in, and nobody else.                                   *)
Admit(c) ==
  /\ Allowed(c)
  /\ Answer(c, "active")
  /\ subject' = [subject EXCEPT ![c] = signer[c]]

(* Only those who are not allowed in are refused.                           *)
Refuse(c) ==
  /\ ~Allowed(c)
  /\ Answer(c, "refused")
  /\ UNCHANGED subject

Fail(c) == Answer(c, "failed") /\ UNCHANGED subject

ChangeGroups ==
  /\ \E p \in Principal, g \in SUBSET Group : groups' = [groups EXCEPT ![p] = g]
  /\ UNCHANGED <<signer, answer, subject>>

Next == (\E c \in Call : Admit(c) \/ Refuse(c) \/ Fail(c)) \/ ChangeGroups

Spec == Init /\ [][Next]_vars
=============================================================================
