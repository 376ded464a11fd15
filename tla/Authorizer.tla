------------------------------- MODULE Authorizer -------------------------------
(***************************************************************************)
(* The authorizer function in front of the tracking server                 *)
(* (authorizer/src): calls that authenticate a request, once per REST      *)
(* method, and look up the groups of its principal, while group            *)
(* memberships change.                                                     *)
(*                                                                         *)
(* A request is given by the names of its headers, the names its           *)
(* authorization header says were signed, the method it was signed for and *)
(* the principal who signed it.  The value of the header                   *)
(* "(request-target)" is a sequence of words.                              *)
(* Operators marked as mutants are faults a change of the code could bring *)
(* in; no specification here uses them.                                    *)
(***************************************************************************)
EXTENDS Naturals, Sequences

CONSTANTS
  Call,       \* invocations of the function
  Request,    \* the requests they may be given
  Principal,  \* who may sign a request
  Group,      \* the groups of the tenancy
  GROUP_IDS,  \* the allowed groups of the function's configuration
  None        \* nobody, no list of signed headers, no method

MLFLOW_REST_API_METHODS == <<"post", "get", "delete", "patch", "put">>
Method == {MLFLOW_REST_API_METHODS[i] : i \in 1..5}

HeaderName == {"date", "x-date", "(request-target)", "authorization"}

ASSUME ConstantsAssumption ==
  /\ None \notin Principal
  /\ GROUP_IDS \subseteq Group
  /\ \A q \in Request :
       /\ DOMAIN q = {"headers", "signed", "method", "by"}
       /\ q.headers \subseteq HeaderName
       /\ q.signed \in (SUBSET HeaderName) \cup {None}
       /\ q.method \in Method \cup {None}
       /\ q.by \in Principal

VARIABLES
  pc,        \* where each call is
  req,       \* its request
  target,    \* the value of "(request-target)" in the headers of the call
  tried,     \* how many methods it has tried
  principal, \* who the identity service said signed the request
  status,    \* the status of its response
  subject,   \* the subjectId of its response
  groups,    \* identity service: the groups of each principal
  outsiders  \* history: principals that were in no allowed group at some time

call == <<req, target, tried, principal>>
answer == <<status, subject>>
identity == <<groups, outsiders>>
vars == <<pc, call, answer, identity>>

Running == {"headers", "authn", "authz"}
Ended == {"answered", "error"}

Outsiders(g) == {p \in Principal : g[p] \cap GROUP_IDS = {}}

Goto(c, from, to) == pc[c] = from /\ pc' = [pc EXCEPT ![c] = to]

Init ==
  /\ pc = [c \in Call |-> "idle"]
  /\ req \in [Call -> Request]
  /\ target = [c \in Call |-> <<>>]
  /\ tried = [c \in Call |-> 0]
  /\ principal = [c \in Call |-> None]
  /\ status = [c \in Call |-> 0]
  /\ subject = [c \in Call |-> None]
  /\ groups \in [Principal -> SUBSET Group]
  /\ outsiders = Outsiders(groups)

-----------------------------------------------------------------------------
(* The gateway invokes the function.                                        *)
Begin(c) ==
  /\ Goto(c, "idle", "headers")
  /\ UNCHANGED <<call, answer, identity>>

(* extract_and_validate_headers: date may be given as x-date, and all       *)
(* headers that were signed, and the signature, have to be there.           *)
Headers(c) ==
  req[c].headers \cup (IF "x-date" \in req[c].headers THEN {"date"} ELSE {})
Required(c) == req[c].signed \cup {"authorization"}

Respond(c, s, who) ==
  /\ status' = [status EXCEPT ![c] = s]
  /\ subject' = [subject EXCEPT ![c] = who]

RefuseHeaders(c) ==
  /\ \/ "authorization" \notin Headers(c)
     \/ req[c].signed # None /\ ~(Required(c) \subseteq Headers(c))
  /\ Goto(c, "headers", "answered")
  /\ Respond(c, 401, None)
  /\ UNCHANGED <<call, identity>>

(* Exceptions no handler catches: a signature that does not say what was    *)
(* signed, and a request target that was not.                               *)
HeadersRaise(c) ==
  /\ "authorization" \in Headers(c)
  /\ \/ req[c].signed = None
     \/ /\ req[c].signed # None /\ Required(c) \subseteq Headers(c)
        /\ "(request-target)" \notin Required(c)
  /\ Goto(c, "headers", "error")
  /\ UNCHANGED <<call, answer, identity>>

AcceptHeaders(c) ==
  /\ req[c].signed # None
  /\ {"authorization", "(request-target)"} \subseteq Required(c)
  /\ Required(c) \subseteq Headers(c)
  /\ Goto(c, "headers", "authn")
  /\ target' = [target EXCEPT ![c] = <<"path">>]
  /\ UNCHANGED <<req, tried, principal, answer, identity>>

-----------------------------------------------------------------------------
(* The identity service confirms a signature for what was signed.           *)
Confirmed(c, t) == req[c].method # None /\ t = <<req[c].method, "path">>

TryTarget(c, t) ==
  /\ pc[c] = "authn" /\ tried[c] < Len(MLFLOW_REST_API_METHODS)
  /\ target' = [target EXCEPT ![c] = t]
  /\ principal' = [principal EXCEPT ![c] = IF Confirmed(c, t) THEN req[c].by ELSE @]
  /\ tried' = [tried EXCEPT ![c] = @ + 1]
  /\ UNCHANGED <<pc, req, answer, identity>>

(* Mutant: the method is put before what the last attempt left.             *)
AccumulateMethods(c) ==
  TryTarget(c, <<MLFLOW_REST_API_METHODS[tried[c] + 1]>> \o target[c])
(* do_authn with the next method; that nobody is confirmed is passed over.  *)
Authenticate(c) ==
  TryTarget(c, <<MLFLOW_REST_API_METHODS[tried[c] + 1], "path">>)

(* Mutant: the test of principal is left out.                               *)
AuthorizeAnybody(c) ==
  /\ tried[c] = Len(MLFLOW_REST_API_METHODS)
  /\ Goto(c, "authn", "authz")
  /\ UNCHANGED <<call, answer, identity>>
EndAuthn(c) ==
  /\ tried[c] = Len(MLFLOW_REST_API_METHODS)
  /\ \/ /\ principal[c] # None
        /\ Goto(c, "authn", "authz")
        /\ UNCHANGED answer
     \/ /\ principal[c] = None
        /\ Goto(c, "authn", "answered")
        /\ Respond(c, 401, None)
  /\ UNCHANGED <<call, identity>>

(* do_authz: filter_group_membership returns which of the allowed groups    *)
(* the principal is in now.                                                 *)
Allowed(c) == groups[principal[c]] \cap GROUP_IDS # {}

Grant(c) ==
  /\ Goto(c, "authz", "answered")
  /\ Allowed(c)
  /\ Respond(c, 200, principal[c])
  /\ UNCHANGED <<call, identity>>

(* Mutant: the exception is logged, and the response is that of success.    *)
LogOnly(c) ==
  /\ Goto(c, "authz", "answered")
  /\ ~Allowed(c)
  /\ Respond(c, 200, principal[c])
  /\ UNCHANGED <<call, identity>>
Deny(c) ==
  /\ Goto(c, "authz", "answered")
  /\ ~Allowed(c)
  /\ Respond(c, 401, None)
  /\ UNCHANGED <<call, identity>>

(* The identity service answers a request with an error, which is not       *)
(* caught: the function fails.                                              *)
ServiceError(c) ==
  /\ Goto(c, "authn", "error") \/ Goto(c, "authz", "error")
  /\ UNCHANGED <<call, answer, identity>>

(* Somebody changes the groups of a principal.                              *)
ChangeGroups ==
  /\ \E p \in Principal, g \in SUBSET Group : groups' = [groups EXCEPT ![p] = g]
  /\ outsiders' = outsiders \cup Outsiders(groups')
  /\ UNCHANGED <<pc, call, answer>>

Advance(c) ==
  \/ RefuseHeaders(c) \/ HeadersRaise(c) \/ AcceptHeaders(c)
  \/ Authenticate(c) \/ EndAuthn(c) \/ Grant(c) \/ Deny(c)

Next ==
  \/ \E c \in Call : Begin(c) \/ Advance(c) \/ ServiceError(c)
  \/ ChangeGroups

Spec == Init /\ [][Next]_vars

-----------------------------------------------------------------------------
TypeOK ==
  /\ pc \in [Call -> Running \cup Ended \cup {"idle"}]
  /\ req \in [Call -> Request]
  /\ target \in [Call -> {<<>>, <<"path">>} \cup {<<m, "path">> : m \in Method}]
  /\ tried \in [Call -> 0..Len(MLFLOW_REST_API_METHODS)]
  /\ principal \in [Call -> Principal \cup {None}]
  /\ \A c \in Call : pc[c] = "authz" => principal[c] \in Principal
  /\ status \in [Call -> {0, 200, 401}]
  /\ subject \in [Call -> Principal \cup {None}]
  /\ groups \in [Principal -> SUBSET Group]
  /\ outsiders \subseteq Principal

(* "active": true is answered only for the principal who signed the request *)
(* for one of the methods, and only when that principal is in an allowed    *)
(* group at that moment, however memberships changed since it was           *)
(* authenticated (authorizer.py:85-104).                                    *)
GrantsToMembers ==
  [][\A c \in Call :
       status'[c] = 200 /\ status[c] # 200
         => /\ req[c].method # None /\ subject'[c] = req[c].by
            /\ groups[req[c].by] \cap GROUP_IDS # {}]_vars

(* A well-formed request that was signed for any of the methods is not      *)
(* refused if its signer was in an allowed group all the time: trying the   *)
(* other methods does no harm (authorizer.py:76-85).                        *)
MembersAreNotRefused ==
  \A c \in Call :
    /\ status[c] = 401
    /\ req[c].signed # None /\ Required(c) \subseteq Headers(c)
    /\ req[c].method # None
    => req[c].by \in outsiders

(* A call in the terms of module AccessDecision: who signed a request all   *)
(* of whose signed headers are there, its target among them, and the        *)
(* response.                                                                *)
SignerOf(c) ==
  IF /\ req[c].signed # None /\ req[c].method # None
     /\ "(request-target)" \in Required(c) /\ Required(c) \subseteq Headers(c)
    THEN req[c].by ELSE None
AnswerOf(c) ==
  IF pc[c] = "error" THEN "failed"
  ELSE IF status[c] = 200 THEN "active" ELSE IF status[c] = 401 THEN "refused" ELSE "open"

Decision == INSTANCE AccessDecision WITH
  signer <- [c \in Call |-> SignerOf(c)], answer <- [c \in Call |-> AnswerOf(c)]

(* The function implements module AccessDecision: although it authenticates *)
(* first, method by method, and asks for groups later, each request has the *)
(* answer that is right at the one moment it is decided, or fails           *)
(* (authorizer.py:62-113).                                                  *)
ImplementsAccessDecision == Decision!Spec
=============================================================================
