---------------------------- MODULE AuthorizerProofs ----------------------------
(***************************************************************************)
(* What Authorizer promises, for any calls, requests, principals and       *)
(* groups.                                                                 *)
(***************************************************************************)
EXTENDS Authorizer, TLAPS

LEMMA Methods ==
  /\ Len(MLFLOW_REST_API_METHODS) = 5
  /\ \A i \in 1..5 : MLFLOW_REST_API_METHODS[i] \in Method
  /\ \A m \in Method : \E i \in 1..5 : m = MLFLOW_REST_API_METHODS[i]
BY DEF MLFLOW_REST_API_METHODS, Method

(* Every variable of the authorizer function keeps its type; a call that    *)
(* looks up groups knows its principal (authorizer.py:84-87).               *)
THEOREM TypeCorrect == Spec => []TypeOK
<1>1. Init => TypeOK
  BY Methods, ConstantsAssumption DEF Init, TypeOK, Running, Ended, Outsiders
<1>2. TypeOK /\ [Next]_vars => TypeOK'
  <2> SUFFICES ASSUME TypeOK, [Next]_vars PROVE TypeOK'
    OBVIOUS
  <2> USE ConstantsAssumption, Methods
      DEF TypeOK, Running, Ended, Goto, call, answer, identity, Respond
  <2>1. ASSUME NEW c \in Call, Begin(c) \/ HeadersRaise(c) \/ ServiceError(c)
        PROVE  TypeOK'
    BY <2>1 DEF Begin, HeadersRaise, ServiceError
  <2>2. ASSUME NEW c \in Call, RefuseHeaders(c) PROVE TypeOK'
    BY <2>2 DEF RefuseHeaders
  <2>3. ASSUME NEW c \in Call, AcceptHeaders(c) PROVE TypeOK'
    BY <2>3 DEF AcceptHeaders
  <2>4. ASSUME NEW c \in Call, Authenticate(c) PROVE TypeOK'
    <3>1. tried[c] \in 0..4 /\ MLFLOW_REST_API_METHODS[tried[c] + 1] \in Method
      BY <2>4 DEF Authenticate, TryTarget
    <3>2. req[c].by \in Principal
      OBVIOUS
    <3>3. QED BY <2>4, <3>1, <3>2 DEF Authenticate, TryTarget
  <2>5. ASSUME NEW c \in Call, EndAuthn(c) PROVE TypeOK'
    BY <2>5 DEF EndAuthn
  <2>6. ASSUME NEW c \in Call, Grant(c) \/ Deny(c) PROVE TypeOK'
    BY <2>6 DEF Grant, Deny
  <2>7. CASE ChangeGroups
    BY <2>7 DEF ChangeGroups, Outsiders
  <2>8. CASE UNCHANGED vars
    BY <2>8 DEF vars
  <2>9. QED
    BY <2>1, <2>2, <2>3, <2>4, <2>5, <2>6, <2>7, <2>8 DEF Next, Advance
<1>3. QED
  BY <1>1, <1>2, PTL DEF Spec

-----------------------------------------------------------------------------
(* The principal of a call is the signer of its request, for one of the     *)
(* methods, and is known once that method has been tried.                   *)
SignerOK(c) ==
  /\ principal[c] # None => principal[c] = req[c].by /\ req[c].method # None
  /\ \A i \in 1..5 :
       i \leq tried[c] /\ req[c].method = MLFLOW_REST_API_METHODS[i]
         => req[c].method = None \/ principal[c] # None

WellFormed(c) ==
  req[c].signed # None /\ Required(c) \subseteq Headers(c) /\ req[c].method # None

AuthnInv ==
  /\ \A c \in Call : SignerOK(c)
  /\ Outsiders(groups) \subseteq outsiders
  /\ \A c \in Call : status[c] = 401 /\ WellFormed(c) => req[c].by \in outsiders

(* Trying the methods in turn finds the signer (authorizer.py:76-85).       *)
THEOREM AuthnInvHolds == Spec => []AuthnInv
<1>1. Init => AuthnInv
  BY DEF Init, AuthnInv, SignerOK
<1>2. TypeOK /\ AuthnInv /\ [Next]_vars => AuthnInv'
  <2> SUFFICES ASSUME TypeOK, AuthnInv, [Next]_vars PROVE AuthnInv'
    OBVIOUS
  <2>1. req' = req /\ \A c \in Call : WellFormed(c)' <=> WellFormed(c)
    <3>1. req' = req
      BY DEF Next, Advance, vars, Begin, RefuseHeaders, HeadersRaise, AcceptHeaders,
             Authenticate, TryTarget, EndAuthn, Grant, Deny, ServiceError,
             ChangeGroups, call
    <3>2. QED BY <3>1 DEF WellFormed, Required, Headers
  <2> USE ConstantsAssumption, Methods, <2>1
      DEF TypeOK, Running, Ended, Goto, call, answer, identity, Respond
  <2>2. ASSUME NEW c \in Call,
               Begin(c) \/ HeadersRaise(c) \/ ServiceError(c) \/ AcceptHeaders(c)
        PROVE  AuthnInv'
    <3>1. UNCHANGED <<tried, principal, status, groups, outsiders>>
      BY <2>2 DEF Begin, HeadersRaise, ServiceError, AcceptHeaders
    <3>2. QED BY <3>1 DEF AuthnInv, SignerOK, Outsiders
  <2>3. ASSUME NEW c \in Call, RefuseHeaders(c) PROVE AuthnInv'
    <3>1. ~WellFormed(c)
      BY <2>3 DEF RefuseHeaders, WellFormed, Required
    <3>2. /\ UNCHANGED <<tried, principal, groups, outsiders>>
          /\ status' = [status EXCEPT ![c] = 401]
      BY <2>3 DEF RefuseHeaders
    <3>3. QED BY <3>1, <3>2 DEF AuthnInv, SignerOK, Outsiders
  <2>4. ASSUME NEW c \in Call, Authenticate(c) PROVE AuthnInv'
    <3> DEFINE m == MLFLOW_REST_API_METHODS[tried[c] + 1]
    <3>1. /\ tried[c] \in 0..4 /\ tried' = [tried EXCEPT ![c] = tried[c] + 1]
          /\ principal' = [principal EXCEPT ![c] =
               IF Confirmed(c, <<m, "path">>) THEN req[c].by ELSE principal[c]]
          /\ UNCHANGED <<status, groups, outsiders>>
      BY <2>4 DEF Authenticate, TryTarget
    <3>2. Confirmed(c, <<m, "path">>) <=> req[c].method # None /\ req[c].method = m
      BY DEF Confirmed
    <3>3. req[c].by # None
      OBVIOUS
    <3>4. ASSUME NEW o \in Call PROVE SignerOK(o)'
      <4>1. CASE o # c
        BY <3>1, <4>1 DEF AuthnInv, SignerOK
      <4>2. CASE o = c
        <5>1. \A i \in 1..5 : i \leq tried[c] + 1 => i \leq tried[c] \/ i = tried[c] + 1
          BY <3>1
        <5>2. QED BY <3>1, <3>2, <3>3, <4>2, <5>1 DEF AuthnInv, SignerOK
      <4>3. QED BY <4>1, <4>2
    <3>5. QED BY <3>1, <3>4 DEF AuthnInv, Outsiders
  <2>5. ASSUME NEW c \in Call, EndAuthn(c) PROVE AuthnInv'
    <3>1. UNCHANGED <<tried, principal, groups, outsiders>> /\ tried[c] = 5
      BY <2>5 DEF EndAuthn
    <3>2. CASE principal[c] = None
      <4>1. status' = [status EXCEPT ![c] = 401]
        BY <2>5, <3>2 DEF EndAuthn
      <4>2. req[c].method = None
        BY <3>1, <3>2 DEF AuthnInv, SignerOK
      <4>3. QED BY <3>1, <4>1, <4>2 DEF AuthnInv, SignerOK, Outsiders, WellFormed
    <3>3. CASE principal[c] # None
      <4>1. status' = status
        BY <2>5, <3>3 DEF EndAuthn
      <4>2. QED BY <3>1, <4>1 DEF AuthnInv, SignerOK, Outsiders
    <3>4. QED BY <3>2, <3>3
  <2>6. ASSUME NEW c \in Call, Grant(c) PROVE AuthnInv'
    <3>1. UNCHANGED <<tried, principal, groups, outsiders>>
          /\ status' = [status EXCEPT ![c] = 200]
      BY <2>6 DEF Grant
    <3>2. QED BY <3>1 DEF AuthnInv, SignerOK, Outsiders
  <2>7. ASSUME NEW c \in Call, Deny(c) PROVE AuthnInv'
    <3>1. UNCHANGED <<tried, principal, groups, outsiders>>
          /\ status' = [status EXCEPT ![c] = 401] /\ ~Allowed(c)
      BY <2>7 DEF Deny
    <3>2. principal[c] \in Principal /\ principal[c] = req[c].by
      BY <2>7 DEF Deny, AuthnInv, SignerOK
    <3>3. req[c].by \in outsiders
      BY <3>1, <3>2 DEF Allowed, AuthnInv, Outsiders
    <3>4. QED BY <3>1, <3>3 DEF AuthnInv, SignerOK, Outsiders
  <2>8. CASE ChangeGroups
    BY <2>8 DEF ChangeGroups, AuthnInv, SignerOK, Outsiders
  <2>9. CASE UNCHANGED vars
    BY <2>9 DEF vars, AuthnInv, SignerOK, Outsiders
  <2>10. QED
    BY <2>2, <2>3, <2>4, <2>5, <2>6, <2>7, <2>8, <2>9 DEF Next, Advance
<1>3. QED
  BY <1>1, <1>2, TypeCorrect, PTL DEF Spec

(* A complete request that was signed for one of the methods is not refused *)
(* if its signer was in an allowed group all the time                       *)
(* (authorizer.py:76-85).                                                   *)
THEOREM MembersAreNotRefusedHolds == Spec => []MembersAreNotRefused
<1>1. AuthnInv => MembersAreNotRefused
  BY DEF AuthnInv, MembersAreNotRefused, WellFormed
<1>2. QED BY <1>1, AuthnInvHolds, PTL

(* "active": true is answered for the signer alone, who is in an allowed    *)
(* group at that moment (authorizer.py:85-104).                             *)
THEOREM GrantsToMembersHolds == Spec => GrantsToMembers
<1>1. TypeOK /\ AuthnInv /\ [Next]_vars
        => [\A c \in Call :
              status'[c] = 200 /\ status[c] # 200
                => /\ req[c].method # None /\ subject'[c] = req[c].by
                   /\ groups[req[c].by] \cap GROUP_IDS # {}]_vars
  <2> SUFFICES ASSUME TypeOK, AuthnInv, Next, NEW c \in Call,
                      status'[c] = 200, status[c] # 200
               PROVE  /\ req[c].method # None /\ subject'[c] = req[c].by
                      /\ groups[req[c].by] \cap GROUP_IDS # {}
    OBVIOUS
  <2>1. Grant(c)
    <3>1. ASSUME NEW o \in Call,
                 \/ Begin(o) \/ ServiceError(o) \/ RefuseHeaders(o) \/ HeadersRaise(o)
                 \/ AcceptHeaders(o) \/ Authenticate(o) \/ EndAuthn(o) \/ Deny(o)
          PROVE  FALSE
      BY <3>1 DEF TypeOK, Begin, ServiceError, RefuseHeaders, HeadersRaise,
                  AcceptHeaders, Authenticate, TryTarget, EndAuthn, Deny, Respond,
                  answer
    <3>2. ASSUME NEW o \in Call, Grant(o) PROVE o = c
      BY <3>2 DEF TypeOK, Grant, Respond
    <3>3. ~ChangeGroups
      BY DEF ChangeGroups, answer
    <3>4. QED BY <3>1, <3>2, <3>3 DEF Next, Advance
  <2>2. /\ principal[c] \in Principal /\ subject' = [subject EXCEPT ![c] = principal[c]]
        /\ Allowed(c)
    BY <2>1 DEF TypeOK, Grant, Respond, Goto
  <2>3. principal[c] = req[c].by /\ req[c].method # None
    BY <2>2, ConstantsAssumption DEF AuthnInv, SignerOK
  <2>4. QED BY <2>2, <2>3 DEF TypeOK, Allowed
<1>2. QED
  BY <1>1, TypeCorrect, AuthnInvHolds, PTL DEF Spec, GrantsToMembers

-----------------------------------------------------------------------------
(* Who is authenticated has sent a complete request with a signed target;   *)
(* only an answered call has a response.                                    *)
Complete(c) ==
  /\ req[c].signed # None
  /\ "(request-target)" \in Required(c) /\ Required(c) \subseteq Headers(c)

DecideOK(c) ==
  /\ pc[c] \in {"authn", "authz"} => Complete(c)
  /\ IF pc[c] = "answered" THEN status[c] \in {200, 401} ELSE status[c] = 0
  /\ status[c] # 200 => subject[c] = None

DecideInv == \A c \in Call : DecideOK(c)

(* Incomplete requests get no further than their headers                    *)
(* (header_utils.py:64-104, authorizer.py:62-75).                           *)
THEOREM DecideInvHolds == Spec => []DecideInv
<1>1. Init => DecideInv
  BY DEF Init, DecideInv, DecideOK
<1>2. TypeOK /\ DecideInv /\ [Next]_vars => DecideInv'
  <2> SUFFICES ASSUME TypeOK, DecideInv, [Next]_vars, NEW o \in Call PROVE DecideOK(o)'
    BY DEF DecideInv
  <2>1. DecideOK(o)
    BY DEF DecideInv
  <2>2. Complete(o)' <=> Complete(o)
    <3>1. req' = req
      BY DEF Next, Advance, vars, Begin, RefuseHeaders, HeadersRaise, AcceptHeaders,
             Authenticate, TryTarget, EndAuthn, Grant, Deny, ServiceError,
             ChangeGroups, call
    <3>2. QED BY <3>1 DEF Complete, Required, Headers
  <2> USE <2>1, <2>2 DEF DecideOK, TypeOK, Goto, Respond, answer
  <2>3. ASSUME NEW c \in Call, Begin(c) \/ HeadersRaise(c) \/ ServiceError(c)
        PROVE  DecideOK(o)'
    BY <2>3 DEF Begin, HeadersRaise, ServiceError
  <2>4. ASSUME NEW c \in Call, RefuseHeaders(c) \/ EndAuthn(c) \/ Grant(c) \/ Deny(c)
        PROVE  DecideOK(o)'
    BY <2>4 DEF RefuseHeaders, EndAuthn, Grant, Deny
  <2>5. ASSUME NEW c \in Call, AcceptHeaders(c) PROVE DecideOK(o)'
    BY <2>5 DEF AcceptHeaders, Complete
  <2>6. ASSUME NEW c \in Call, Authenticate(c) PROVE DecideOK(o)'
    BY <2>6 DEF Authenticate, TryTarget
  <2>7. ChangeGroups \/ UNCHANGED vars => DecideOK(o)'
    BY DEF ChangeGroups, vars
  <2>8. QED BY <2>3, <2>4, <2>5, <2>6, <2>7 DEF Next, Advance
<1>3. QED
  BY <1>1, <1>2, TypeCorrect, PTL DEF Spec

Answers == [c \in Call |-> AnswerOf(c)]
Signers == [c \in Call |-> SignerOf(c)]

LEMMA SignersStay ==
  ASSUME [Next]_vars
  PROVE  Signers' = Signers
<1>1. req' = req
  BY DEF Next, Advance, vars, Begin, RefuseHeaders, HeadersRaise, AcceptHeaders,
         Authenticate, TryTarget, EndAuthn, Grant, Deny, ServiceError,
         ChangeGroups, call
<1>2. QED BY <1>1 DEF Signers, SignerOf, Required, Headers

(* A call that runs has no answer; a step gives one to it alone, or to none.*)
LEMMA CallAnswers ==
  ASSUME DecideInv, NEW c \in Call, NEW a, pc[c] \in Running, AnswerOf(c)' = a,
         \A o \in Call : o # c => pc'[o] = pc[o] /\ status'[o] = status[o]
  PROVE  Answers[c] = "open" /\ Answers' = [Answers EXCEPT ![c] = a]
<1>1. AnswerOf(c) = "open"
  BY DEF AnswerOf, DecideInv, DecideOK, Running
<1>2. \A o \in Call : o # c => AnswerOf(o)' = AnswerOf(o)
  BY DEF AnswerOf
<1>3. QED BY <1>1, <1>2 DEF Answers

LEMMA CallGoesOn ==
  ASSUME TypeOK, NEW c \in Call, NEW to \in {"headers", "authn", "authz"},
         pc[c] # "error", pc' = [pc EXCEPT ![c] = to], status' = status
  PROVE  Answers' = Answers
BY DEF Answers, AnswerOf, TypeOK

(* The groups are those of the signer of a complete request.                *)
LEMMA AllowedSigner ==
  ASSUME TypeOK, AuthnInv, DecideInv, NEW c \in Call, pc[c] = "authz"
  PROVE  /\ SignerOf(c) = principal[c] /\ principal[c] # None
         /\ Decision!Allowed(c) <=> Allowed(c)
<1>1. principal[c] # None /\ principal[c] = req[c].by /\ req[c].method # None
  BY ConstantsAssumption DEF TypeOK, AuthnInv, SignerOK
<1>2. SignerOf(c) = principal[c]
  BY <1>1 DEF DecideInv, DecideOK, Complete, SignerOf
<1>3. QED BY <1>1, <1>2 DEF Decision!Allowed, Allowed

(* The authorizer implements AccessDecision: each request is answered once, *)
(* and rightly at that moment (authorizer.py:62-113).                       *)
THEOREM Implementation == Spec => ImplementsAccessDecision
<1>1. Init => Decision!Init
  <2> SUFFICES ASSUME Init PROVE Decision!Init
    OBVIOUS
  <2>1. \A c \in Call : SignerOf(c) \in Principal \cup {None}
    BY ConstantsAssumption DEF Init, SignerOf
  <2>2. ASSUME NEW c \in Call PROVE AnswerOf(c) = "open"
    <3>1. pc[c] = "idle" /\ status[c] = 0
      BY DEF Init
    <3>2. QED BY <3>1 DEF AnswerOf
  <2>3. /\ Signers \in [Call -> Principal \cup {None}]
        /\ Answers = [c \in Call |-> "open"]
    BY <2>1, <2>2 DEF Signers, Answers
  <2>4. QED BY <2>3 DEF Init, Decision!Init, Signers, Answers
<1>2. TypeOK /\ AuthnInv /\ DecideInv /\ [Next]_vars => [Decision!Next]_(Decision!vars)
  <2> SUFFICES ASSUME TypeOK, AuthnInv, DecideInv, [Next]_vars
               PROVE  Decision!Next \/ UNCHANGED Decision!vars
    OBVIOUS
  <2>0. Signers' = Signers
    BY SignersStay
  <2>1. ASSUME NEW c \in Call, ~Decision!Allowed(c), pc[c] \in Running,
               pc' = [pc EXCEPT ![c] = "answered"], Respond(c, 401, None), groups' = groups
        PROVE  Decision!Refuse(c)
    <3>1. /\ AnswerOf(c)' = "refused"
          /\ \A o \in Call : o # c => pc'[o] = pc[o] /\ status'[o] = status[o]
      BY <2>1 DEF Respond, AnswerOf, TypeOK
    <3>2. Answers[c] = "open" /\ Answers' = [Answers EXCEPT ![c] = "refused"]
      BY <2>1, <3>1, CallAnswers
    <3>3. subject[c] = None
      BY <2>1 DEF DecideInv, DecideOK, Running
    <3>4. subject' = subject
      BY <2>1, <3>3 DEF Respond, TypeOK
    <3>5. QED
      BY <2>0, <2>1, <3>2, <3>4
      DEF Decision!Refuse, Decision!Answer, Answers, Signers
  <2>2. ASSUME NEW c \in Call, RefuseHeaders(c) PROVE Decision!Refuse(c)
    <3>1. SignerOf(c) = None
      BY <2>2 DEF RefuseHeaders, SignerOf, Required
    <3>2. /\ pc[c] \in Running /\ pc' = [pc EXCEPT ![c] = "answered"]
          /\ Respond(c, 401, None) /\ groups' = groups
      BY <2>2 DEF RefuseHeaders, Goto, Running, identity
    <3>3. ~Decision!Allowed(c)
      BY <3>1 DEF Decision!Allowed
    <3>4. QED BY <2>1, <3>2, <3>3, Zenon
  <2>3. ASSUME NEW c \in Call, Deny(c) PROVE Decision!Refuse(c)
    <3>1. /\ pc[c] = "authz" /\ pc' = [pc EXCEPT ![c] = "answered"] /\ ~Allowed(c)
          /\ Respond(c, 401, None) /\ groups' = groups
      BY <2>3 DEF Deny, Goto, identity
    <3>2. ~Decision!Allowed(c) /\ pc[c] \in Running
      BY <3>1, AllowedSigner DEF Running
    <3>3. QED BY <2>1, <3>1, <3>2, Zenon
  <2>4. ASSUME NEW c \in Call, Grant(c) PROVE Decision!Admit(c)
    <3>1. /\ pc[c] = "authz" /\ pc[c] \in Running
          /\ pc' = [pc EXCEPT ![c] = "answered"] /\ Allowed(c)
          /\ status' = [status EXCEPT ![c] = 200] /\ groups' = groups
          /\ subject' = [subject EXCEPT ![c] = principal[c]]
      BY <2>4 DEF Grant, Goto, Respond, identity, Running
    <3>2. Answers[c] = "open" /\ Answers' = [Answers EXCEPT ![c] = "active"]
      <4>1. /\ AnswerOf(c)' = "active"
            /\ \A o \in Call : o # c => pc'[o] = pc[o] /\ status'[o] = status[o]
        BY <3>1 DEF AnswerOf, TypeOK
      <4>2. QED BY <3>1, <4>1, CallAnswers
    <3>3. Decision!Allowed(c) /\ SignerOf(c) = principal[c]
      BY <3>1, AllowedSigner
    <3>4. QED
      BY <2>0, <3>1, <3>2, <3>3 DEF Decision!Admit, Decision!Answer, Answers, Signers
  <2>5. ASSUME NEW c \in Call, EndAuthn(c)
        PROVE  Decision!Refuse(c) \/ UNCHANGED Decision!vars
    <3>1. CASE principal[c] = None
      <4>1. /\ pc[c] \in Running /\ pc' = [pc EXCEPT ![c] = "answered"]
            /\ Respond(c, 401, None) /\ groups' = groups
        BY <2>5, <3>1 DEF EndAuthn, Goto, Running, identity
      <4>2. tried[c] = 5 /\ req[c].method \in Method \cup {None}
        BY <2>5, Methods, ConstantsAssumption DEF EndAuthn, TypeOK
      <4>3. req[c].method = None
        BY <3>1, <4>2, Methods DEF AuthnInv, SignerOK
      <4>4. SignerOf(c) = None
        BY <4>3 DEF SignerOf
      <4>5. ~Decision!Allowed(c)
        BY <4>4 DEF Decision!Allowed
      <4>6. QED BY <2>1, <4>1, <4>5, Zenon
    <3>2. CASE principal[c] # None
      <4>1. Answers' = Answers
        BY <2>5, <3>2, CallGoesOn DEF EndAuthn, Goto, answer
      <4>2. QED
        BY <2>0, <2>5, <3>2, <4>1
        DEF EndAuthn, answer, identity, Decision!vars, Answers, Signers
    <3>3. QED BY <3>1, <3>2
  <2>6. ASSUME NEW c \in Call, HeadersRaise(c) \/ ServiceError(c) PROVE Decision!Fail(c)
    <3>1. /\ pc[c] \in Running /\ pc' = [pc EXCEPT ![c] = "error"]
          /\ UNCHANGED <<status, subject, groups>>
      BY <2>6 DEF HeadersRaise, ServiceError, Goto, Running, answer, identity
    <3>2. Answers[c] = "open" /\ Answers' = [Answers EXCEPT ![c] = "failed"]
      <4>1. /\ AnswerOf(c)' = "failed"
            /\ \A o \in Call : o # c => pc'[o] = pc[o] /\ status'[o] = status[o]
        BY <3>1 DEF AnswerOf, TypeOK
      <4>2. QED BY <3>1, <4>1, CallAnswers
    <3>3. QED
      BY <2>0, <3>1, <3>2 DEF Decision!Fail, Decision!Answer, Answers, Signers
  <2>7. ASSUME NEW c \in Call, Begin(c) \/ AcceptHeaders(c) \/ Authenticate(c)
        PROVE  UNCHANGED Decision!vars
    <3>1. Answers' = Answers
      <4>1. CASE Begin(c) \/ AcceptHeaders(c)
        BY <4>1, CallGoesOn DEF Begin, AcceptHeaders, Goto, answer
      <4>2. CASE Authenticate(c)
        BY <4>2 DEF Authenticate, TryTarget, answer, Answers, AnswerOf
      <4>3. QED BY <2>7, <4>1, <4>2
    <3>2. UNCHANGED <<groups, subject>>
      BY <2>7 DEF Begin, AcceptHeaders, Authenticate, TryTarget, answer, identity
    <3>3. QED BY <2>0, <3>1, <3>2 DEF Decision!vars, Answers, Signers
  <2>8. CASE ChangeGroups
    <3>1. Answers' = Answers
      BY <2>8 DEF ChangeGroups, answer, Answers, AnswerOf
    <3>2. Decision!ChangeGroups
      BY <2>0, <2>8, <3>1 DEF ChangeGroups, answer, Decision!ChangeGroups, Answers, Signers
    <3>3. QED BY <3>2 DEF Decision!Next
  <2>9. CASE UNCHANGED vars
    <3>1. Answers' = Answers
      BY <2>9 DEF vars, answer, Answers, AnswerOf
    <3>2. QED
      BY <2>0, <2>9, <3>1 DEF vars, answer, identity, Decision!vars, Answers, Signers
  <2>10. QED
    BY <2>2, <2>3, <2>4, <2>5, <2>6, <2>7, <2>8, <2>9
    DEF Next, Advance, Decision!Next
<1>3. QED
  BY <1>1, <1>2, TypeCorrect, AuthnInvHolds, DecideInvHolds, PTL
  DEF Spec, ImplementsAccessDecision, Decision!Spec
=============================================================================
