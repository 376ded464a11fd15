---------------------------- MODULE UpdateDeployment ----------------------------
(***************************************************************************)
(* OCIModelDeploymentClient.update_deployment (oci_mlflow/deployment.py):  *)
(* calls that change the settings of one model deployment, by any number   *)
(* of clients.                                                             *)
(*                                                                         *)
(* A deployment has parts: the specification of its infrastructure, its    *)
(* display name.  A configuration file has a part or leaves it out; the    *)
(* parts it has replace what the call has read as a whole, and may name    *)
(* only some of the part's settings.  What becomes of the others is the    *)
(* affair of the service: it keeps them, or gives them their defaults.     *)
(*                                                                         *)
(* Operators marked as mutants are faults a change of the code could bring *)
(* in; no specification here uses them.                                    *)
(***************************************************************************)
CONSTANTS
  Call,       \* the invocations of update_deployment
  Part,       \* the parts of a deployment
  SettingOf,  \* the settings of each part
  Value,      \* their values
  ConfigOf,   \* the configuration of each call: for each part, settings or None
  Initial,    \* the deployment as it was made
  Default,    \* the settings of a deployment of which nothing was said
  None        \* a part a configuration leaves out, work that was not asked for

(* All the settings of a part, some of them, and those of a deployment.     *)
Whole(p) == [SettingOf[p] -> Value]
Some(p) == UNION {[S -> Value] : S \in SUBSET SettingOf[p]}
Settings == {all \in [Part -> UNION {Whole(p) : p \in Part}] :
               \A p \in Part : all[p] \in Whole(p)}

ASSUME ConstantsAssumption ==
  /\ \A c \in Call, p \in Part : ConfigOf[c][p] \in Some(p) \cup {None}
  /\ Initial \in Settings /\ Default \in Settings
  /\ \A p \in Part : None \notin Some(p)
  /\ None \notin Call

VARIABLES
  pc,        \* where each call is
  snapshot,  \* the settings each call has read
  logged,    \* what each call logged: nothing, an error or success
  live,      \* the settings of the deployment
  deleted,   \* the deployment is deleted
  pending,   \* the call whose update the service works on, or None
  work,      \* what became of each update that was asked for
  expected,  \* history: for each part what the last update of it has named
  stale      \* history: for each call the parts it had read out of date

service == <<live, deleted, pending, work>>
history == <<expected, stale>>
vars == <<pc, snapshot, logged, service, history>>

Running == {"read", "update", "wait"}
Ended == {"returned", "raised"}

Goto(c, from, to) == pc[c] = from /\ pc' = [pc EXCEPT ![c] = to]

(* Some of the settings of each part, the others as they are.               *)
Over(some, all) ==
  [p \in Part |-> [s \in SettingOf[p] |->
     IF s \in DOMAIN some[p] THEN some[p][s] ELSE all[p][s]]]

(* Mutant: the dictionaries are merged the other way round.                 *)
SnapshotWins(c) == snapshot[c]
(* {**current_infra, **infrastructure} and with_display_name: what the call *)
(* sends of each part is the configuration's, or else what it had read; the *)
(* specification in the configuration takes the place of the whole one.     *)
Merged(c) ==
  [p \in Part |-> IF ConfigOf[c][p] = None THEN snapshot[c][p] ELSE ConfigOf[c][p]]

(* What the service may make of what a call has sent.                       *)
Outcomes(c) == {Over(Merged(c), live), Over(Merged(c), Default)}

Init ==
  /\ pc = [c \in Call |-> "read"]
  /\ snapshot = [c \in Call |-> Initial]
  /\ logged = [c \in Call |-> "nothing"]
  /\ live = Initial
  /\ deleted = FALSE
  /\ pending = None
  /\ work = [c \in Call |-> "none"]
  /\ expected = Initial
  /\ stale = {}

-----------------------------------------------------------------------------
(* ModelDeployment.from_id and the configuration file: while the service    *)
(* works on an update it may show the new settings already.                 *)
Read(c) ==
  /\ Goto(c, "read", "update")
  /\ \/ snapshot' = [snapshot EXCEPT ![c] = live]
     \/ /\ pending # None
        /\ \E seen \in Outcomes(pending) : snapshot' = [snapshot EXCEPT ![c] = seen]
  /\ UNCHANGED <<logged, service, history>>

(* The call logs what became of it and returns, whatever that is.           *)
LogAndReturn(c, result) ==
  /\ pc' = [pc EXCEPT ![c] = "returned"]
  /\ logged' = [logged EXCEPT ![c] = result]

(* The service takes one update at a time.                                  *)
Accept(c) ==
  /\ ~deleted /\ pending = None
  /\ pending' = c
  /\ work' = [work EXCEPT ![c] = "accepted"]
  /\ stale' = stale \cup {<<c, p>> : p \in {q \in Part : snapshot[c][q] # live[q]}}
  /\ UNCHANGED <<live, deleted, expected>>

(* md.update(): accepted, and the call waits for it...                      *)
Update(c) ==
  /\ Goto(c, "update", "wait")
  /\ Accept(c)
  /\ UNCHANGED <<snapshot, logged>>

(* ...or the reply is lost, and the handler takes it for a failure...       *)
ReplyLost(c) ==
  /\ pc[c] = "update"
  /\ Accept(c)
  /\ LogAndReturn(c, "error")
  /\ UNCHANGED snapshot

(* ...or it is refused, or with_infrastructure raises before it is sent.    *)
Refused(c) ==
  /\ pc[c] = "update"
  /\ LogAndReturn(c, "error")
  /\ UNCHANGED <<snapshot, service, history>>

(* Mutant: only an update that is made ends the wait.                       *)
AwaitsSuccessOnly(c) ==
  /\ pc[c] = "wait" /\ work[c] = "done"
  /\ LogAndReturn(c, "success")
  /\ UNCHANGED <<snapshot, service, history>>
(* update() returns when the update is made.  Whether it returns or raises  *)
(* when the update failed is the library's affair; the code logs success    *)
(* for whatever update() has returned from.                                 *)
AwaitUpdate(c) ==
  /\ pc[c] = "wait"
  /\ \/ work[c] = "done" /\ LogAndReturn(c, "success")
     \/ work[c] = "failed" /\ \E result \in {"error", "success"} : LogAndReturn(c, result)
  /\ UNCHANGED <<snapshot, service, history>>

(* A poll raises, or the wait times out, whatever the service does.         *)
PollFails(c) ==
  /\ pc[c] = "wait"
  /\ LogAndReturn(c, "error")
  /\ UNCHANGED <<snapshot, service, history>>

(* from_id fails, there is no configuration file, or an interrupt anywhere. *)
Raise(c) ==
  /\ pc[c] \in Running
  /\ pc' = [pc EXCEPT ![c] = "raised"]
  /\ UNCHANGED <<snapshot, logged, service, history>>

-----------------------------------------------------------------------------
(* The service makes the update it works on, or gives it up: then the       *)
(* deployment stays as it was.                                              *)
Settle(c) ==
  /\ pending = c
  /\ pending' = None
  /\ \/ /\ work' = [work EXCEPT ![c] = "done"]
        /\ live' \in Outcomes(c)
        /\ expected' = [p \in Part |->
             IF ConfigOf[c][p] = None THEN expected[p] ELSE ConfigOf[c][p]]
     \/ /\ work' = [work EXCEPT ![c] = "failed"]
        /\ UNCHANGED <<live, expected>>
  /\ UNCHANGED <<pc, snapshot, logged, deleted, stale>>

(* delete_deployment, by any client.                                        *)
DeleteDeployment ==
  /\ ~deleted /\ pending = None
  /\ deleted' = TRUE
  /\ UNCHANGED <<pc, snapshot, logged, live, pending, work, history>>

Next ==
  \/ \E c \in Call :
       \/ Read(c) \/ Update(c) \/ ReplyLost(c) \/ Refused(c) \/ AwaitUpdate(c)
       \/ PollFails(c) \/ Raise(c) \/ Settle(c)
  \/ DeleteDeployment

Spec == Init /\ [][Next]_vars

(* A call runs on, since a request is answered or raises, and the service   *)
(* comes to an end with what it works on.                                   *)
FairSpec ==
  /\ Spec
  /\ \A c \in Call :
       /\ WF_vars(Read(c)) /\ WF_vars(Update(c) \/ Refused(c))
       /\ WF_vars(AwaitUpdate(c)) /\ WF_vars(Settle(c))

-----------------------------------------------------------------------------
TypeOK ==
  /\ pc \in [Call -> Running \cup Ended]
  /\ snapshot \in [Call -> Settings]
  /\ logged \in [Call -> {"nothing", "error", "success"}]
  /\ live \in Settings
  /\ \A p \in Part : expected[p] \in Some(p)
  /\ deleted \in BOOLEAN
  /\ pending \in Call \cup {None}
  /\ work \in [Call -> {"none", "accepted", "done", "failed"}]
  /\ stale \subseteq Call \X Part

(* What the last update of a part has named of it is what the part is, and  *)
(* a part no update has named is as it was, unless a call that leaves the   *)
(* part out has sent back what it had read of it before another update was  *)
(* made: one that names the part sends nothing it had read, however old     *)
(* (deployment.py:495, 508-514).                                            *)
SettingsFromLastUpdate ==
  \A p \in Part :
    (\A c \in Call : <<c, p>> \in stale => ConfigOf[c][p] # None)
      => \A s \in DOMAIN expected[p] : live[p][s] = expected[p][s]

(* Every update comes to an end, also one that fails or whose deployment is *)
(* deleted meanwhile (deployment.py:517-523).                               *)
EveryUpdateEnds == \A c \in Call : pc[c] \in Running ~> pc[c] \in Ended
=============================================================================
