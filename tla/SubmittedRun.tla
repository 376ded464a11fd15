------------------------------ MODULE SubmittedRun ------------------------------
(***************************************************************************)
(* What OCIProjectBackend.run and OCIProjectRun (oci_mlflow/project.py)    *)
(* promise MLflow: the submitted run of each call as MLflow sees it, by    *)
(* the statuses of MLflow.  ProjectRun implements this specification.      *)
(***************************************************************************)
CONSTANT Call      \* the invocations of run

VARIABLES
  status,   \* of the submitted run, "NONE" before there is one and "UNKNOWN"
            \* when MLflow cannot be told of it
  caller,   \* "open" while run is under way, then "returned" or "raised"
  known,    \* whether the MLflow run names the submitted run
  waited    \* "no", "waiting", and how wait ended: "true" or "raised"

vars == <<status, caller, known, waited>>

(* What becomes of a submitted run on its own.  One that is over may be     *)
(* deleted, and then it is killed for ever.                                 *)
StatusMoves ==
  {<<"SCHEDULED", "RUNNING">>, <<"SCHEDULED", "FAILED">>,
   <<"RUNNING", "FINISHED">>, <<"RUNNING", "FAILED">>, <<"RUNNING", "KILLED">>,
   <<"RUNNING", "UNKNOWN">>,
   <<"FINISHED", "KILLED">>, <<"FAILED", "KILLED">>}

Init ==
  /\ status = [c \in Call |-> "NONE"]
  /\ caller = [c \in Call |-> "open"]
  /\ known = [c \in Call |-> FALSE]
  /\ waited = [c \in Call |-> "no"]

Move(c, to) == status' = [status EXCEPT ![c] = to]

(* A call submits one run, which may be all it does before it fails.        *)
Submit(c) ==
  /\ caller[c] = "open" /\ status[c] = "NONE"
  /\ Move(c, "SCHEDULED")
  /\ caller' \in {caller, [caller EXCEPT ![c] = "raised"]}
  /\ UNCHANGED <<known, waited>>

(* Only what was submitted is made known.                                   *)
Record(c) ==
  /\ caller[c] = "open" /\ status[c] # "NONE"
  /\ known' = [known EXCEPT ![c] = TRUE]
  /\ UNCHANGED <<status, caller, waited>>

(* Only what was submitted and is known is handed out.                      *)
Return(c) ==
  /\ caller[c] = "open" /\ status[c] # "NONE" /\ known[c]
  /\ caller' = [caller EXCEPT ![c] = "returned"]
  /\ UNCHANGED <<status, known, waited>>

Raise(c) ==
  /\ caller[c] = "open"
  /\ caller' = [caller EXCEPT ![c] = "raised"]
  /\ UNCHANGED <<status, known, waited>>

Proceed(c) ==
  /\ \E to \in {"RUNNING", "FINISHED", "FAILED", "KILLED", "UNKNOWN"} :
       <<status[c], to>> \in StatusMoves /\ Move(c, to)
  /\ UNCHANGED <<caller, known, waited>>

(* A run that is cancelled runs until it is killed.  A failed one may have  *)
(* only been in need of attention.                                          *)
Cancel(c) ==
  /\ caller[c] = "returned"
  /\ status[c] \in {"SCHEDULED", "RUNNING", "FAILED"}
  /\ Move(c, "RUNNING")
  /\ UNCHANGED <<caller, known, waited>>

(* wait is asked of what was handed out, and is true of a run that is       *)
(* finished or killed.                                                      *)
Wait(c) ==
  /\ \/ /\ caller[c] = "returned" /\ waited[c] = "no"
        /\ waited' = [waited EXCEPT ![c] = "waiting"]
     \/ /\ waited[c] = "waiting" /\ status[c] \in {"FINISHED", "KILLED"}
        /\ waited' = [waited EXCEPT ![c] = "true"]
     \/ /\ waited[c] = "waiting"
        /\ waited' = [waited EXCEPT ![c] = "raised"]
  /\ UNCHANGED <<status, caller, known>>

Next == \E c \in Call :
  \/ Submit(c) \/ Record(c) \/ Return(c) \/ Raise(c)
  \/ Proceed(c) \/ Cancel(c) \/ Wait(c)

Spec == Init /\ [][Next]_vars
=============================================================================
