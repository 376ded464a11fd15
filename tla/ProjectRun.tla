------------------------------- MODULE ProjectRun -------------------------------
(***************************************************************************)
(* OCIProjectBackend.run and the OCIProjectRun it returns                  *)
(* (oci_mlflow/project.py): calls that share the authentication ADS keeps  *)
(* for the whole process, and the life of the job run each call starts.    *)
(*                                                                         *)
(* The MLflow run, the job and the job run of a call bear its name.        *)
(* Operators marked as mutants are faults a change of the code could bring *)
(* in; no specification here uses them.                                    *)
(***************************************************************************)
CONSTANTS
  Call,           \* the invocations of run
  Proc,           \* the processes that make them
  ProcOf,         \* the process of each call
  SingleThreaded, \* the processes that make one call at a time
  Auth,           \* the ways to authenticate that ADS supports
  ResourcePrincipal, ApiKey,  \* two of them
  EnvOf,          \* what the environment says of it when a process starts
  ConfigAuth,     \* what the backend configuration of each call asks for
  Template,       \* job templates
  TemplatesOf,    \* the templates each call may be given
  Elsewhere,      \* an MLflow run that is none of the calls'
  None            \* nothing: not set, no tag, no job, no outcome

(* What a template says of the MLflow run: its runtime, and MLFLOW_RUN_ID   *)
(* among the environment variables and the Spark properties of driver and   *)
(* executors.  "job" stands for the runtimes of a Data Science job, "other" *)
(* for a kind of template or runtime that run does not know.                *)
Runtime == {"job", "dataFlow", "dataFlowNotebook", "other"}
Named == Call \cup {Elsewhere, None}

(* Statuses of a job run that never change, but for its deletion.  "STOPPED" *)
(* stands for the statuses of Data Flow that project.py does not list.      *)
Final == {"SUCCEEDED", "FAILED", "CANCELED", "DELETED", "STOPPED"}
Active == {"ACCEPTED", "IN_PROGRESS", "NEEDS_ATTENTION"}
Status == Active \cup {"CANCELING"} \cup Final

ASSUME ConstantsAssumption ==
  /\ ProcOf \in [Call -> Proc]
  /\ SingleThreaded \subseteq Proc
  /\ Template \subseteq [runtime : Runtime, env : Named, driver : Named,
                        executor : Named]
  /\ TemplatesOf \in [Call -> SUBSET Template]
  /\ None \notin Auth \cup Call \cup {Elsewhere}
  /\ None \notin Template /\ None \notin Status

VARIABLES
  pc,       \* where each call is
  auth,     \* ads.set_auth: one setting for each process
  mlrun,    \* the MLflow runs that exist
  job,      \* the authentication each job was created with
  jobRun,   \* the status of each job run
  runAuth,  \* the authentication each job run was started with
  template, \* the template of each call's job, once it is decorated
  told,     \* MLFLOW_RUN_ID as the job finds it
  label,    \* the freeform tag mlflow_run_id of the job
  tags,     \* what the tags of each MLflow run name
  wait,     \* where OCIProjectRun.wait is
  outcome   \* history: the first final status of each job run

handle == <<wait, outcome>>
remote == <<job, runAuth>>
decorated == <<template, told, label>>
vars == <<pc, auth, mlrun, decorated, remote, jobRun, tags, handle>>

Running == {"fetch", "createRun", "setAuth", "decorate", "createJob", "runJob",
            "tagJob", "tagRun", "tagRest"}
Ended == {"returned", "raised"}

Goto(c, from, to) == pc[c] = from /\ pc' = [pc EXCEPT ![c] = to]

Init ==
  /\ pc = [c \in Call |-> "idle"]
  /\ auth \in [Proc -> {None}]
  /\ mlrun = {}
  /\ job = [c \in Call |-> None]
  /\ jobRun = [c \in Call |-> None]
  /\ runAuth = [c \in Call |-> None]
  /\ template = [c \in Call |-> None]
  /\ told = [c \in Call |-> None]
  /\ label = [c \in Call |-> None]
  /\ tags = [c \in Call |-> [job |-> None, run |-> None, rest |-> "no"]]
  /\ wait = [c \in Call |-> "no"]
  /\ outcome = [c \in Call |-> None]

-----------------------------------------------------------------------------
Begin(c) ==
  /\ ProcOf[c] \in SingleThreaded
       => \A o \in Call : ProcOf[o] = ProcOf[c] => pc[o] \notin Running
  /\ Goto(c, "idle", "fetch")
  /\ UNCHANGED <<auth, mlrun, decorated, remote, jobRun, tags, handle>>

(* fetch_and_validate_project                                               *)
FetchProject(c) ==
  /\ Goto(c, "fetch", "createRun")
  /\ UNCHANGED <<auth, mlrun, decorated, remote, jobRun, tags, handle>>

(* get_or_create_run with no run id: always a new run                       *)
CreateRun(c) ==
  /\ Goto(c, "createRun", "setAuth")
  /\ mlrun' = mlrun \cup {c}
  /\ UNCHANGED <<auth, decorated, remote, jobRun, tags, handle>>

(* setup_default_auth, when the package is imported: OCIFS_IAM_TYPE.        *)
IamType(p) ==
  IF EnvOf[p].ocifs # None THEN EnvOf[p].ocifs
  ELSE IF EnvOf[p].iam # None THEN EnvOf[p].iam
  ELSE IF EnvOf[p].resourcePrincipal THEN ResourcePrincipal ELSE ApiKey

(* What the backend configuration says, or else that variable, which is     *)
(* always set by then.                                                      *)
Requested(c) == IF ConfigAuth[c] # None THEN ConfigAuth[c] ELSE IamType(ProcOf[c])

(* Mutant: authentication that is there is kept.                            *)
SetAuthOnce(c) ==
  /\ Goto(c, "setAuth", "decorate")
  /\ auth' = IF auth[ProcOf[c]] = None
               THEN [auth EXCEPT ![ProcOf[c]] = Requested(c)] ELSE auth
  /\ UNCHANGED <<mlrun, decorated, remote, jobRun, tags, handle>>
(* The project, its environment and entry point and the configuration are   *)
(* read; a type that is not supported raises.  Then ads.set_auth.           *)
SetAuth(c) ==
  /\ Requested(c) \in Auth
  /\ Goto(c, "setAuth", "decorate")
  /\ auth' = [auth EXCEPT ![ProcOf[c]] = Requested(c)]
  /\ UNCHANGED <<mlrun, decorated, remote, jobRun, tags, handle>>

(* Mutant: nothing is propagated to the Spark properties.                   *)
EnvironmentOnly(c, t) ==
  IF t.runtime # "job" THEN t.driver ELSE IF t.env = None THEN c ELSE t.env
(* RuntimeDecorator: what the template says goes over what run says.  Data  *)
(* Flow is told by Spark properties: run adds one for the driver, unless    *)
(* the template has one for the driver or the executors; and none for a     *)
(* notebook.  A template run does not know is used as it is, with a warning.*)
RunIdFor(c, t) ==
  CASE t.runtime = "job"              -> IF t.env = None THEN c ELSE t.env
    [] t.runtime = "dataFlow"         ->
         IF t.driver = None /\ t.executor = None THEN c ELSE t.driver
    [] t.runtime = "dataFlowNotebook" -> t.driver
    [] t.runtime = "other"            -> t.env

Decorate(c) ==
  /\ Goto(c, "decorate", "createJob")
  /\ \E t \in TemplatesOf[c] :
       /\ template' = [template EXCEPT ![c] = t]
       /\ told' = [told EXCEPT ![c] = RunIdFor(c, t)]
       /\ label' = [label EXCEPT ![c] = IF t.runtime = "other" THEN None ELSE c]
  /\ UNCHANGED <<auth, mlrun, remote, jobRun, tags, handle>>

(* The job is created; the reply may be lost.                               *)
CreateJob(c) ==
  /\ Goto(c, "createJob", "runJob") \/ Goto(c, "createJob", "raised")
  /\ job' = [job EXCEPT ![c] = auth[ProcOf[c]]]
  /\ UNCHANGED <<auth, mlrun, decorated, runAuth, jobRun, tags, handle>>

(* Accepted by the service; the reply may be lost.                          *)
RunJob(c) ==
  /\ Goto(c, "runJob", "tagJob") \/ Goto(c, "runJob", "raised")
  /\ jobRun' = [jobRun EXCEPT ![c] = "ACCEPTED"]
  /\ runAuth' = [runAuth EXCEPT ![c] = auth[ProcOf[c]]]
  /\ UNCHANGED <<auth, mlrun, decorated, job, tags, handle>>

(* MLflowTagsLogger.log: job_id, job_run_id and its link, then the tags of  *)
(* the infrastructure and the description.                                  *)
TagJob(c) ==
  /\ Goto(c, "tagJob", "tagRun")
  /\ tags' = [tags EXCEPT ![c].job = c]
  /\ UNCHANGED <<auth, mlrun, decorated, remote, jobRun, handle>>

(* Mutant: the tag is given the id of any job run of the process.           *)
TagLatestRun(c) ==
  /\ Goto(c, "tagRun", "tagRest")
  /\ \E o \in Call : /\ ProcOf[o] = ProcOf[c] /\ jobRun[o] # None
                     /\ tags' = [tags EXCEPT ![c].run = o]
  /\ UNCHANGED <<auth, mlrun, decorated, remote, jobRun, handle>>
TagRun(c) ==
  /\ Goto(c, "tagRun", "tagRest")
  /\ tags' = [tags EXCEPT ![c].run = c]
  /\ UNCHANGED <<auth, mlrun, decorated, remote, jobRun, handle>>

(* Mutant: the tag is set to None.                                          *)
TagNothing(c) ==
  /\ Goto(c, "tagRest", "returned")
  /\ tags' = [tags EXCEPT ![c].rest = None]
  /\ UNCHANGED <<auth, mlrun, decorated, remote, jobRun, handle>>
TagRest(c) ==
  /\ Goto(c, "tagRest", "returned")
  /\ tags' = [tags EXCEPT ![c].rest = "yes"]
  /\ UNCHANGED <<auth, mlrun, decorated, remote, jobRun, handle>>

(* No step of run is in a handler: whatever raises ends the call, and what  *)
(* was done stays done.                                                     *)
Raise(c) ==
  /\ pc[c] \in Running
  /\ pc' = [pc EXCEPT ![c] = "raised"]
  /\ UNCHANGED <<auth, mlrun, decorated, remote, jobRun, tags, handle>>

-----------------------------------------------------------------------------
(* The service moves a job run on, at its own pace or because someone       *)
(* deletes the run.                                                         *)
Moves(s) ==
  CASE s = "ACCEPTED"        -> {"IN_PROGRESS", "FAILED", "NEEDS_ATTENTION"}
    [] s = "IN_PROGRESS"     -> {"SUCCEEDED", "FAILED", "NEEDS_ATTENTION"}
    [] s = "CANCELING"       -> {"CANCELED"}
    [] OTHER                 -> {}

SetStatus(c, s) ==
  /\ jobRun' = [jobRun EXCEPT ![c] = s]
  /\ outcome' = IF s \in Final /\ outcome[c] = None
                  THEN [outcome EXCEPT ![c] = s] ELSE outcome
  /\ UNCHANGED <<pc, auth, mlrun, decorated, remote, tags, wait>>

MoveOn(c) == \E s \in Moves(jobRun[c]) : SetStatus(c, s)

(* Data Flow stops a run.                                                   *)
Stop(c) ==
  /\ jobRun[c] = "IN_PROGRESS"
  /\ template[c].runtime \in {"dataFlow", "dataFlowNotebook"}
  /\ SetStatus(c, "STOPPED")

DeleteRun(c) ==
  /\ jobRun[c] \in {"SUCCEEDED", "FAILED", "CANCELED", "NEEDS_ATTENTION"}
  /\ SetStatus(c, "DELETED")

(* OCIProjectRun.cancel                                                     *)
Cancel(c) ==
  /\ pc[c] = "returned"
  /\ jobRun[c] \in Active
  /\ SetStatus(c, "CANCELING")

(* Mutants: a run that needs attention, or any run that is over, counts as  *)
(* a success.                                                               *)
SuccessOrAttention == {"SUCCEEDED", "CANCELED", "DELETED", "NEEDS_ATTENTION"}
AnyFinal == Final
SUCCESS_STATUS == {"SUCCEEDED", "CANCELED", "DELETED"}

(* OCIMLflowRunStatusMap, and so get_status, which raises for a status that *)
(* is not in the table.                                                     *)
OCIMLflowRunStatusMap(s) ==
  CASE s = "ACCEPTED"                        -> "SCHEDULED"
    [] s \in {"IN_PROGRESS", "CANCELING"}    -> "RUNNING"
    [] s \in {"FAILED", "NEEDS_ATTENTION"}   -> "FAILED"
    [] s = "SUCCEEDED"                       -> "FINISHED"
    [] s \in {"CANCELED", "DELETED"}         -> "KILLED"
    [] s = "STOPPED"                         -> "UNKNOWN"

WaitStep(c, from, to) ==
  /\ wait[c] = from
  /\ wait' = [wait EXCEPT ![c] = to]
  /\ UNCHANGED <<pc, auth, mlrun, decorated, remote, jobRun, tags, outcome>>

(* OCIProjectRun.wait: watch() returns once the run is over.  A run that    *)
(* needs attention may or may not count as over.                            *)
BeginWait(c) == pc[c] = "returned" /\ WaitStep(c, "no", "watch")

(* Mutant: only success ends watch().                                       *)
WatchSuccess(c) ==
  /\ jobRun[c] = "SUCCEEDED"
  /\ WaitStep(c, "watch", "check")
Watch(c) ==
  /\ jobRun[c] \in Final
  /\ WaitStep(c, "watch", "check")
WatchAttention(c) ==
  /\ jobRun[c] = "NEEDS_ATTENTION"
  /\ WaitStep(c, "watch", "check")

(* Then the status is read again: True, or an exception and never False.    *)
CheckStatus(c) ==
  WaitStep(c, "check", IF jobRun[c] \in SUCCESS_STATUS THEN "true" ELSE "raised")

(* watch() raises, or reading the status does.                              *)
WaitRaises(c) ==
  WaitStep(c, "watch", "raised") \/ WaitStep(c, "check", "raised")

Advance(c) ==
  \/ FetchProject(c) \/ CreateRun(c) \/ SetAuth(c) \/ Decorate(c)
  \/ CreateJob(c) \/ RunJob(c) \/ TagJob(c) \/ TagRun(c) \/ TagRest(c)

Next == \E c \in Call :
  \/ Begin(c) \/ Advance(c) \/ Raise(c)
  \/ MoveOn(c) \/ Stop(c) \/ DeleteRun(c) \/ Cancel(c)
  \/ BeginWait(c) \/ Watch(c) \/ WatchAttention(c) \/ CheckStatus(c)
  \/ WaitRaises(c)

Spec == Init /\ [][Next]_vars

(* The service does not leave a job run where it could move on, and wait    *)
(* polls on.                                                                *)
FairSpec ==
  /\ Spec
  /\ \A c \in Call : /\ WF_vars(MoveOn(c))
                     /\ WF_vars(Watch(c)) /\ WF_vars(CheckStatus(c))

-----------------------------------------------------------------------------
TypeOK ==
  /\ pc \in [Call -> Running \cup Ended \cup {"idle"}]
  /\ auth \in [Proc -> Auth \cup {None}]
  /\ mlrun \subseteq Call
  /\ job \in [Call -> Auth \cup {None}]
  /\ jobRun \in [Call -> Status \cup {None}]
  /\ runAuth \in [Call -> Auth \cup {None}]
  /\ template \in [Call -> Template \cup {None}]
  /\ told \in [Call -> Named]
  /\ label \in [Call -> Call \cup {None}]
  /\ tags \in [Call -> [job : Call \cup {None}, run : Call \cup {None},
                        rest : {"no", "yes"}]]
  /\ wait \in [Call -> {"no", "watch", "check", "true", "raised"}]
  /\ outcome \in [Call -> Final \cup {None}]

(* "setup authentication to create DataScience/DataFlow job": a job and its *)
(* run are created with the authentication of their own call, where a       *)
(* process makes one call at a time (project.py:303-308, 342, 348).         *)
JobUsesOwnAuth ==
  \A c \in Call :
    ProcOf[c] \in SingleThreaded => {job[c], runAuth[c]} \subseteq {None, Requested(c)}

(* A template whose job run does not tell of an MLflow run, if the template *)
(* does not do so itself: line 700 skips the driver's property when the     *)
(* executors have one, a Data Flow notebook is given no properties at all   *)
(* (lines 766-777), and a kind that run does not know is used as it is.     *)
Untold(t) ==
  \/ t.runtime = "dataFlow" /\ t.driver = None /\ t.executor # None
  \/ t.runtime = "dataFlowNotebook" /\ t.driver = None
  \/ t.runtime = "other" /\ t.env = None

(* A job is told of the MLflow run of its own call, which exists by then,   *)
(* or of one that its own template names where its runtime looks for it;    *)
(* never of another call's, and of none at all in exactly the cases of      *)
(* Untold, where it can log to its run only by way of the label that bears  *)
(* its name, and a kind that run does not know has not even that            *)
(* (project.py:643-665, 688-703, 766-777).                                  *)
ReportsToOwnRun ==
  \A c \in Call :
    job[c] # None =>
      LET t == template[c]
          named == IF t.runtime \in {"job", "other"} THEN t.env ELSE t.driver
      IN /\ (told[c] = None) <=> Untold(t)
         /\ told[c] # None => told[c] = named \/ (told[c] = c /\ c \in mlrun)
         /\ label[c] = (IF t.runtime = "other" THEN None ELSE c)

(* What an MLflow run is tagged with exists and is its own job and job run, *)
(* and a handle is returned only when all is tagged (project.py:360-372).   *)
TagsNameOwnJob ==
  \A c \in Call :
    /\ tags[c].job # None => tags[c].job = c /\ job[c] # None /\ c \in mlrun
    /\ tags[c].run # None => tags[c].run = c /\ jobRun[c] # None
    /\ pc[c] = "returned"
         => tags[c].job # None /\ tags[c].run # None /\ tags[c].rest = "yes"

(* What the True of wait tells of a run: it succeeded, or was cancelled, or *)
(* has been deleted, whatever had become of it before, be it failure.  This *)
(* is not the docstring's "Returning `True` if the run succeeded and        *)
(* `False` otherwise." (project.py:172-173): True is given for runs that    *)
(* did not succeed, and there is an exception where False is promised       *)
(* (project.py:66, 177-191).                                                *)
TrueIfSucceededOrKilled ==
  \A c \in Call :
    wait[c] = "true"
      => outcome[c] \in {"SUCCEEDED", "CANCELED"} \/ jobRun[c] = "DELETED"

(* A wait ends, unless its run is one that needs attention.                 *)
WaitEnds ==
  \A c \in Call :
    wait[c] = "watch"
      ~> wait[c] \in {"true", "raised"} \/ jobRun[c] = "NEEDS_ATTENTION"

-----------------------------------------------------------------------------
(* What MLflow sees of a call, in the terms of module SubmittedRun.         *)
StatusOf(c) ==
  IF jobRun[c] = None THEN "NONE" ELSE OCIMLflowRunStatusMap(jobRun[c])
CallerOf(c) == IF pc[c] \in Ended THEN pc[c] ELSE "open"
KnownOf(c) == tags[c].run = c
WaitedOf(c) == IF wait[c] \in {"watch", "check"} THEN "waiting" ELSE wait[c]

Submitted == INSTANCE SubmittedRun WITH
  status <- [c \in Call |-> StatusOf(c)], caller <- [c \in Call |-> CallerOf(c)],
  known <- [c \in Call |-> KnownOf(c)],   waited <- [c \in Call |-> WaitedOf(c)]

(* run and its handle implement module SubmittedRun: one run is submitted   *)
(* for a call, tagged only when it exists and handed out only when tagged;  *)
(* what MLflow is told of it never goes back, but for a failed run that is  *)
(* cancelled; and wait is true only of a run that is finished or killed,    *)
(* which a failed one becomes when it is deleted                            *)
(* (project.py:55-66, 170-204, 348-372).                                    *)
ImplementsSubmittedRun == Submitted!Spec
=============================================================================
