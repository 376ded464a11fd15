---------------------------- MODULE ProjectRunProofs ----------------------------
(***************************************************************************)
(* Theorems about ProjectRun, for any calls, processes, authentication and *)
(* templates.                                                              *)
(***************************************************************************)
EXTENDS ProjectRun, TLAPS

(* Type correctness of OCIProjectBackend.run and OCIProjectRun.             *)
THEOREM TypeCorrect == Spec => []TypeOK
<1>1. Init => TypeOK
  BY ConstantsAssumption DEF Init, TypeOK, Named
<1>2. TypeOK /\ [Next]_vars => TypeOK'
  <2> SUFFICES ASSUME TypeOK, [Next]_vars PROVE TypeOK'
    OBVIOUS
  <2> USE ConstantsAssumption
      DEF TypeOK, Goto, Running, Ended, handle, remote, decorated
  <2>1. ASSUME NEW c \in Call, Begin(c) \/ FetchProject(c) \/ CreateRun(c)
        PROVE  TypeOK'
    BY <2>1 DEF Begin, FetchProject, CreateRun
  <2>2. ASSUME NEW c \in Call, SetAuth(c) PROVE TypeOK'
    BY <2>2 DEF SetAuth
  <2>3. ASSUME NEW c \in Call, Decorate(c) PROVE TypeOK'
    <3>1. PICK t \in TemplatesOf[c] :
            /\ template' = [template EXCEPT ![c] = t]
            /\ told' = [told EXCEPT ![c] = RunIdFor(c, t)]
            /\ label' = [label EXCEPT ![c] = IF t.runtime = "other" THEN None ELSE c]
      BY <2>3 DEF Decorate
    <3>2. /\ t \in Template /\ t.runtime \in Runtime
          /\ t.env \in Named /\ t.driver \in Named
      BY <3>1
    <3>3. RunIdFor(c, t) \in Named
      BY <3>2 DEF RunIdFor, Runtime, Named
    <3>4. /\ template' \in [Call -> Template \cup {None}]
          /\ told' \in [Call -> Named]
          /\ label' \in [Call -> Call \cup {None}]
      BY <3>1, <3>2, <3>3
    <3>5. pc' \in [Call -> Running \cup Ended \cup {"idle"}]
      BY <2>3 DEF Decorate
    <3>6. QED BY <2>3, <3>4, <3>5 DEF Decorate
  <2>4. ASSUME NEW c \in Call, CreateJob(c) PROVE TypeOK'
    BY <2>4 DEF CreateJob
  <2>5. ASSUME NEW c \in Call, RunJob(c) PROVE TypeOK'
    BY <2>5 DEF RunJob, Status, Active
  <2>6. ASSUME NEW c \in Call, TagJob(c) PROVE TypeOK'
    BY <2>6 DEF TagJob
  <2>7. ASSUME NEW c \in Call, TagRun(c) PROVE TypeOK'
    BY <2>7 DEF TagRun
  <2>8. ASSUME NEW c \in Call, TagRest(c) PROVE TypeOK'
    BY <2>8 DEF TagRest
  <2>9. ASSUME NEW c \in Call, Raise(c) PROVE TypeOK'
    BY <2>9 DEF Raise
  <2>10. ASSUME NEW c \in Call, NEW s \in Status, SetStatus(c, s) PROVE TypeOK'
    BY <2>10 DEF SetStatus
  <2>11. ASSUME NEW c \in Call, MoveOn(c) \/ Stop(c) \/ DeleteRun(c) \/ Cancel(c)
         PROVE  TypeOK'
    <3>1. \E s \in Status : SetStatus(c, s)
      BY <2>11 DEF MoveOn, Stop, Moves, DeleteRun, Cancel, Status, Active, Final
    <3>2. QED BY <2>10, <3>1
  <2>12. ASSUME NEW c \in Call,
                \/ BeginWait(c) \/ Watch(c) \/ WatchAttention(c)
                \/ CheckStatus(c) \/ WaitRaises(c)
         PROVE  TypeOK'
    <3>1. /\ \E to \in {"watch", "check", "true", "raised"} :
               wait' = [wait EXCEPT ![c] = to]
          /\ UNCHANGED <<pc, auth, mlrun, decorated, remote, jobRun, tags, outcome>>
      BY <2>12 DEF BeginWait, Watch, WatchAttention, CheckStatus, WaitRaises,
                   WaitStep
    <3>2. QED BY <3>1
  <2>13. CASE UNCHANGED vars
    BY <2>13 DEF vars
  <2>14. QED
    BY <2>1, <2>2, <2>3, <2>4, <2>5, <2>6, <2>7, <2>8, <2>9, <2>11, <2>12, <2>13
    DEF Next, Advance
<1>3. QED
  BY <1>1, <1>2, PTL DEF Spec

-----------------------------------------------------------------------------
(***************************************************************************)
(* The inductive invariant, in parts: who may run, whose authentication is *)
(* set, what exists of a call by where it is, and what is known of the     *)
(* status of its job run.                                                  *)
(***************************************************************************)
OneAtATime ==
  \A c, o \in Call :
    /\ ProcOf[c] \in SingleThreaded /\ ProcOf[o] = ProcOf[c]
    /\ pc[c] \in Running /\ pc[o] \in Running
    => c = o

AuthInv ==
  \A c \in Call :
    pc[c] \in {"decorate", "createJob", "runJob"} =>
      /\ auth[ProcOf[c]] # None
      /\ ProcOf[c] \in SingleThreaded => auth[ProcOf[c]] = Requested(c)

(* A process of one thread makes one call of run at a time, and the         *)
(* authentication it set is there until its job is started                  *)
(* (project.py:304-348).                                                    *)
THEOREM AuthInvHolds == Spec => [](OneAtATime /\ AuthInv /\ JobUsesOwnAuth)
<1> DEFINE I == OneAtATime /\ AuthInv /\ JobUsesOwnAuth
<1>1. Init => I
  BY DEF Init, OneAtATime, AuthInv, JobUsesOwnAuth, Running
<1>2. TypeOK /\ I /\ [Next]_vars => I'
  <2> SUFFICES ASSUME TypeOK, I, [Next]_vars PROVE I'
    OBVIOUS
  <2> USE ConstantsAssumption
      DEF TypeOK, Goto, Running, Ended, handle, remote, decorated
  <2>1. ASSUME NEW c \in Call, Begin(c) PROVE I'
    BY <2>1 DEF Begin, OneAtATime, AuthInv, JobUsesOwnAuth, Requested, IamType
  <2>2. ASSUME NEW c \in Call,
               FetchProject(c) \/ CreateRun(c) \/ TagJob(c) \/ TagRun(c) \/ TagRest(c)
        PROVE  I'
    BY <2>2 DEF FetchProject, CreateRun, TagJob, TagRun, TagRest,
                OneAtATime, AuthInv, JobUsesOwnAuth, Requested, IamType
  <2>3. ASSUME NEW c \in Call, SetAuth(c) PROVE I'
    <3>1. OneAtATime'
      BY <2>3 DEF SetAuth, OneAtATime
    <3>2. ASSUME NEW o \in Call, pc'[o] \in {"decorate", "createJob", "runJob"}
          PROVE  /\ auth'[ProcOf[o]] # None
                 /\ ProcOf[o] \in SingleThreaded => auth'[ProcOf[o]] = Requested(o)
      <4>1. Requested(c) \in Auth /\ Requested(c) # None
        BY <2>3 DEF SetAuth
      <4>2. CASE o = c
        BY <2>3, <4>1, <4>2 DEF SetAuth
      <4>3. CASE o # c
        <5>1. pc'[o] = pc[o]
          BY <2>3, <4>3 DEF SetAuth
        <5>2. ProcOf[o] \in SingleThreaded => ProcOf[o] # ProcOf[c]
          BY <2>3, <3>2, <4>3, <5>1 DEF SetAuth, OneAtATime
        <5>3. QED BY <2>3, <3>2, <4>1, <5>1, <5>2 DEF SetAuth, AuthInv
      <4>4. QED BY <4>2, <4>3
    <3>3. AuthInv'
      BY <3>2 DEF AuthInv, Requested, IamType
    <3>4. JobUsesOwnAuth'
      BY <2>3 DEF SetAuth, JobUsesOwnAuth, Requested, IamType
    <3>5. QED BY <3>1, <3>3, <3>4
  <2>4. ASSUME NEW c \in Call, Decorate(c) PROVE I'
    BY <2>4 DEF Decorate, OneAtATime, AuthInv, JobUsesOwnAuth, Requested, IamType
  <2>5. ASSUME NEW c \in Call, CreateJob(c) PROVE I'
    <3>1. OneAtATime' /\ AuthInv'
      BY <2>5 DEF CreateJob, OneAtATime, AuthInv, Requested, IamType
    <3>2. pc[c] = "createJob"
      BY <2>5 DEF CreateJob
    <3>3. ProcOf[c] \in SingleThreaded => job'[c] = Requested(c)
      BY <2>5, <3>2 DEF CreateJob, AuthInv
    <3>4. JobUsesOwnAuth'
      BY <2>5, <3>3 DEF CreateJob, JobUsesOwnAuth, Requested, IamType
    <3>5. QED BY <3>1, <3>4
  <2>6. ASSUME NEW c \in Call, RunJob(c) PROVE I'
    <3>1. OneAtATime' /\ AuthInv'
      BY <2>6 DEF RunJob, OneAtATime, AuthInv, Requested, IamType
    <3>2. pc[c] = "runJob"
      BY <2>6 DEF RunJob
    <3>3. ProcOf[c] \in SingleThreaded => runAuth'[c] = Requested(c)
      BY <2>6, <3>2 DEF RunJob, AuthInv
    <3>4. JobUsesOwnAuth'
      BY <2>6, <3>3 DEF RunJob, JobUsesOwnAuth, Requested, IamType
    <3>5. QED BY <3>1, <3>4
  <2>7. ASSUME NEW c \in Call, Raise(c) PROVE I'
    BY <2>7 DEF Raise, OneAtATime, AuthInv, JobUsesOwnAuth, Requested, IamType
  <2>8. ASSUME NEW c \in Call,
               \/ MoveOn(c) \/ Stop(c) \/ DeleteRun(c) \/ Cancel(c)
               \/ BeginWait(c) \/ Watch(c) \/ WatchAttention(c)
               \/ CheckStatus(c) \/ WaitRaises(c) \/ UNCHANGED vars
        PROVE  I'
    <3>1. UNCHANGED <<pc, auth, job, runAuth>>
      BY <2>8 DEF MoveOn, Stop, DeleteRun, Cancel, SetStatus, BeginWait, Watch,
                  WatchAttention, CheckStatus, WaitRaises, WaitStep, vars
    <3>2. QED BY <3>1 DEF OneAtATime, AuthInv, JobUsesOwnAuth, Requested, IamType
  <2>9. QED
    BY <2>1, <2>2, <2>3, <2>4, <2>5, <2>6, <2>7, <2>8 DEF Next, Advance, vars,
       OneAtATime, AuthInv, JobUsesOwnAuth, Requested, IamType
<1>3. QED
  BY <1>1, <1>2, TypeCorrect, PTL DEF Spec

-----------------------------------------------------------------------------
(* What exists of a call follows from where it is.                          *)
Decorated == {"createJob", "runJob", "tagJob", "tagRun", "tagRest", "returned"}
ProgressOK(c) ==
  /\ pc[c] \in {"setAuth", "decorate"} \cup Decorated => c \in mlrun
  /\ pc[c] \in Decorated => template[c] # None
  /\ pc[c] \in Decorated \ {"createJob"} => job[c] # None
  /\ pc[c] \in Decorated \ {"createJob", "runJob"} => jobRun[c] # None
  /\ pc[c] \in {"tagRun", "tagRest", "returned"} => tags[c].job # None
  /\ pc[c] \in {"tagRest", "returned"} => tags[c].run # None
  /\ pc[c] = "returned" => tags[c].rest = "yes"
  /\ job[c] # None => template[c] # None

(* The job is told of its MLflow run by its template and the call alone.    *)
DecoratedOK(c) ==
  template[c] # None =>
    /\ template[c] \in Template /\ c \in mlrun
    /\ told[c] = RunIdFor(c, template[c])
    /\ label[c] = IF template[c].runtime = "other" THEN None ELSE c

TagsOK(c) ==
  /\ tags[c].job # None => tags[c].job = c /\ job[c] # None /\ c \in mlrun
  /\ tags[c].run # None => tags[c].run = c /\ jobRun[c] # None

ProgressInv == \A c \in Call : ProgressOK(c) /\ DecoratedOK(c) /\ TagsOK(c)

(* run goes step by step, and what a step made stays                        *)
(* (project.py:257-372).                                                    *)
THEOREM ProgressInvHolds == Spec => []ProgressInv
<1>1. Init => ProgressInv
  <2> SUFFICES ASSUME Init, NEW c \in Call
               PROVE  ProgressOK(c) /\ DecoratedOK(c) /\ TagsOK(c)
    BY DEF ProgressInv
  <2>1. /\ pc[c] = "idle" /\ job[c] = None /\ template[c] = None
        /\ tags[c].job = None /\ tags[c].run = None
    BY DEF Init
  <2>2. QED BY <2>1 DEF ProgressOK, DecoratedOK, TagsOK, Decorated
<1>2. TypeOK /\ AuthInv /\ ProgressInv /\ [Next]_vars => ProgressInv'
  <2> SUFFICES ASSUME TypeOK, AuthInv, ProgressInv, [Next]_vars, NEW o \in Call
               PROVE  (ProgressOK(o) /\ TagsOK(o) /\ DecoratedOK(o))'
    BY DEF ProgressInv
  <2> ProgressOK(o) /\ TagsOK(o)
    BY DEF ProgressInv
  <2> USE ConstantsAssumption
      DEF TypeOK, Goto, Running, handle, remote, decorated,
          ProgressOK, TagsOK, Decorated
  <2>1. ASSUME NEW c \in Call,
               Begin(c) \/ FetchProject(c) \/ CreateRun(c) \/ SetAuth(c) \/ Raise(c)
        PROVE  (ProgressOK(o) /\ TagsOK(o))'
    BY <2>1 DEF Begin, FetchProject, CreateRun, SetAuth, Raise
  <2>2. ASSUME NEW c \in Call, Decorate(c)
        PROVE  (ProgressOK(o) /\ TagsOK(o))'
    <3>1. PICK t \in TemplatesOf[c] : template' = [template EXCEPT ![c] = t]
      BY <2>2 DEF Decorate
    <3>2. t # None
      BY <3>1
    <3>3. QED BY <2>2, <3>1, <3>2 DEF Decorate
  <2>3. ASSUME NEW c \in Call, CreateJob(c)
        PROVE  (ProgressOK(o) /\ TagsOK(o))'
    <3>1. pc[c] = "createJob" /\ auth[ProcOf[c]] # None
      BY <2>3 DEF CreateJob, AuthInv
    <3>2. QED BY <2>3, <3>1 DEF CreateJob
  <2>4. ASSUME NEW c \in Call, RunJob(c)
        PROVE  (ProgressOK(o) /\ TagsOK(o))'
    BY <2>4 DEF RunJob, Status, Active
  <2>5. ASSUME NEW c \in Call, TagJob(c)
        PROVE  (ProgressOK(o) /\ TagsOK(o))'
    BY <2>5 DEF TagJob
  <2>6. ASSUME NEW c \in Call, TagRun(c)
        PROVE  (ProgressOK(o) /\ TagsOK(o))'
    BY <2>6 DEF TagRun
  <2>7. ASSUME NEW c \in Call, TagRest(c)
        PROVE  (ProgressOK(o) /\ TagsOK(o))'
    BY <2>7 DEF TagRest
  <2>8. ASSUME NEW c \in Call, MoveOn(c) \/ Stop(c) \/ DeleteRun(c) \/ Cancel(c)
        PROVE  (ProgressOK(o) /\ TagsOK(o))'
    <3>1. /\ UNCHANGED <<pc, auth, mlrun, decorated, remote, tags>>
          /\ \E s \in Status : jobRun' = [jobRun EXCEPT ![c] = s]
      BY <2>8 DEF MoveOn, Stop, Moves, DeleteRun, Cancel, SetStatus, Status, Active, Final
    <3>2. QED BY <3>1
  <2>9. ASSUME NEW c \in Call,
               \/ BeginWait(c) \/ Watch(c) \/ WatchAttention(c)
               \/ CheckStatus(c) \/ WaitRaises(c)
        PROVE  (ProgressOK(o) /\ TagsOK(o))'
    BY <2>9 DEF BeginWait, Watch, WatchAttention, CheckStatus, WaitRaises, WaitStep
  <2>10. ASSUME UNCHANGED vars PROVE (ProgressOK(o) /\ TagsOK(o))'
    BY <2>10 DEF vars
  <2>11. DecoratedOK(o)'
    <3>1. CASE UNCHANGED decorated
      <4>1. mlrun \subseteq mlrun'
        BY DEF Next, Advance, vars, Begin, FetchProject, CreateRun, SetAuth,
               Decorate, CreateJob, RunJob, TagJob, TagRun, TagRest, Raise, MoveOn, Stop,
               DeleteRun, Cancel, SetStatus, BeginWait, Watch, WatchAttention,
               CheckStatus, WaitRaises, WaitStep
      <4>2. QED BY <3>1, <4>1 DEF DecoratedOK, ProgressInv
    <3>2. CASE \E c \in Call : Decorate(c)
      <4>1. PICK c \in Call : Decorate(c)
        BY <3>2
      <4>2. PICK t \in TemplatesOf[c] :
              /\ template' = [template EXCEPT ![c] = t]
              /\ told' = [told EXCEPT ![c] = RunIdFor(c, t)]
              /\ label' = [label EXCEPT ![c] = IF t.runtime = "other" THEN None ELSE c]
        BY <4>1 DEF Decorate
      <4>3. t \in Template /\ c \in mlrun /\ mlrun' = mlrun
        BY <4>1, <4>2 DEF Decorate, ProgressInv
      <4>4. CASE o = c
        <5>1. /\ template'[o] = t /\ told'[o] = RunIdFor(c, t)
              /\ label'[o] = IF t.runtime = "other" THEN None ELSE c
          BY <4>2, <4>4
        <5>2. QED BY <4>3, <4>4, <5>1 DEF DecoratedOK
      <4>5. CASE o # c
        <5>1. template'[o] = template[o] /\ told'[o] = told[o] /\ label'[o] = label[o]
          BY <4>2, <4>5
        <5>2. QED BY <4>3, <5>1 DEF DecoratedOK, ProgressInv
      <4>6. QED BY <4>4, <4>5
    <3>3. QED
      BY <3>1, <3>2
      DEF Next, Advance, vars, Begin, FetchProject, CreateRun, SetAuth, CreateJob,
          RunJob, TagJob, TagRun, TagRest, Raise, MoveOn, Stop, DeleteRun, Cancel,
          SetStatus, BeginWait, Watch, WatchAttention, CheckStatus, WaitRaises,
          WaitStep
  <2>12. QED
    BY <2>1, <2>2, <2>3, <2>4, <2>5, <2>6, <2>7, <2>8, <2>9, <2>10, <2>11
    DEF Next, Advance
<1>3. QED
  BY <1>1, <1>2, TypeCorrect, AuthInvHolds, PTL DEF Spec

-----------------------------------------------------------------------------
(* What is known of the status of a job run, and of who waits for it.       *)
StatusOK(c) ==
  /\ wait[c] # "no" => pc[c] = "returned"
  /\ pc[c] \in {"idle", "fetch", "createRun", "setAuth", "decorate",
                "createJob", "runJob"} => jobRun[c] = None
  /\ outcome[c] # None => jobRun[c] \in Final
  /\ jobRun[c] \in Final \ {"DELETED"} => outcome[c] = jobRun[c]
  /\ wait[c] = "true" => jobRun[c] \in SUCCESS_STATUS

StatusInv == \A c \in Call : StatusOK(c)

(* A job run ends once, may then be deleted, and nothing else; wait is      *)
(* called on what run returned (project.py:55-66, 170-199).                 *)
THEOREM StatusInvHolds == Spec => []StatusInv
<1>1. Init => StatusInv
  BY ConstantsAssumption DEF Init, StatusInv, StatusOK, Final, Status
<1>2. TypeOK /\ StatusInv /\ [Next]_vars => StatusInv'
  <2> SUFFICES ASSUME TypeOK, StatusInv, [Next]_vars, NEW o \in Call
               PROVE  StatusOK(o)'
    BY DEF StatusInv
  <2> StatusOK(o)
    BY DEF StatusInv
  <2> USE ConstantsAssumption
      DEF TypeOK, Goto, Running, handle, remote, decorated, StatusOK, Status,
          Active, Final, SUCCESS_STATUS
  <2>1. ASSUME NEW c \in Call,
               \/ Begin(c) \/ FetchProject(c) \/ CreateRun(c) \/ SetAuth(c)
               \/ Raise(c) \/ CreateJob(c)
        PROVE  StatusOK(o)'
    BY <2>1 DEF Begin, FetchProject, CreateRun, SetAuth, Raise, CreateJob
  <2>2. ASSUME NEW c \in Call,
               Decorate(c) \/ TagJob(c) \/ TagRun(c) \/ TagRest(c)
        PROVE  StatusOK(o)'
    BY <2>2 DEF Decorate, TagJob, TagRun, TagRest
  <2>3. ASSUME NEW c \in Call, RunJob(c) PROVE StatusOK(o)'
    <3>1. pc[c] = "runJob" /\ StatusOK(c)
      BY <2>3 DEF RunJob, StatusInv
    <3>2. QED BY <2>3, <3>1 DEF RunJob
  <2>4. ASSUME NEW c \in Call, MoveOn(c) PROVE StatusOK(o)'
    <3>1. PICK s \in Moves(jobRun[c]) : SetStatus(c, s)
      BY <2>4 DEF MoveOn
    <3>2. /\ jobRun[c] \in {"ACCEPTED", "IN_PROGRESS", "CANCELING"}
          /\ s \in Status
      BY <3>1 DEF Moves
    <3>3. outcome[c] = None /\ wait[c] # "true" /\ pc[c] = pc'[c]
      BY <3>1, <3>2 DEF SetStatus, StatusInv
    <3>4. QED BY <3>1, <3>2, <3>3 DEF SetStatus, StatusInv
  <2>5. ASSUME NEW c \in Call, DeleteRun(c) PROVE StatusOK(o)'
    BY <2>5 DEF DeleteRun, SetStatus
  <2>11. ASSUME NEW c \in Call, Stop(c) PROVE StatusOK(o)'
    <3>1. outcome[c] = None /\ wait[c] # "true" /\ jobRun[c] # None
      BY <2>11 DEF Stop, StatusInv
    <3>2. QED BY <2>11, <3>1 DEF Stop, SetStatus, StatusInv
  <2>6. ASSUME NEW c \in Call, Cancel(c) PROVE StatusOK(o)'
    BY <2>6 DEF Cancel, SetStatus
  <2>7. ASSUME NEW c \in Call,
               \/ BeginWait(c) \/ Watch(c) \/ WatchAttention(c) \/ WaitRaises(c)
        PROVE  StatusOK(o)'
    BY <2>7 DEF BeginWait, Watch, WatchAttention, WaitRaises, WaitStep
  <2>8. ASSUME NEW c \in Call, CheckStatus(c) PROVE StatusOK(o)'
    BY <2>8 DEF CheckStatus, WaitStep
  <2>9. CASE UNCHANGED vars
    BY <2>9 DEF vars
  <2>10. QED
    BY <2>1, <2>2, <2>3, <2>4, <2>5, <2>6, <2>7, <2>8, <2>9, <2>11
    DEF Next, Advance
<1>3. QED
  BY <1>1, <1>2, TypeCorrect, PTL DEF Spec

-----------------------------------------------------------------------------
(* A job and its run are created with the authentication of their own call, *)
(* in every process that makes one call at a time (project.py:303-348).     *)
THEOREM JobUsesOwnAuthHolds == Spec => []JobUsesOwnAuth
BY AuthInvHolds, PTL

(* What an MLflow run is tagged with exists and is its own                  *)
(* (project.py:360-417).                                                    *)
THEOREM TagsNameOwnJobHolds == Spec => []TagsNameOwnJob
<1>1. ProgressInv => TagsNameOwnJob
  BY DEF ProgressInv, ProgressOK, TagsOK, TagsNameOwnJob
<1>2. QED BY <1>1, ProgressInvHolds, PTL

(* A job is told of the run of its own call, or of one its template names,  *)
(* or of none in the cases of Untold (project.py:643-665, 688-703, 766-777).*)
THEOREM ReportsToOwnRunHolds == Spec => []ReportsToOwnRun
<1>1. TypeOK /\ ProgressInv => ReportsToOwnRun
  <2> SUFFICES ASSUME TypeOK, ProgressInv, NEW c \in Call, job[c] # None
               PROVE  LET t == template[c]
                          named == IF t.runtime \in {"job", "other"}
                                     THEN t.env ELSE t.driver
                      IN /\ (told[c] = None) <=> Untold(t)
                         /\ told[c] # None
                              => told[c] = named \/ (told[c] = c /\ c \in mlrun)
                         /\ label[c] = (IF t.runtime = "other" THEN None ELSE c)
    BY DEF ReportsToOwnRun
  <2> DEFINE t == template[c]
  <2>1. /\ t \in Template /\ c \in mlrun /\ told[c] = RunIdFor(c, t)
        /\ label[c] = IF t.runtime = "other" THEN None ELSE c
    BY DEF ProgressInv, ProgressOK, DecoratedOK
  <2>2. t.runtime \in {"job", "dataFlow", "dataFlowNotebook", "other"} /\ c # None
    BY <2>1, ConstantsAssumption DEF Runtime
  <2>3. (RunIdFor(c, t) = None) <=> Untold(t)
    BY <2>2 DEF RunIdFor, Untold
  <2>4. /\ t.runtime \in {"job", "other"} => RunIdFor(c, t) \in {c, t.env}
        /\ t.runtime \notin {"job", "other"} => RunIdFor(c, t) \in {c, t.driver}
    BY <2>2 DEF RunIdFor
  <2>5. QED BY <2>1, <2>3, <2>4
<1>2. QED BY <1>1, TypeCorrect, ProgressInvHolds, PTL

(* wait returns True of a run that succeeded, was cancelled or has been     *)
(* deleted, and of no other (project.py:66, 177-191).                       *)
THEOREM TrueIfSucceededOrKilledHolds == Spec => []TrueIfSucceededOrKilled
<1>1. StatusInv => TrueIfSucceededOrKilled
  BY DEF StatusInv, StatusOK, TrueIfSucceededOrKilled, SUCCESS_STATUS, Final
<1>2. QED BY <1>1, StatusInvHolds, PTL

-----------------------------------------------------------------------------
(* A step of the code is a step of SubmittedRun: what MLflow sees of one    *)
(* call changes, in one of these ways, and of no other.                     *)
OthersStay(c) ==
  \A o \in Call \ {c} :
    /\ StatusOf(o)' = StatusOf(o) /\ CallerOf(o)' = CallerOf(o)
    /\ KnownOf(o)' = KnownOf(o) /\ WaitedOf(o)' = WaitedOf(o)

StatusStays(c) == StatusOf(c)' = StatusOf(c)
CallerStays(c) == CallerOf(c)' = CallerOf(c)
WaitStays(c) == WaitedOf(c)' = WaitedOf(c)
KnownStays(c) == KnownOf(c)' = KnownOf(c)

Stays(c) == StatusStays(c) /\ CallerStays(c) /\ KnownStays(c) /\ WaitStays(c)
Submits(c) ==
  /\ CallerOf(c) = "open" /\ CallerOf(c)' \in {"open", "raised"}
  /\ StatusOf(c) = "NONE" /\ StatusOf(c)' = "SCHEDULED"
  /\ KnownStays(c) /\ WaitStays(c)
Records(c) ==
  /\ CallerOf(c) = "open" /\ StatusOf(c) # "NONE" /\ KnownOf(c)' = TRUE
  /\ StatusStays(c) /\ CallerStays(c) /\ WaitStays(c)
Returns(c) ==
  /\ CallerOf(c) = "open" /\ StatusOf(c) # "NONE" /\ KnownOf(c) = TRUE
  /\ CallerOf(c)' = "returned"
  /\ StatusStays(c) /\ KnownStays(c) /\ WaitStays(c)
Raises(c) ==
  /\ CallerOf(c) = "open" /\ CallerOf(c)' = "raised"
  /\ StatusStays(c) /\ KnownStays(c) /\ WaitStays(c)
Proceeds(c) ==
  /\ <<StatusOf(c), StatusOf(c)'>> \in Submitted!StatusMoves
  /\ CallerStays(c) /\ KnownStays(c) /\ WaitStays(c)
Cancels(c) ==
  /\ CallerOf(c) = "returned"
  /\ StatusOf(c) \in {"SCHEDULED", "RUNNING", "FAILED"} /\ StatusOf(c)' = "RUNNING"
  /\ CallerStays(c) /\ KnownStays(c) /\ WaitStays(c)
Waits(c) ==
  /\ \/ CallerOf(c) = "returned" /\ WaitedOf(c) = "no" /\ WaitedOf(c)' = "waiting"
     \/ /\ WaitedOf(c) = "waiting" /\ StatusOf(c) \in {"FINISHED", "KILLED"}
        /\ WaitedOf(c)' = "true"
     \/ WaitedOf(c) = "waiting" /\ WaitedOf(c)' = "raised"
  /\ StatusStays(c) /\ CallerStays(c) /\ KnownStays(c)

LEMMA SubmittedStep ==
  ASSUME NEW c \in Call, OthersStay(c),
         \/ Stays(c) \/ Submits(c) \/ Records(c) \/ Returns(c) \/ Raises(c)
         \/ Proceeds(c) \/ Cancels(c) \/ Waits(c)
  PROVE  [Submitted!Next]_(Submitted!vars)
<1> DEFINE status == [o \in Call |-> StatusOf(o)]
           caller == [o \in Call |-> CallerOf(o)]
           known == [o \in Call |-> KnownOf(o)]
           waited == [o \in Call |-> WaitedOf(o)]
<1>1. /\ status' = [status EXCEPT ![c] = StatusOf(c)']
      /\ caller' = [caller EXCEPT ![c] = CallerOf(c)']
      /\ waited' = [waited EXCEPT ![c] = WaitedOf(c)']
  BY DEF OthersStay
<1>2. known' = [known EXCEPT ![c] = KnownOf(c)']
  BY Zenon DEF OthersStay
<1>3. /\ status[c] = StatusOf(c) /\ caller[c] = CallerOf(c)
      /\ known[c] = KnownOf(c) /\ waited[c] = WaitedOf(c)
  OBVIOUS
<1>4. /\ StatusStays(c) => status' = status
      /\ CallerStays(c) => caller' = caller
      /\ WaitStays(c) => waited' = waited
  BY <1>1 DEF StatusStays, CallerStays, WaitStays
<1>5. KnownStays(c) => known' = known
  BY Zenon DEF OthersStay, KnownStays
<1> HIDE DEF status, caller, known, waited
<1>6. CASE Stays(c)
  <2>1. status' = status /\ caller' = caller /\ known' = known /\ waited' = waited
    BY <1>4, <1>5, <1>6 DEF Stays
  <2>2. QED BY <2>1 DEF Submitted!vars, status, caller, known, waited
<1>7. CASE Submits(c)
  <2>1. caller' \in {caller, [caller EXCEPT ![c] = "raised"]}
    BY <1>1, <1>3, <1>4, <1>7 DEF Submits, CallerStays
  <2>2. Submitted!Submit(c)
    BY <1>1, <1>3, <1>4, <1>5, <1>7, <2>1
    DEF Submits, Submitted!Submit, Submitted!Move, status, caller, known, waited
  <2>3. QED BY <2>2 DEF Submitted!Next
<1>8. CASE Records(c)
  <2>1. Submitted!Record(c)
    BY <1>2, <1>3, <1>4, <1>8, Zenon
    DEF Records, Submitted!Record, status, caller, known, waited
  <2>2. QED BY <2>1 DEF Submitted!Next
<1>9. CASE Returns(c)
  <2>1. Submitted!Return(c)
    BY <1>1, <1>3, <1>4, <1>5, <1>9
    DEF Returns, Submitted!Return, status, caller, known, waited
  <2>2. QED BY <2>1 DEF Submitted!Next
<1>10. CASE Raises(c)
  <2>1. Submitted!Raise(c)
    BY <1>1, <1>3, <1>4, <1>5, <1>10
    DEF Raises, Submitted!Raise, status, caller, known, waited
  <2>2. QED BY <2>1 DEF Submitted!Next
<1>11. CASE Proceeds(c)
  <2>1. StatusOf(c)' \in {"RUNNING", "FINISHED", "FAILED", "KILLED", "UNKNOWN"}
    BY <1>11 DEF Proceeds, Submitted!StatusMoves
  <2>2. Submitted!Proceed(c)
    BY <1>1, <1>3, <1>4, <1>5, <1>11, <2>1
    DEF Proceeds, Submitted!Proceed, Submitted!Move, status, caller, known, waited
  <2>3. QED BY <2>2 DEF Submitted!Next
<1>12. CASE Cancels(c)
  <2>1. Submitted!Cancel(c)
    BY <1>1, <1>3, <1>4, <1>5, <1>12
    DEF Cancels, Submitted!Cancel, Submitted!Move, status, caller, known, waited
  <2>2. QED BY <2>1 DEF Submitted!Next
<1>13. CASE Waits(c)
  <2>1. Submitted!Wait(c)
    BY <1>1, <1>3, <1>4, <1>5, <1>13
    DEF Waits, Submitted!Wait, status, caller, known, waited
  <2>2. QED BY <2>1 DEF Submitted!Next
<1>14. QED BY <1>6, <1>7, <1>8, <1>9, <1>10, <1>11, <1>12, <1>13

(* run and its handle keep what SubmittedRun promises: one run is submitted *)
(* for a call, tagged only when it exists and handed out only when tagged;  *)
(* the status MLflow is told of never goes back, but for a failed run that  *)
(* is cancelled; and wait is true only of a run that is finished or killed, *)
(* which a failed one becomes when it is deleted                            *)
(* (project.py:55-66, 170-204, 348-372).                                    *)
THEOREM Implementation == Spec => ImplementsSubmittedRun
<1>1. Init => Submitted!Init
  <2> SUFFICES ASSUME Init PROVE Submitted!Init
    OBVIOUS
  <2>1. ASSUME NEW c \in Call
        PROVE  /\ StatusOf(c) = "NONE" /\ CallerOf(c) = "open"
               /\ KnownOf(c) = FALSE /\ WaitedOf(c) = "no"
    BY ConstantsAssumption
    DEF Init, StatusOf, CallerOf, KnownOf, WaitedOf, Ended
  <2>2. /\ [c \in Call |-> StatusOf(c)] = [c \in Call |-> "NONE"]
        /\ [c \in Call |-> CallerOf(c)] = [c \in Call |-> "open"]
        /\ [c \in Call |-> WaitedOf(c)] = [c \in Call |-> "no"]
    BY <2>1
  <2>3. [c \in Call |-> KnownOf(c)] = [c \in Call |-> FALSE]
    BY <2>1, Zenon
  <2>4. QED BY <2>2, <2>3, Zenon DEF Submitted!Init
<1>2. TypeOK /\ ProgressInv /\ StatusInv /\ [Next]_vars
        => [Submitted!Next]_(Submitted!vars)
  <2> SUFFICES ASSUME TypeOK, ProgressInv, StatusInv, [Next]_vars
               PROVE  [Submitted!Next]_(Submitted!vars)
    OBVIOUS
  <2> USE ConstantsAssumption
      DEF TypeOK, Goto, handle, remote, decorated, Running, Ended, OthersStay,
          StatusStays, CallerStays, KnownStays, WaitStays
  <2>1. ASSUME NEW c \in Call,
               \/ Begin(c) \/ FetchProject(c) \/ CreateRun(c) \/ SetAuth(c)
               \/ Decorate(c) \/ TagJob(c)
        PROVE  [Submitted!Next]_(Submitted!vars)
    <3>1. /\ UNCHANGED <<jobRun, wait>> /\ pc[c] \notin Ended
          /\ \E to \in Running : pc' = [pc EXCEPT ![c] = to]
          /\ \A o \in Call : tags'[o].run = tags[o].run
      BY <2>1 DEF Begin, FetchProject, CreateRun, SetAuth, Decorate, TagJob
    <3>2. OthersStay(c) /\ Stays(c)
      BY <3>1 DEF Stays, StatusOf, CallerOf, KnownOf, WaitedOf
    <3>3. QED BY <3>2, SubmittedStep
  <2>2. ASSUME NEW c \in Call, CreateJob(c) \/ Raise(c)
        PROVE  [Submitted!Next]_(Submitted!vars)
    <3>1. /\ UNCHANGED <<jobRun, wait, tags>> /\ pc[c] \notin Ended
          /\ \E to \in {"runJob", "raised"} : pc' = [pc EXCEPT ![c] = to]
      BY <2>2 DEF CreateJob, Raise
    <3>2. OthersStay(c) /\ (Stays(c) \/ Raises(c))
      BY <3>1 DEF Stays, Raises, StatusOf, CallerOf, KnownOf, WaitedOf
    <3>3. QED BY <3>2, SubmittedStep
  <2>3. ASSUME NEW c \in Call, RunJob(c) PROVE [Submitted!Next]_(Submitted!vars)
    <3>1. /\ UNCHANGED <<wait, tags>> /\ pc[c] = "runJob"
          /\ \E to \in {"tagJob", "raised"} : pc' = [pc EXCEPT ![c] = to]
          /\ jobRun' = [jobRun EXCEPT ![c] = "ACCEPTED"]
      BY <2>3 DEF RunJob
    <3>2. jobRun[c] = None
      BY <3>1 DEF StatusInv, StatusOK
    <3>3. OthersStay(c)
      BY <3>1 DEF StatusOf, CallerOf, KnownOf, WaitedOf
    <3>4. Submits(c)
      BY <3>1, <3>2
      DEF Submits, StatusOf, CallerOf, KnownOf, WaitedOf, OCIMLflowRunStatusMap,
          Status, Active
    <3>5. QED BY <3>3, <3>4, SubmittedStep
  <2>4. ASSUME NEW c \in Call, TagRun(c) PROVE [Submitted!Next]_(Submitted!vars)
    <3>1. /\ UNCHANGED <<wait, jobRun>> /\ pc[c] = "tagRun"
          /\ pc' = [pc EXCEPT ![c] = "tagRest"]
          /\ tags'[c].run = c /\ \A o \in Call \ {c} : tags'[o] = tags[o]
      BY <2>4 DEF TagRun
    <3>2. jobRun[c] # None
      BY <3>1 DEF ProgressInv, ProgressOK, Decorated
    <3>3. OthersStay(c)
      BY <3>1 DEF StatusOf, CallerOf, KnownOf, WaitedOf
    <3>4. StatusOf(c) # "NONE"
      BY <3>2 DEF StatusOf, OCIMLflowRunStatusMap, Status, Active, Final
    <3>5. Records(c)
      BY <3>1, <3>4 DEF Records, StatusOf, CallerOf, KnownOf, WaitedOf
    <3>6. QED BY <3>3, <3>5, SubmittedStep
  <2>5. ASSUME NEW c \in Call, TagRest(c) PROVE [Submitted!Next]_(Submitted!vars)
    <3>1. /\ UNCHANGED <<wait, jobRun>> /\ pc[c] = "tagRest"
          /\ pc' = [pc EXCEPT ![c] = "returned"]
          /\ \A o \in Call : tags'[o].run = tags[o].run
      BY <2>5 DEF TagRest
    <3>2. jobRun[c] # None /\ tags[c].run = c
      BY <3>1 DEF ProgressInv, ProgressOK, TagsOK, Decorated
    <3>3. OthersStay(c)
      BY <3>1 DEF StatusOf, CallerOf, KnownOf, WaitedOf
    <3>4. StatusOf(c) # "NONE"
      BY <3>2 DEF StatusOf, OCIMLflowRunStatusMap, Status, Active, Final
    <3>5. Returns(c)
      BY <3>1, <3>2, <3>4 DEF Returns, StatusOf, CallerOf, KnownOf, WaitedOf
    <3>6. QED BY <3>3, <3>5, SubmittedStep
  <2>6. ASSUME NEW c \in Call, NEW s \in Status, SetStatus(c, s)
        PROVE  /\ OthersStay(c) /\ CallerStays(c) /\ KnownStays(c) /\ WaitStays(c)
               /\ StatusOf(c)' = OCIMLflowRunStatusMap(s)
    BY <2>6 DEF SetStatus, StatusOf, CallerOf, KnownOf, WaitedOf
  <2>7. ASSUME NEW c \in Call, MoveOn(c) PROVE [Submitted!Next]_(Submitted!vars)
    <3>1. PICK s \in Moves(jobRun[c]) : SetStatus(c, s)
      BY <2>7 DEF MoveOn
    <3>2. s \in Status
      BY <3>1 DEF Moves, Status, Active, Final
    <3>3. <<StatusOf(c), OCIMLflowRunStatusMap(s)>> \in Submitted!StatusMoves
      <4>1. /\ jobRun[c] \in {"ACCEPTED", "IN_PROGRESS", "CANCELING"}
            /\ s \in Moves(jobRun[c]) /\ jobRun[c] # None
        BY <3>1 DEF Moves, Status, Active
      <4>2. QED BY <4>1 DEF Moves, StatusOf, OCIMLflowRunStatusMap, Submitted!StatusMoves
    <3>4. OthersStay(c) /\ Proceeds(c)
      BY <2>6, <3>1, <3>2, <3>3 DEF Proceeds
    <3>5. QED BY <3>4, SubmittedStep
  <2>13. ASSUME NEW c \in Call, Stop(c) PROVE [Submitted!Next]_(Submitted!vars)
    <3>1. /\ SetStatus(c, "STOPPED") /\ "STOPPED" \in Status
          /\ jobRun[c] = "IN_PROGRESS"
      BY <2>13 DEF Stop, Status, Final
    <3>2. StatusOf(c) = "RUNNING" /\ OCIMLflowRunStatusMap("STOPPED") = "UNKNOWN"
      BY <3>1 DEF StatusOf, OCIMLflowRunStatusMap, Status, Active
    <3>3. OthersStay(c) /\ Proceeds(c)
      BY <2>6, <3>1, <3>2 DEF Proceeds, Submitted!StatusMoves
    <3>4. QED BY <3>3, SubmittedStep
  <2>8. ASSUME NEW c \in Call, DeleteRun(c) PROVE [Submitted!Next]_(Submitted!vars)
    <3>1. /\ SetStatus(c, "DELETED") /\ "DELETED" \in Status
          /\ jobRun[c] \in {"SUCCEEDED", "FAILED", "CANCELED", "NEEDS_ATTENTION"}
      BY <2>8 DEF DeleteRun, Status, Final
    <3>2. /\ StatusOf(c) \in {"FINISHED", "FAILED", "KILLED"}
          /\ OCIMLflowRunStatusMap("DELETED") = "KILLED"
      BY <3>1 DEF StatusOf, OCIMLflowRunStatusMap, Status, Active, Final
    <3>3. OthersStay(c) /\ (Proceeds(c) \/ Stays(c))
      BY <2>6, <3>1, <3>2 DEF Proceeds, Stays, Submitted!StatusMoves
    <3>4. QED BY <3>3, SubmittedStep
  <2>9. ASSUME NEW c \in Call, Cancel(c) PROVE [Submitted!Next]_(Submitted!vars)
    <3>1. /\ SetStatus(c, "CANCELING") /\ "CANCELING" \in Status
          /\ pc[c] = "returned" /\ jobRun[c] \in Active
      BY <2>9 DEF Cancel, Status
    <3>2. /\ StatusOf(c) \in {"SCHEDULED", "RUNNING", "FAILED"}
          /\ OCIMLflowRunStatusMap("CANCELING") = "RUNNING"
          /\ CallerOf(c) = "returned"
      BY <3>1 DEF StatusOf, CallerOf, OCIMLflowRunStatusMap, Status, Active
    <3>3. OthersStay(c) /\ Cancels(c)
      BY <2>6, <3>1, <3>2 DEF Cancels
    <3>4. QED BY <3>3, SubmittedStep
  <2>10. ASSUME NEW c \in Call,
                \/ BeginWait(c) \/ Watch(c) \/ WatchAttention(c)
                \/ CheckStatus(c) \/ WaitRaises(c)
         PROVE  [Submitted!Next]_(Submitted!vars)
    <3>1. /\ UNCHANGED <<pc, jobRun, tags>>
          /\ \/ /\ pc[c] = "returned" /\ wait[c] = "no"
                /\ wait' = [wait EXCEPT ![c] = "watch"]
             \/ wait[c] = "watch" /\ wait' = [wait EXCEPT ![c] = "check"]
             \/ /\ wait[c] = "check" /\ jobRun[c] \in SUCCESS_STATUS
                /\ wait' = [wait EXCEPT ![c] = "true"]
             \/ /\ wait[c] \in {"watch", "check"}
                /\ wait' = [wait EXCEPT ![c] = "raised"]
      BY <2>10 DEF BeginWait, Watch, WatchAttention, CheckStatus, WaitRaises, WaitStep
    <3>2. OthersStay(c) /\ StatusStays(c) /\ CallerStays(c) /\ KnownStays(c)
      BY <3>1 DEF StatusOf, CallerOf, KnownOf, WaitedOf
    <3>3. pc[c] = "returned" => CallerOf(c) = "returned"
      BY DEF CallerOf
    <3>4. jobRun[c] \in SUCCESS_STATUS => StatusOf(c) \in {"FINISHED", "KILLED"}
      BY DEF StatusOf, OCIMLflowRunStatusMap, SUCCESS_STATUS, Status, Final
    <3>5. Stays(c) \/ Waits(c)
      BY <3>1, <3>2, <3>3, <3>4 DEF Stays, Waits, WaitedOf
    <3>6. QED BY <3>2, <3>5, SubmittedStep
  <2>11. CASE UNCHANGED vars
    <3>1. /\ UNCHANGED <<[c \in Call |-> StatusOf(c)], [c \in Call |-> CallerOf(c)],
                         [c \in Call |-> WaitedOf(c)]>>
      BY <2>11 DEF vars, StatusOf, CallerOf, WaitedOf
    <3>2. UNCHANGED [c \in Call |-> KnownOf(c)]
      BY <2>11, Zenon DEF vars, KnownOf
    <3>3. QED BY <3>1, <3>2 DEF Submitted!vars
  <2>12. QED
    BY <2>1, <2>2, <2>3, <2>4, <2>5, <2>7, <2>8, <2>9, <2>10, <2>11, <2>13
    DEF Next, Advance
<1>3. QED
  BY <1>1, <1>2, TypeCorrect, ProgressInvHolds, StatusInvHolds, PTL
  DEF Spec, ImplementsSubmittedRun, Submitted!Spec
=================================================================================
