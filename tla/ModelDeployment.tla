---------------------------- MODULE ModelDeployment ----------------------------
(***************************************************************************)
(* OCIModelDeploymentClient (oci_mlflow/deployment.py): concurrent calls   *)
(* of create_deployment against one MLflow registry, one OCI Data Science  *)
(* service and the working directories their archives are written in.      *)
(*                                                                         *)
(* A member of Call is one invocation of create_deployment; a retry is     *)
(* another member.  OCIDs are never reused, so the model and the model     *)
(* deployment a call creates bear the name of that call.                   *)
(*                                                                         *)
(* Operators marked as mutants are faults a change of the code could bring *)
(* in; no specification here uses them.                                    *)
(***************************************************************************)
CONSTANTS
  Call,      \* the invocations of create_deployment
  Version,   \* the versions of one registered model
  Stage,     \* a stage of that model: models:/<name>/<stage>
  Cwd,       \* working directories of the calling processes
  CwdOf,     \* the working directory of each call
  UriOf,     \* the model URIs a call may be given
  None,      \* Python's None, and a tag that was never set
  Torn,      \* a zip file that is no complete archive of any call
  Unnamed    \* a ModelDeployment object that has no OCID

Uri == Version \cup {Stage}

ASSUME ConstantsAssumption ==
  /\ Version # {} /\ Stage \notin Version /\ None \notin Uri
  /\ CwdOf \in [Call -> Cwd]
  /\ UriOf \in [Call -> SUBSET Uri]
  /\ {None, Torn, Unnamed} \cap Call = {}
  /\ None # Torn /\ None # Unnamed

VARIABLES
  pc,          \* where each call is
  uri,         \* model_uri
  version,     \* model_version, as fetch_model_artifact returned it
  download,    \* the version whose files are in the call's temporary directory
  md,          \* the ModelDeployment object: None, Unnamed, or its deployment
  archive,     \* per path, the calls whose bytes are in the zip file there
  catalog,     \* model catalog: the model each call created
  deployment,  \* state of the model deployment each call created
  tags,        \* the tags of each model version in the registry
  stage,       \* the version Stage denotes now
  moved,       \* history: calls whose stage moved between their two look-ups
  abandoned    \* history: deployments whose call gave up before they settled

local == <<uri, version, download, md>>
service == <<catalog, deployment, abandoned>>
registry == <<tags, stage, moved>>
vars == <<pc, local, archive, service, registry>>

Running == {"resolve", "download", "environment", "archive", "zip", "create",
            "tagModel", "deploy", "wait", "rollback", "tagDeployment",
            "tagEndpoint"}
Ended == {"returned", "raised"}

Goto(c, from, to) == pc[c] = from /\ pc' = [pc EXCEPT ![c] = to]

(* Mutant: the version is left out of the archive's name.                    *)
NamedAfterModelOnly(c) == <<CwdOf[c], CHOOSE v \in Version : TRUE>>
(***************************************************************************)
(* The archive is <name>_<version>.zip in the current directory.           *)
(***************************************************************************)
ArchivePath(c) == <<CwdOf[c], version[c]>>

(* What model.create() finds in the file: the archive of one call that has  *)
(* finished writing it, or else a file that is nobody's archive.            *)
ArchiveContent(c) ==
  IF \E o \in Call : archive[ArchivePath(c)] = {o} /\ pc[o] # "zip"
    THEN CHOOSE o \in Call : archive[ArchivePath(c)] = {o}
    ELSE Torn

Init ==
  /\ pc = [c \in Call |-> "idle"]
  /\ uri = [c \in Call |-> None]
  /\ version = [c \in Call |-> None]
  /\ download = [c \in Call |-> None]
  /\ md = [c \in Call |-> None]
  /\ archive = [p \in Cwd \X Version |-> {}]
  /\ catalog = [c \in Call |-> [state |-> "none", artifact |-> None]]
  /\ deployment = [c \in Call |-> "none"]
  /\ tags = [v \in Version |->
               [model |-> None, deployment |-> None, endpoint |-> None]]
  /\ stage \in Version
  /\ moved = {}
  /\ abandoned = {}

-----------------------------------------------------------------------------
(* create_deployment: the flavor and configuration checks, which raise      *)
(* before anything is done, are a Raise right after Begin.                  *)
Begin(c) ==
  /\ Goto(c, "idle", "resolve")
  /\ \E u \in UriOf[c] : uri' = [uri EXCEPT ![c] = u]
  /\ UNCHANGED <<version, download, md, archive, service, registry>>

(* The version a model URI denotes at this moment.                          *)
Denoted(u) == IF u = Stage THEN stage ELSE u

(* Mutant: whatever the URI, the stage's version is looked up.               *)
ResolveLatest(c) ==
  /\ Goto(c, "resolve", "download")
  /\ version' = [version EXCEPT ![c] = stage]
  /\ UNCHANGED <<uri, download, md, archive, service, registry>>
(* fetch_model_artifact asks the registry which version the URI denotes...  *)
ResolveVersion(c) ==
  /\ Goto(c, "resolve", "download")
  /\ version' = [version EXCEPT ![c] = Denoted(uri[c])]
  /\ UNCHANGED <<uri, download, md, archive, service, registry>>

(* Mutant: whatever the URI, the stage's version is downloaded.              *)
DownloadLatest(c) ==
  /\ Goto(c, "download", "environment")
  /\ download' = [download EXCEPT ![c] = stage]
  /\ UNCHANGED <<uri, version, md, archive, service, registry>>
(* ...and then downloads by the URI, which is resolved once more: a stage    *)
(* may denote another version by then, and version stays what it was.       *)
DownloadArtifact(c) ==
  /\ Goto(c, "download", "environment")
  /\ download' = [download EXCEPT ![c] = Denoted(uri[c])]
  /\ UNCHANGED <<uri, version, md, archive, service, registry>>

(* create_conda_environment, or nothing for a container runtime: what it    *)
(* does to conda packs is module CondaPack.                                 *)
PrepareEnvironment(c) ==
  /\ Goto(c, "environment", "archive")
  /\ UNCHANGED <<local, archive, service, registry>>

(* shutil.make_archive truncates the file and writes it; two calls that     *)
(* write one path at a time mix their bytes.                                *)
OpenArchive(c) ==
  /\ Goto(c, "archive", "zip")
  /\ archive' = [archive EXCEPT ![ArchivePath(c)] =
       {c} \cup {o \in Call : pc[o] = "zip" /\ ArchivePath(o) = ArchivePath(c)}]
  /\ UNCHANGED <<local, service, registry>>

CloseArchive(c) ==
  /\ Goto(c, "zip", "create")
  /\ UNCHANGED <<local, archive, service, registry>>

(* model.create() makes the catalog entry and uploads the file at the       *)
(* archive's path.  It may raise with the entry made and nothing uploaded.  *)
CreateModel(c) ==
  /\ \/ /\ Goto(c, "create", "tagModel")
        /\ catalog' = [catalog EXCEPT ![c] =
             [state |-> "live", artifact |-> ArchiveContent(c)]]
     \/ /\ Goto(c, "create", "raised")
        /\ catalog' = [catalog EXCEPT ![c] = [state |-> "live", artifact |-> None]]
  /\ UNCHANGED <<local, archive, deployment, abandoned, registry>>

(* Mutant: the tag is given the version.                                     *)
SetsVersionAsOcid(c) ==
  /\ Goto(c, "tagModel", "deploy")
  /\ tags' = [tags EXCEPT ![version[c]].model = version[c]]
  /\ UNCHANGED <<local, archive, service, stage, moved>>
SetModelTag(c) ==
  /\ Goto(c, "tagModel", "deploy")
  /\ tags' = [tags EXCEPT ![version[c]].model = c]
  /\ UNCHANGED <<local, archive, service, stage, moved>>

-----------------------------------------------------------------------------
(* The try block: ModelDeployment() is built, then deploy() asks the        *)
(* service for a deployment and, when synchronous, waits for it.            *)
Deploy(c) ==
  /\ \/ /\ Goto(c, "deploy", "rollback")       \* building the object raises
        /\ UNCHANGED <<md, deployment, abandoned>>
     \/ /\ Goto(c, "deploy", "rollback")       \* the request is refused
        /\ md' = [md EXCEPT ![c] = Unnamed]
        /\ UNCHANGED <<deployment, abandoned>>
     \/ /\ Goto(c, "deploy", "rollback")       \* accepted, the reply is lost
        /\ md' = [md EXCEPT ![c] = Unnamed]
        /\ deployment' = [deployment EXCEPT ![c] = "creating"]
        /\ abandoned' = abandoned \cup {c}
     \/ /\ \E synchronous \in BOOLEAN :            \* the caller's choice
             Goto(c, "deploy", IF synchronous THEN "wait" ELSE "tagDeployment")
        /\ md' = [md EXCEPT ![c] = c]
        /\ deployment' = [deployment EXCEPT ![c] = "creating"]
        /\ UNCHANGED abandoned
  /\ UNCHANGED <<uri, version, download, archive, catalog, registry>>

(* The states of a deployment on which waiting for it raises.               *)
Failure(s) == s \in {"failed", "deleted"}

(* deploy() raises after the request was accepted: the object has, or has   *)
(* not, been given its OCID by then.                                        *)
DeployRaises(c) ==
  /\ Goto(c, "wait", "rollback")
  /\ md' \in {[md EXCEPT ![c] = c], [md EXCEPT ![c] = Unnamed]}
  /\ UNCHANGED <<uri, version, download, archive, catalog, deployment,
                 registry>>

(* Mutant: only success ends the wait.                                       *)
AwaitsActiveOnly(c) ==
  /\ deployment[c] = "active"
  /\ Goto(c, "wait", "tagDeployment")
  /\ UNCHANGED <<local, archive, service, registry>>
(* Mutant: the clean-up is in a finally clause.                              *)
RollsBackAlways(c) ==
  /\ deployment[c] # "creating"
  /\ DeployRaises(c)
  /\ UNCHANGED abandoned
AwaitDeployment(c) ==
  \/ /\ deployment[c] = "active"
     /\ Goto(c, "wait", "tagDeployment")
     /\ UNCHANGED <<local, archive, service, registry>>
  \/ /\ Failure(deployment[c])
     /\ DeployRaises(c)
     /\ UNCHANGED abandoned

(* A poll raises, or the wait times out, with the deployment in any state.  *)
PollRaises(c) ==
  /\ DeployRaises(c)
  /\ abandoned' = abandoned \cup {c}

(* Mutant: the model stays.                                                  *)
KeepsModel(c) ==
  /\ Goto(c, "rollback", IF md[c] = None THEN "returned" ELSE "tagDeployment")
  /\ UNCHANGED <<local, archive, service, registry>>
(* except Exception: model.delete(); the exception ends here and md stays.  *)
(* If the service deletes the model and the reply is lost, the call raises. *)
RollBack(c) ==
  /\ \/ Goto(c, "rollback", IF md[c] = None THEN "returned" ELSE "tagDeployment")
     \/ Goto(c, "rollback", "raised")
  /\ catalog' = [catalog EXCEPT ![c].state = "deleted"]
  /\ UNCHANGED <<local, archive, deployment, abandoned, registry>>

(* if md: the two tags, then the log line "Model deployed successfully".    *)
SetDeploymentTag(c) ==
  /\ Goto(c, "tagDeployment", "tagEndpoint")
  /\ tags' = [tags EXCEPT ![version[c]].deployment = md[c]]
  /\ UNCHANGED <<local, archive, service, stage, moved>>

(* Mutant: the endpoint goes under the wrong key.                            *)
OverwritesDeploymentTag(c) ==
  /\ Goto(c, "tagEndpoint", "returned")
  /\ tags' = [tags EXCEPT ![version[c]].deployment = md[c]]
  /\ UNCHANGED <<local, archive, service, stage, moved>>
SetEndpointTag(c) ==
  /\ \/ Goto(c, "tagEndpoint", "returned")
     \/ Goto(c, "tagEndpoint", "raised")       \* set, but the reply is lost
  /\ tags' = [tags EXCEPT ![version[c]].endpoint = md[c]]
  /\ UNCHANGED <<local, archive, service, stage, moved>>

(* An exception no handler of create_deployment catches: any step that      *)
(* raises outside the try block, model.delete() in the handler, or an       *)
(* interrupt anywhere.  A write that is cut off leaves no archive.          *)
Raise(c) ==
  /\ pc[c] \in Running
  /\ pc' = [pc EXCEPT ![c] = "raised"]
  /\ archive' = IF pc[c] = "zip" /\ archive[ArchivePath(c)] = {c}
                  THEN [archive EXCEPT ![ArchivePath(c)] = {}]
                  ELSE archive
  /\ UNCHANGED <<local, service, registry>>

-----------------------------------------------------------------------------
(* The service settles a deployment.                                        *)
Settle(c) ==
  /\ deployment[c] = "creating"
  /\ \E s \in {"active", "failed"} :
       deployment' = [deployment EXCEPT ![c] = s]
  /\ UNCHANGED <<pc, local, archive, catalog, abandoned, registry>>

(* delete_deployment, by any client that knows the OCID.                    *)
DeleteDeployment(c) ==
  /\ deployment[c] \in {"active", "failed"}
  /\ deployment' = [deployment EXCEPT ![c] = "deleted"]
  /\ UNCHANGED <<pc, local, archive, catalog, abandoned, registry>>

(* Someone transitions another version to the stage.                        *)
MoveStage ==
  /\ \E v \in Version \ {stage} : stage' = v
  /\ moved' = moved \cup {c \in Call : pc[c] = "download" /\ uri[c] = Stage}
  /\ UNCHANGED <<pc, local, archive, service, tags>>

Advance(c) ==
  \/ Begin(c) \/ ResolveVersion(c) \/ DownloadArtifact(c)
  \/ PrepareEnvironment(c) \/ OpenArchive(c) \/ CloseArchive(c)
  \/ CreateModel(c) \/ SetModelTag(c) \/ Deploy(c) \/ AwaitDeployment(c)
  \/ RollBack(c) \/ SetDeploymentTag(c) \/ SetEndpointTag(c)

Next ==
  \/ \E c \in Call : \/ Advance(c) \/ PollRaises(c) \/ Raise(c)
                     \/ Settle(c) \/ DeleteDeployment(c)
  \/ MoveStage

Spec == Init /\ [][Next]_vars

(* A call runs on until it ends, since a remote call returns or raises; the *)
(* service settles each deployment.  No exception has to happen.            *)
FairSpec == Spec /\ \A c \in Call : WF_vars(Advance(c)) /\ WF_vars(Settle(c))

-----------------------------------------------------------------------------
TypeOK ==
  /\ pc \in [Call -> Running \cup Ended \cup {"idle"}]
  /\ uri \in [Call -> Uri \cup {None}]
  /\ version \in [Call -> Version \cup {None}]
  /\ download \in [Call -> Version \cup {None}]
  /\ md \in [Call -> Call \cup {None, Unnamed}]
  /\ archive \in [Cwd \X Version -> SUBSET Call]
  /\ catalog \in [Call -> [state : {"none", "live", "deleted"},
                           artifact : Call \cup {None, Torn}]]
  /\ deployment \in [Call -> {"none", "creating", "active", "failed", "deleted"}]
  /\ tags \in [Version -> [model : Call \cup {None},
                           deployment : Call \cup {None, Unnamed},
                           endpoint : Call \cup {None, Unnamed}]]
  /\ stage \in Version
  /\ moved \subseteq Call
  /\ abandoned \subseteq Call

(* No other call has the archive at the path of this one's to write: none   *)
(* has looked up the same version and runs in the same directory.           *)
PathIsPrivate(c) ==
  \A o \in Call \ {c} : CwdOf[o] # CwdOf[c] \/ version[o] # version[c]

Uploaded(c) == catalog[c].artifact # None

(* A call whose archive path is private puts its own files in the catalog,  *)
(* complete, whatever the other calls do in the same or another directory   *)
(* (deployment.py:94, 180-181).                                             *)
ArtifactIsOwn ==
  \A c \in Call : Uploaded(c) /\ PathIsPrivate(c) => catalog[c].artifact = c

(* What the model created by a call is made of: the files of version v.     *)
MadeFrom(c, v) ==
  catalog[c].artifact \in Call /\ download[catalog[c].artifact] = v

(* For a URI that names a version, and a private archive path, the files in *)
(* the catalog are those of the version the catalog entry and the tags name *)
(* (deployment.py:222-227, 397).                                            *)
PinnedVersionUploaded ==
  \A c \in Call :
    Uploaded(c) /\ PathIsPrivate(c) /\ uri[c] \in Version
      => MadeFrom(c, version[c])

(* The OCIDs a model version is tagged with are those of a call that looked *)
(* that version up and stored a model for it.  The model consists of that   *)
(* version's files, whatever other calls were at work and however often the *)
(* stage moved, with two exceptions: a call by stage whose stage moved      *)
(* between its look-up and its download, and a call that shared its archive *)
(* path (deployment.py:222-227, 397, 445-456).                              *)
TagProvenance ==
  \A v \in Version :
    \A c \in {tags[v].model, tags[v].deployment, tags[v].endpoint} \cap Call :
      /\ version[c] = v /\ Uploaded(c)
      /\ c \notin moved /\ PathIsPrivate(c) => MadeFrom(c, v)

(* A call that returns leaves no model behind that nothing was deployed     *)
(* from: either it deleted the model or a deployment was requested          *)
(* (deployment.py:434-436).                                                 *)
NoUndeployedModelLeft ==
  \A c \in Call :
    pc[c] = "returned" => catalog[c].state = "deleted" \/ deployment[c] # "none"

(* A deployment that is starting or serving still has its model, unless     *)
(* its call gave up on it before it settled (deployment.py:432-436).        *)
ActiveDeploymentHasModel ==
  \A c \in Call :
    deployment[c] \in {"creating", "active"} /\ c \notin abandoned
      => catalog[c].state = "live"

(* After a call that was the only one for its version has returned, the     *)
(* three tags of the version are exactly what that call made.               *)
TagsOfSoleCall ==
  \A c \in Call :
    pc[c] = "returned" /\ (\A o \in Call \ {c} : version[o] # version[c])
      => tags[version[c]] =
           [model |-> c, deployment |-> md[c], endpoint |-> md[c]]

(* "Model deployed successfully" is logged (and the tags are set) only when *)
(* deploying did not fail and roll the model back (deployment.py:458-464).  *)
SuccessMeansDeployed ==
  \A c \in Call :
    pc[c] = "returned" /\ md[c] # None => catalog[c].state = "live"

-----------------------------------------------------------------------------
(* What there is of a call's model and deployment, and how the call ended,  *)
(* in the terms of module Deployment.                                       *)
LifeOf(c) ==
  IF catalog[c].state = "none" THEN "absent"
  ELSE IF c \in abandoned THEN "given_up"
  ELSE IF catalog[c].state = "deleted" THEN "withdrawn"
  ELSE [none |-> "stored", creating |-> "starting", active |-> "serving",
        failed |-> "down", deleted |-> "down"][deployment[c]]
ResultOf(c) == IF pc[c] \in Ended THEN pc[c] ELSE "open"

Promise == INSTANCE Deployment WITH life   <- [c \in Call |-> LifeOf(c)],
                                    result <- [c \in Call |-> ResultOf(c)]

(* create_deployment and the service implement module Deployment: a model   *)
(* is deployed at most once, never deleted under a deployment that starts   *)
(* or serves unless the call had given up on it, never left undeployed by a *)
(* call that returns, and never touched by a call that has ended            *)
(* (deployment.py:397, 432-436, 442).                                       *)
ImplementsDeployment == Promise!Spec

(* Every call comes to an end, with a result or an exception.               *)
EveryCallEnds == \A c \in Call : pc[c] \in Running ~> pc[c] \in Ended
=============================================================================
