# oci-mlflow: TLA+ specifications

TLA+ models of the plug-ins `oci_mlflow` adds to MLflow, TLC configurations that
check them on small instances, and proofs that TLAPS checks for every instance.
All line numbers refer to `src/oci_mlflow/` unless a path is given.

## The system

| Part | State it keeps or changes | Operations |
|---|---|---|
| Model deployment client, `deployment.py` | model catalog, model deployments, tags of model versions, a zip file in the current directory | `create_deployment`, `update_deployment`, `delete_deployment`, `get_deployment`, `predict`; `list_deployments` is not implemented |
| Conda packs, `utils.py:156-283` | local pack directories, packs in object storage, `NO_CONTAINER` of the process | `build_and_publish_conda_pack`, `create_conda`, `publish` |
| Project backend, `project.py` | MLflow run and its tags, job, job run, ADS authentication of the process | `OCIProjectBackend.run`; `wait`, `get_status` and `cancel` of the run returned |
| Artifact repository, `oci_object_storage.py` | objects below a run's `artifact_uri` | `log_artifact(s)`, `list_artifacts`, `delete_artifacts`, download |
| Backend configuration, `utils.py:38-153, 286-301` | none | validation of dictionaries and files |
| Telemetry, `telemetry_logging.py` | one environment variable of the process | a decorator around the entry points |
| Authentication, `auth_plugin.py`, `__init__.py` | default authentication of ADS | signs the requests to the tracking server |
| Authorizer, `src/authorizer/` | none, asks the identity service | authenticates a request, checks the caller's groups |
| Launcher, `src/container-image/run/run.py` | none | turns environment variables into an `mlflow server` command |

How they interact: `create_deployment` downloads from the MLflow registry (and so
from the artifact repository), calls the conda pack functions for a conda runtime
whose `uri` is a dictionary, writes an archive, and asks two OCI services for a
model and a deployment. The project backend tells a job which MLflow run to log
to. The authorizer stands in front of the tracking server the launcher starts,
and the authentication plug-in signs what clients send it. Project backend,
artifact repository and conda packs share settings of the process: ADS
authentication and environment variables.

Nothing here is a server with threads of its own. What is hard comes from

- many processes on one registry, one service, one bucket, one directory;
- requests that fail, or succeed with their reply lost, or time out, half way
  through a call that has done things nobody undoes;
- values that are read twice, or computed from something other than what is used;
- settings that belong to the process and are changed for one call.

`PROJECT.json` lists each such place as a hazard, with its line and the property
that covers it.

## Modules

| Module | What it is |
|---|---|
| `ModelDeployment` | any number of `create_deployment` calls, `delete_deployment`, the service that settles deployments, stage transitions |
| `Deployment` | what `create_deployment` promises of a model and its deployment, without a step of the code |
| `UpdateDeployment` | any number of clients that update one deployment |
| `CondaPack` | any number of `build_and_publish_conda_pack` calls in any number of processes |
| `ProjectRun` | any number of `OCIProjectBackend.run` calls, the life of their job runs, `wait` and `cancel` |
| `SubmittedRun` | what `run` and its handle promise MLflow, in MLflow's statuses |
| `EntryPointCommand` | `from_project_cmd`: from the command of an entry point to what a job runs |
| `ArtifactRepository` | clients that log, list and delete in one bucket |
| `RunArtifacts` | what a repository promises: each run has files of its own, and there is no bucket |
| `Telemetry` | decorated calls in the threads of one process |
| `Authorizer` | calls of the authorizer function, while group memberships change |
| `AccessDecision` | what the authorizer promises: one decision on each request, in one step |
| `*Proofs` | the theorems about a module and their proofs |
| `MC*` | the instances TLC checks |

Each `*Proofs` module extends the module it is about. `ModelDeployment`,
`ProjectRun`, `ArtifactRepository` and `Authorizer` take `Deployment`, `SubmittedRun`,
`RunArtifacts` and `AccessDecision` by `INSTANCE` with the refinement mapping. No two detailed modules share a
variable: what they have in common is a service or the registry, and each models
as much of it as it uses.

One action stands for a stretch of code with at most one effect others can see; a
request that the service may honour although the caller gets an exception is
given both outcomes. `Raise` is any exception or interrupt that leaves the
call. Operators under the comment *Mutant* are faulty variants used to see that
the properties can fail; no specification uses them.

### ModelDeployment

`pc[c]` walks through the phases of `create_deployment`: `resolve`, `download`
(`fetch_model_artifact`), `environment`, `archive`, `zip`, `create`
(`create_model`), `tagModel`, `deploy`, `wait`, `rollback`, `tagDeployment`,
`tagEndpoint`. `uri`, `version`, `download` and `md` are locals of the call. `md[c]` is `None` before the object is built, `Unnamed` when it has no OCID
because the service never answered, else its deployment. `archive` holds, per
path, the calls whose bytes are in the zip file; an upload takes the file as it
is then, and finds `Torn` when it is nobody's finished archive. `catalog`,
`deployment` and `tags` are the services. The history `abandoned` names the
deployments whose call stopped waiting, or lost the reply, before they settled:
the code cannot know what becomes of them, and `ActiveDeploymentHasModel` is
stated without them. The history `moved` names the calls whose stage moved between
the look-up of the version and the download.

OCIDs are unique, so a model and a deployment are known by the call that made
them. A retry by the user is a further call.

| Property | Says |
|---|---|
| `ArtifactIsOwn` | a call whose archive path no other call has uploads its own complete archive |
| `PinnedVersionUploaded` | with `models:/name/version`, and an archive path of its own, the files uploaded are those of the version that is tagged |
| `TagProvenance` | the OCIDs a version is tagged with come from calls that looked that version up and stored a model; the model is made from that version's files, unless the call is in `moved` or shared its archive path |
| `TagsOfSoleCall` | the three tags of a version only one call deployed are exactly that call's |
| `NoUndeployedModelLeft` | a call that returns has deleted its model or requested a deployment |
| `ActiveDeploymentHasModel` | a starting or active deployment has its model, abandoned ones aside |
| `EveryCallEnds` | every call returns or raises |
| `ImplementsDeployment` | the calls and the service do only what `Deployment` allows |

The files that `models:/name/stage` brings are those of the stage when they are
downloaded; the version tagged is the one looked up before that. The two
differ if the stage moves in between (`deployment.py:222, 227`): then one version
is tagged with a model of another's files. `PinnedVersionUploaded` says that this
does not happen to URIs with a version, and `TagProvenance` that with a stage it
happens in no other way. Two calls for one version in one directory write one file
(`deployment.py:94`); what is uploaded then may be the other's archive or none,
and the properties on archives say nothing of such calls.

`Deployment` gives each call one value: its model is `absent`, `stored`,
`withdrawn`, or the model of a deployment that is `starting`, `serving` or
`down`; `given_up` is what the call stopped following. A call takes a model from
`stored` on, and never withdraws it under a deployment that starts or serves; the
service moves deployments on; a call that has ended changes nothing; none
returns with its model merely `stored`. The mapping, `LifeOf` and `ResultOf`, reads
these values from `catalog`, `deployment`, `abandoned` and `pc`.

### UpdateDeployment

A deployment has parts (the infrastructure's specification, the display name) with
settings. A configuration has a part, with some of its settings, or leaves it
out. `Merged` is `{**current_infra, **infrastructure}`: `to_dict()` and a
configuration both are dictionaries of `kind`, `type` and `spec`, and the merge is
shallow, so a configuration's `spec` replaces the one read as a whole and the
settings it does not name are not sent. `Outcomes` is what the service may make of
that: it keeps them or gives them their defaults, which nothing in this repository
decides. The service takes one update at a time; an
update that fails changes nothing. `Accept` may be followed by a lost reply, a
failing poll or a timeout, which the handler logs as an error while the service
makes the update. Whether `update()` returns or raises after an update that failed is
the library's affair, too; success is logged for whatever it returned from. The
history `expected` is what the updates made have named, in
their order; `stale` names the parts that were sent after they had been read out
of date.

| Property | Says |
|---|---|
| `SettingsFromLastUpdate` | what the last update of a part has named is what the part is, and a part no update has named is as it was, unless a call that leaves the part out has sent back an outdated one |
| `EveryUpdateEnds` | every update ends, also one that fails or whose deployment is deleted |

Its `TypeOK` is proved and not in the run: what is sent and made has the type of what
is read.

### CondaPack

A pack is known by the call that built it, which fixes the name, the version and
the architecture written into it. A call checks object storage, then the local
directory, builds (two steps: the directory is there before the pack is whole),
and publishes: keep `NO_CONTAINER`, set it, upload, restore. The upload goes
where the pack found in the local directory belongs, because `_publish` is given
neither name nor architecture: a pack built for another architecture, or for a
name with the same slug, is published where it belongs itself, and nothing need
be at the URI returned (`utils.py:214, 282`). That is why `ReturnedPackExists` has
its condition. A process in `SingleThreaded` makes one call at a
time; `EnvironmentRestored` speaks of those, the properties on packs of any.

| Property | Says |
|---|---|
| `EnvironmentRestored` | when all calls of a process returned, the variable is what it was |
| `PartialPackHasCause` | an incomplete pack in object storage comes from a build that failed and left its directory, or was still going on when a call of another process or thread took the directory for a pack or built in it as well; from nothing else |
| `OverwritePublishesOwnPack` | a call with `overwrite` that meets no other returns with its own complete pack at its URI, whatever was left behind |
| `ReturnedPackExists` | there is a pack at the URI returned, if all users of the local directory mean that pack |

A local directory counts as a pack as soon as it exists (`utils.py:261`), so a
process that comes while another builds publishes half a pack though nothing
failed: `Undisturbed` is the condition under which only a failure does that. After a call
that raised between setting and restoring, `NO_CONTAINER` stays `True`:
`EnvironmentRestored` is about calls that returned.

Two calls meet also when they never run at the same time as long as a third
one's left-over pack comes between them: `Meet` says so, which the proof of
`OverwritePublishesOwnPack` showed to be necessary.

### ProjectRun

`pc[c]` walks through `run`. `auth` is the authentication of each process:
`Requested` is what a call's configuration, or else `OCIFS_IAM_TYPE` and what sets it,
make of it. `job` and `runAuth` record what a job and its run were created with.
`Template` has the job templates as far as they name an MLflow run themselves, in
`MLFLOW_RUN_ID` or in the Spark settings of a driver or an executor; `RunIdFor` is
how the decorators of `project.py:643-703` merge the call's own run id with that,
and `told` is the result. `Untold` has the templates with which a job is told of no
run at all: Data Flow with a setting for the executors alone, a Data Flow notebook
that names no run itself (`project.py:766-777` adds no settings), and a kind `run`
does not know. `jobRun` is the
status of the job run, moved by the service, by `Cancel` and by a deletion.
`wait[c]` is where `OCIProjectRun.wait` is: watching, then reading the status a
second time. `outcome` is the history of the first final status. Whether
`watch()` ends on `NEEDS_ATTENTION` is the library's affair: both are allowed.
`wait` returns `True` for a cancelled or deleted run because `SUCCESS_STATUS` has
these, also for one that failed before it was deleted; for every other end it raises.
Its docstring says `True` if the run succeeded and `False` otherwise: a finding.
`STOPPED` stands for the statuses of Data Flow that are not in
`OCIMLflowRunStatusMap`, for which `get_status` raises a `KeyError` (`project.py:195`).

| Property | Says |
|---|---|
| `JobUsesOwnAuth` | a job and its run are created with their own call's authentication, if the process makes one call at a time |
| `ReportsToOwnRun` | a job is told of the MLflow run of its call, or of one its own template names, never of another call's; and of none exactly if its template is in `Untold` |
| `TagsNameOwnJob` | tags name a job and a run that exist and are the call's own, and a handle means that all tags are there |
| `TrueIfSucceededOrKilled` | when `wait` has returned `True` the run succeeded or was cancelled, or it has been deleted |
| `WaitEnds` | a wait ends unless its run is one that needs attention |
| `ImplementsSubmittedRun` | `run`, its handle and the service do only what `SubmittedRun` allows |

`SubmittedRun` gives each call the status of its run as `get_status` answers it,
whether the MLflow run names it, and how the call and its wait ended. One run is submitted
per call; only what was submitted is made known, only what is known is handed
out; a status goes back only when a run that failed, or needs attention, is
cancelled; a wait is true only of a run that is finished or killed, as a failed one is
once it was deleted. `StatusOf` is
`get_status`, so the mapping is the table `OCIMLflowRunStatusMap` of the code.

### EntryPointCommand

A command is a sequence of words; a text is a word and the pairs of quotation marks
it is in, so `shlex.quote`, `shlex.join` and `shlex.split` are what they do to
that number. Words are of eight kinds: an interpreter, an option, a word that has to be
quoted, two that are nothing of the kind, and three JSON values. `json.loads` turns a
JSON argument into a value (`project.py:136`), and a job is given that as Python
spells it: `1.10` becomes `1.1`. `Spelled` is this conversion.

| Property | Says |
|---|---|
| `WordsKept` | a container is given the words of the command in their order; a script the same, but for an interpreter and one option in front, and with JSON arguments as `Spelled` |
| `EntryPointFound` | the word after an interpreter and its option is the entry point |
| `ArgumentsAsGiven` | arguments have no quotation marks the command did not mean: fails |

### ArtifactRepository

Names of objects are sequences of pieces of text, because the code concatenates
them: <<"d", "a">> reads `da`, <<"d", "/", "a">> reads `d/a`. `store` maps names to
who wrote them from which file. Each upload, each look at an entry and each
deletion is a step, in any order a loop may take; a client may make any number
of calls. What a non-recursive `delete` of a directory
does is left open (nothing, everything below, or an exception), and so is what a
glob with two slashes in a row finds. No run's URI lies
inside another's, as MLflow makes them; one may begin with the text of another,
as `r10` does with `r1`, and one may end in a slash, as in
`docs/source/tracking_server.rst:132`: `Run` is the URI without it.

`log_artifacts` concatenates (`oci_object_storage.py:217-226`), `list_artifacts` and
`delete_artifacts` use `os.path.join` (262, 297), which drops the URI for a path
that begins with a slash: `Joined` does the same, and `Reach` has the runs such
paths lead a deletion to. A listing there finds names whose path relative to the
URI starts with `../`, which no name in object storage does, so that it raises
unless it is empty.

Two things are assumed. Paths have no `..` and no empty name in them, and nobody logs
under an absolute path. And a request sees the bucket as it is: `delete_artifacts`
asks for that with `refresh=True` (299), `list_artifacts` does not (269), and what
the library remembers between calls is not in this repository.

| Property | Says |
|---|---|
| `LoggedAtTop` | files at the top of a logged directory are under their own names with their own content |
| `ListsAllBelow` | a listing of a run no one else changes shows what is directly below the path, with its kind |
| `DeletesAtLocation` | deleting removes nothing but the object at the path and what is below it, whatever others log meanwhile |
| `ImplementsRunArtifacts` | the clients do only what `RunArtifacts` allows |

`ListsAllBelow` speaks of paths that are not absolute and do not end in a slash. It
includes those at which nothing exists, whose listing is empty; the docstring says
that it "will error" (247), which is a finding. `DeletesAtLocation` bounds what goes; what
must go is not claimed, since the deletion of a directory is left to the library.

In `RunArtifacts` a run is a function from names to objects: a client puts one
object into its run, is shown the name of one there or of a directory with one in
it, or removes some, from its own run or one it reaches. The mapping takes as a run's
files what lies below its URI in the common bucket, so the refinement says that no
name the code builds, lists or deletes lies in another run, unless an absolute path
leads a deletion there. The
proofs also state `OwnRunOnly`, that what is below a run's URI was logged to it.

### Telemetry

`environ` is the text of `EXTRA_USER_AGENT_INFO`, as the sequence of values
between `&`. Each read and each write of it by `Telemetry.add`, `_begin` and
`clean` is a step, so the calls of several threads interleave between them. A call
may be left by a return, an exception or an interrupt at any step once it is
inside the `try`, and `finally` empties the variable; an interrupt in `begin()`,
before the `try`, is not modelled. `value in current_value` is a test for a piece of
text (`telemetry_logging.py:131`), and the model takes it for membership. They differ for
one value of the code only, `runtime=dataFlow` after
`runtime=dataFlowNotebook`; one call never records both, and of calls that overlap
no property says what is left out. A value the user had set is gone after the
first call: the code empties the variable and does not restore it.

| Property | Says |
|---|---|
| `QuietWhenIdle` | when every call has ended, nothing of them is in the variable, however they overlapped |
| `NoValueTwice` | no value is recorded twice |
| `OwnSequence` | the requests of a call no other overlaps carry what it recorded, in order, and nothing else |

### Authorizer

A request is the names of its headers, the names that were signed, the method it
was signed for and its signer. `RefuseHeaders`, `HeadersRaise` and `AcceptHeaders`
are `extract_and_validate_headers`: a 401, an exception no handler catches, or
the signed headers. `Authenticate` is one turn of the loop over the methods, which
goes on after a success; the identity service confirms a signature only for the
target that was signed. `Grant` and `Deny` look up the groups as they are then.
`ChangeGroups` changes memberships at any time; the history `outsiders` names the
principals that were in no allowed group at some time.

| Property | Says |
|---|---|
| `MembersAreNotRefused` | a complete request, signed for any method by somebody who was always in an allowed group, is not answered with a 401 |
| `ImplementsAccessDecision` | the calls do only what `AccessDecision` allows |

In `AccessDecision` nothing is authenticated: who signed a request is given, and a
call answers in one step, by the groups of the signer then. It lets the signer in
if one of them is allowed, refuses only if none is or nobody signed, and
may fail instead. The mapping, `SignerOf`, makes somebody the signer of a
request when all headers that were signed, and the target among them, are there
and the target had one of the methods. So the refinement says that the loop over
the methods and the two services asked one after the other are one decision, made
at the look-up of the groups. `GrantsToMembers`, half of that, is proved by itself.

## Runs

| Run | Instance | Result |
|---|---|---|
| `deployment` | 2 calls in 1 directory, 2 versions and a stage, one call by stage | passes, about 1,830,000 states |
| `deployment_ends` | 2 calls in 1 directory, 2 versions, a version each, with fairness; also the refinement | passes, about 44,000 states |
| `deployment_success_log` | the same | `SuccessMeansDeployed` fails |
| `deployment_update` | 3 calls with a configuration each, 2 parts, 4 settings, 4 values, with fairness | passes, about 204,000 states |
| `conda_pack` | 3 calls, 2 processes, 2 names, any flags | passes, about 655,000 states |
| `project_run` | 2 calls of one thread, 2 authentications, 3 templates each, with fairness; also the refinement | passes, about 151,000 states |
| `project_command` | every command of up to 4 words of 8 kinds | passes, about 9,400 states |
| `project_command_quotes` | the same | `ArgumentsAsGiven` fails |
| `artifacts` | 3 clients, URIs `r1/`, `r2` and `r10`, 6 artifact paths, 2 of them absolute; also the refinement | passes, about 104,000 states |
| `artifacts_subdirectory` | the same | `LoggedUnderOwnPath` fails |
| `telemetry` | 3 calls in 2 threads, 2 entry points, 2 runtimes | passes, about 269,000 states |
| `authorizer` | 2 calls, 12 requests, 2 principals, 2 groups, one allowed; also the refinement | passes, about 374,000 states |

The runs that fail show what three `findings` in `PROJECT.json` describe, each against
a docstring or a log message of the code. Two more findings are docstrings the code
departs from, that of `wait` and that of `list_artifacts`: `TrueIfSucceededOrKilled`
of `project_run` and `ListsAllBelow` of `artifacts` check what the code does instead.

Bounds. Only `MaxWords` bounds anything that would grow: every state space is finite because the
sets of calls are. A call shares the registry, a directory, a process or a bucket
with others only through the variables named above, and each property of
`ModelDeployment` and `ProjectRun` relates two calls at most, so two calls meet
in every way; two versions are what a stage needs to move. `UpdateDeployment` has
a call that names some settings of a part, one that names others and another
part, and one that leaves the first part out: an update is outdated by one call
and followed by a third. `Telemetry` has two calls of one thread, one after the
other, and a third that overlaps both. `MaxWords` bounds commands at four words: an
interpreter, an option, the entry point and an argument. `CondaPack` has three
calls because a
failed call, a call that reuses what it left, and a call of another process is
the shortest story of its hazards. In `deployment` a call by stage meets a
call for the version the stage may move to, in one directory, so that their archives
are at one path or at two. In `ArtifactRepository` one client logs to a run, another lists
and deletes there by absolute paths, and a third does everything in a run whose URI
begins alike. The requests of `authorizer` are signed for the
first, a middle and the last method tried, or for none. Symmetry is used in
`conda_pack` and `authorizer`, which have no liveness property: names are
interchangeable, and calls are, in `conda_pack` within their process.

Deadlock is checked in the deployment runs and in `authorizer`, where a version
can always be transitioned to another stage and memberships always change; the
other systems stop when all their calls have ended, and say `CHECK_DEADLOCK FALSE`.

Fairness. `ModelDeployment`: a call goes on until it ends, because it is
straight-line code whose requests return or raise, and the service settles every
deployment it accepted. `UpdateDeployment`: the same of a call's steps, and the
service comes to an end with the update it works on. `ProjectRun`: the service
moves job runs on, and `wait` polls. No exception, interrupt, deletion,
cancellation or stage transition is ever required to happen.

## Proofs

Every invariant and action property of the passing runs is proved for every
value of the constants that `ConstantsAssumption` of its module allows; so are the
four refinements. Each proof has the same form:
an inductive invariant holds initially and is preserved, one step per action;
the theorem combines it with `TypeOK` by temporal logic. Few of the properties are
inductive, and these are the invariants they rest on.

`ModelDeploymentProofs`:

- `LocalInv`: which locals are set at which `pc`, and that a pinned URI has
  fixed both the version and the download;
- `ModelInv`: a call has no catalog entry before `create`, and one that is live
  until the rollback;
- `DeploymentInv`: how the state of a deployment, `md`, `pc` and `abandoned`
  relate. Without it nothing tells the rollback that the deployment whose model
  it deletes has failed, was deleted or was given up;
- `ArchiveInv`: the bytes in a private archive path are those of its only user
  from `zip` on. It uses the lemma `PrivacyIsNotGained`: a path that another call
  has does not become private later, because a call looks its version up once;
- `TagInv`: a version's tags name calls that looked it up and uploaded a model. That
  the model is made of the version's files is `MadeFromVersion`, from `ArtifactIsOwn`
  and the part of `LocalInv` that says that look-up and download of a call that is not
  in `moved` agree;
- `FreshInv` and `SoleInv`: a version no call has looked up has no tags, and
  those of one only one call has looked up are what that call has set up to its `pc`.

The refinement adds `AskedInv` (a call gives up only on a deployment it asked
for) and shows, one action after the other with the lemma `MappedStep`, that each maps to
a step of `Deployment` or to none: rollback to `WithdrawAndReturn` or to `Act`, `Settle` and
`DeleteDeployment` to `Serve`, the ends of a call to `Return` and `Raise`, what
concerns files and tags to none.

`UpdateDeploymentProofs`: `WorkInv`: the service works on an update a call has asked
for, and each call asks once; `LastInv`: a part nobody sent back outdated is as
expected, and the update the service works on sends it as it is, if it leaves it
out. Its lemma `WhatChanges` is where both things the service may make of an
update are used.

`CondaPackProofs`: `EnvInv` (what is kept of `NO_CONTAINER` where), `PackInv` (a
local pack belongs to a call that uses its directory, and is there from its check
to its upload), `TornInv` (what a call nobody disturbs leaves where, until it has built
or raised; with `DisturbedStays`, a call once disturbed stays so), `SequenceInv` (of a
call no other interferes with: its own pack, step by step).

`ProjectRunProofs`: `AuthInv` (between setting the authentication and creating the
run, it is the call's own), `ProgressInv` (what exists at which `pc`, and what
the decorated template names), `StatusInv` (`outcome`, `jobRun` and `wait`). The
refinement needs the last two: `ProgressInv` has it that nothing is tagged or handed
out before it exists, `StatusInv` that a run a wait was true of stays over.
`SubmittedStep` says which step of `SubmittedRun` a change of one call's mapped
values is.

`ArtifactRepositoryProofs`: `FolderInv` (an object lies in the folder of the run
it was logged to), `RemoveInv` (all that is still to be deleted lies at the
path), `CallInv`, `LogInv` (what has been uploaded is there as long as the run has no other
client) and `ListInv` (what has been inspected, and what is left to inspect). They rest on lemmas about
prefixes of sequences, on `StrippedCuts` (a path without the slashes at its end), and on `FoldersApart`: folders of different runs share no
name, which is where the assumption that URIs are not nested is needed. The
refinement adds `DeletionReaches` (what a deletion removes lies in a run its client
reaches) and maps each request with one lemma: `UploadLogs`,
`DeletionDeletes`, `InspectionLists`.

`EntryPointCommandProofs`: `ParsedInv` says what has been parsed in terms of
the command, for commands of any length. It rests on `QuotedTwice` (what joining
and splitting do to the words), `DropInterpreterKeeps` (the interpreter and its
option leave from the front and nothing else goes) and `HeadTailIsAll`.

`TelemetryProofs`: `RecordInv` (a call about to write has read a record without
its value) and `OwnInv` (what the variable holds at each `pc` of a call that is not overlapped).

`AuthorizerProofs`: `AuthnInv` (who is authenticated signed the request, a method
that was tried has found its signer, and who is refused was in no allowed group
at some time). The refinement adds `DecideInv`: who is authenticated has sent a
complete request, and a call that is not over has no response. `AllowedSigner` joins
the two: the groups looked up are those of the request's signer.

Only model-checked: the liveness properties `EveryCallEnds`, `EveryUpdateEnds` and
`WaitEnds`, which under fairness are outside what TLAPS proves.

## Not modelled

- Contents of metadata, `runtime.yaml`, `score.py`, job specifications and log
  lines other than those a property is about; the paths the runtime decorators
  write.
- The launcher, which turns environment variables into one command line; the rest
  of the validation of configurations and `resolve_python_version`, which only
  reject or read a file; the authentication plug-in, which signs a request with the default
  signer. They keep no state, and a unit test can reach every case.
- Empty `NO_CONTAINER` counts as unset after a call; the runs use a variable that
  is unset and one that has another value.
- Caches inside ocifs and ADS, Windows paths, downloads of single artifacts.
- `get_deployment` and `predict`, which change no state.

## Plan

1. `create_deployment` composed with `CondaPack`, for a pack whose Python version
   is not that of the model deployed with it.
2. Abstract specifications of `UpdateDeployment` (a deployment whose settings are
   last named by some update) and of `CondaPack`, with the proofs that they are
   implemented.
3. The launcher's command line, with its precedence between settings, as an operator.
