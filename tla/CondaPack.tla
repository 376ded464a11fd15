------------------------------- MODULE CondaPack -------------------------------
(***************************************************************************)
(* build_and_publish_conda_pack and publish (oci_mlflow/utils.py): calls   *)
(* that share local pack directories, one object storage prefix and, in a  *)
(* process, the environment variable NO_CONTAINER.                         *)
(* Operators marked as mutants are faults a change of the code could bring *)
(* in; no specification here uses them.                                    *)
(*                                                                         *)
(* A pack is known by the call that built it, which settles its name, its  *)
(* architecture and the conda.yaml it was built from.  The file names of a *)
(* pack are the slug locally and <prefix>/<cpu|gpu>/<name>/<version>/<slug>*)
(* in object storage; Name stands for a name with its version.             *)
(***************************************************************************)
CONSTANTS
  Call,           \* the invocations of build_and_publish_conda_pack
  Proc,           \* the processes that make them
  ProcOf,         \* the process of each call
  FolderOf,       \* the conda_pack_folder of each call
  SingleThreaded, \* the processes that make one call at a time
  Name,           \* names with versions
  SlugOf,         \* generate_slug
  OutsideValue,   \* NO_CONTAINER of each process before its first call
  Unset,          \* the variable is not set
  NoPack          \* there is no pack at a path

Request == [name : Name, gpu : BOOLEAN, overwrite : BOOLEAN]
Pack == [by : Call, whole : BOOLEAN]

ASSUME ConstantsAssumption ==
  /\ ProcOf \in [Call -> Proc]
  /\ SingleThreaded \subseteq Proc
  /\ DOMAIN FolderOf = Call
  /\ DOMAIN SlugOf = Name
  /\ OutsideValue \in [Proc -> {OutsideValue[p] : p \in Proc}]
  /\ Unset # "" /\ Unset # "True"
  /\ NoPack \notin Pack

LocalPath == {<<FolderOf[c], SlugOf[n]>> : c \in Call, n \in Name}

VARIABLES
  pc,      \* where each call is
  arg,     \* the request of each call
  saved,   \* publish_option: the value of NO_CONTAINER that publish found
  env,     \* NO_CONTAINER in each process
  local,   \* the packs in the local directories
  remote   \* the packs in object storage

vars == <<pc, arg, saved, env, local, remote>>

Ended == {"returned", "raised"}
Running == {"remote", "local", "create", "creating", "save", "set", "publish",
            "restore"}

Goto(c, from, to) == pc[c] = from /\ pc' = [pc EXCEPT ![c] = to]

Path(c) == <<FolderOf[c], SlugOf[arg[c].name]>>

(* generate_conda_pack_uri                                                  *)
Uri(c) == <<arg[c].name, arg[c].gpu>>

Init ==
  /\ pc = [c \in Call |-> "idle"]
  /\ arg \in [Call -> Request]
  /\ saved = [c \in Call |-> Unset]
  /\ env = OutsideValue
  /\ local = [p \in LocalPath |-> NoPack]
  /\ remote = [u \in Name \X BOOLEAN |-> NoPack]

-----------------------------------------------------------------------------
Begin(c) ==
  /\ ProcOf[c] \in SingleThreaded
       => \A o \in Call : ProcOf[o] = ProcOf[c] => pc[o] \notin Running
  /\ Goto(c, "idle", "remote")
  /\ UNCHANGED <<arg, saved, env, local, remote>>

(* if fs.exists(conda_pack_uri) and not overwrite                           *)
CheckRemote(c) ==
  /\ Goto(c, "remote", IF remote[Uri(c)] # NoPack /\ ~arg[c].overwrite
                         THEN "returned" ELSE "local")
  /\ UNCHANGED <<arg, saved, env, local, remote>>

(* Mutant: a local pack is taken even when it should be overwritten.       *)
ReusesAlways(c) ==
  /\ Goto(c, "local", IF local[Path(c)] # NoPack THEN "save" ELSE "create")
  /\ UNCHANGED <<arg, saved, env, local, remote>>
(* Mutant: a pack found locally is taken for a published one.               *)
SkipsPublish(c) ==
  /\ Goto(c, "local", IF local[Path(c)] # NoPack /\ ~arg[c].overwrite
                        THEN "returned" ELSE "create")
  /\ UNCHANGED <<arg, saved, env, local, remote>>
(* if os.path.exists(<folder>/<slug>) and not overwrite                     *)
CheckLocal(c) ==
  /\ Goto(c, "local", IF local[Path(c)] # NoPack /\ ~arg[c].overwrite
                        THEN "save" ELSE "create")
  /\ UNCHANGED <<arg, saved, env, local, remote>>

(* create_conda: the directory is there from the start, and whole at the    *)
(* end unless another call has been building in it.                         *)
BuiltByOther(c) ==
  \E o \in Call \ {c} : pc[o] = "creating" /\ Path(o) = Path(c)
BeginCreate(c) ==
  /\ Goto(c, "create", "creating")
  /\ local' = [local EXCEPT ![Path(c)] = [by |-> c, whole |-> FALSE]]
  /\ UNCHANGED <<arg, saved, env, remote>>

(* Mutant: the pack is published while it is being built.                   *)
ReturnsEarly(c) ==
  /\ Goto(c, "creating", "save")
  /\ UNCHANGED <<arg, saved, env, local, remote>>
EndCreate(c) ==
  /\ Goto(c, "creating", "save")
  /\ local' = [local EXCEPT ![Path(c)] =
       [by |-> c, whole |-> local[Path(c)].by = c /\ ~BuiltByOther(c)]]
  /\ UNCHANGED <<arg, saved, env, remote>>

(* Mutant: the value of NO_CONTAINER is not kept.                           *)
SaveNothing(c) ==
  /\ Goto(c, "save", "set")
  /\ UNCHANGED <<arg, saved, env, local, remote>>
(* publish: publish_option = os.environ.get("NO_CONTAINER")...              *)
SaveOption(c) ==
  /\ Goto(c, "save", "set")
  /\ saved' = [saved EXCEPT ![c] = env[ProcOf[c]]]
  /\ UNCHANGED <<arg, env, local, remote>>

(* Mutant: another spelling of true.                                        *)
SetOne(c) ==
  /\ Goto(c, "set", "publish")
  /\ env' = [env EXCEPT ![ProcOf[c]] = "1"]
  /\ UNCHANGED <<arg, saved, local, remote>>
(* ...os.environ["NO_CONTAINER"] = "True"                                   *)
SetOption(c) ==
  /\ Goto(c, "set", "publish")
  /\ env' = [env EXCEPT ![ProcOf[c]] = "True"]
  /\ UNCHANGED <<arg, saved, local, remote>>

(* _publish is given the slug, the folder and the prefix, and no name or    *)
(* architecture: it uploads the pack it finds to where that pack belongs.   *)
Publish(c) ==
  /\ Goto(c, "publish", "restore")
  /\ remote' = [remote EXCEPT ![Uri(local[Path(c)].by)] = local[Path(c)]]
  /\ UNCHANGED <<arg, saved, env, local>>

(* Restored only when _publish returned; an empty value is taken for none.  *)
RestoreOption(c) ==
  /\ Goto(c, "restore", "returned")
  /\ env' = [env EXCEPT ![ProcOf[c]] = IF saved[c] = "" THEN Unset ELSE saved[c]]
  /\ UNCHANGED <<arg, saved, local, remote>>

(* Any step raises, or the call is interrupted; nothing is undone.          *)
Raise(c) ==
  /\ pc[c] \in Running
  /\ pc' = [pc EXCEPT ![c] = "raised"]
  /\ UNCHANGED <<arg, saved, env, local, remote>>

Advance(c) ==
  \/ CheckRemote(c) \/ CheckLocal(c) \/ BeginCreate(c) \/ EndCreate(c)
  \/ SaveOption(c) \/ SetOption(c) \/ Publish(c) \/ RestoreOption(c)

Next == \E c \in Call : Begin(c) \/ Advance(c) \/ Raise(c)

Spec == Init /\ [][Next]_vars

-----------------------------------------------------------------------------
TypeOK ==
  /\ pc \in [Call -> Running \cup Ended \cup {"idle"}]
  /\ arg \in [Call -> Request]
  /\ saved \in [Call -> {Unset, "True"} \cup {OutsideValue[p] : p \in Proc}]
  /\ \A c \in Call : saved[c] \in {Unset, "True", OutsideValue[ProcOf[c]]}
  /\ env \in [Proc -> {Unset, "True"} \cup {OutsideValue[p] : p \in Proc}]
  /\ \A p \in Proc : env[p] \in {Unset, "True", OutsideValue[p]}
  /\ local \in [LocalPath -> Pack \cup {NoPack}]
  /\ remote \in [Name \X BOOLEAN -> Pack \cup {NoPack}]

(* Call o meets c in c's local directory, or at c's URI: there o may publish *)
(* its own pack, or one that a third call q has left in o's directory.      *)
Meet(c, o) ==
  \/ Path(c) = Path(o)
  \/ \E q \in Call : Path(q) = Path(o) /\ Uri(q) = Uri(c)

(* The two calls may run at the same time.                                  *)
MayOverlap(c, o) == ~(ProcOf[o] = ProcOf[c] /\ ProcOf[c] \in SingleThreaded)

(* Every call that c meets is made by c's process, one at a time.           *)
InSequence(c) == \A o \in Call \ {c} : Meet(c, o) => ~MayOverlap(c, o)

(* No call that may run at the same time as c has got past the look for a   *)
(* pack in c's directory.                                                   *)
Undisturbed(c) ==
  \A o \in Call \ {c} :
    Path(o) = Path(c) /\ MayOverlap(c, o) => pc[o] \in {"idle", "remote", "local"}

(* When every call of a process that makes one at a time has returned,      *)
(* NO_CONTAINER is what it was before the first, if that was not empty      *)
(* (utils.py:223-226).                                                      *)
EnvironmentRestored ==
  \A p \in SingleThreaded :
    /\ OutsideValue[p] # ""
    /\ \A c \in Call : ProcOf[c] = p => pc[c] \in {"idle", "returned"}
    => env[p] = OutsideValue[p]

(* There are two ways to an incomplete pack in object storage, and no      *)
(* third: the call that was building it failed and left its directory       *)
(* behind, or a call of another process or thread took the directory for a  *)
(* pack while it was being built, or built in it as well (utils.py:261-272).*)
(* The calls that one process makes one after the other, and calls with     *)
(* directories of their own, publish no half of a build that goes on.       *)
PartialPackHasCause ==
  \A u \in Name \X BOOLEAN :
    remote[u] # NoPack /\ ~remote[u].whole
      => pc[remote[u].by] = "raised" \/ ~Undisturbed(remote[u].by)

(* "If overwrite then create and publish always": when such a call returns, *)
(* the pack at the URI it returns is the one it has built, complete,        *)
(* whatever earlier calls left behind (utils.py:242).                       *)
OverwritePublishesOwnPack ==
  [][\A c \in Call :
       arg[c].overwrite /\ InSequence(c) /\ pc[c] # "returned" /\ pc'[c] = "returned"
         => remote'[Uri(c)] = [by |-> c, whole |-> TRUE]]_vars

(* A call returns a URI with a pack, if every call that uses its local      *)
(* directory means the same pack (utils.py:228, 272).                       *)
ReturnedPackExists ==
  \A c \in Call :
    /\ pc[c] = "returned"
    /\ \A o \in Call : Path(o) = Path(c) => Uri(o) = Uri(c)
    => remote[Uri(c)] # NoPack
=============================================================================
