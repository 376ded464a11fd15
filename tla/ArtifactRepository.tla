--------------------------- MODULE ArtifactRepository ---------------------------
(***************************************************************************)
(* OCIObjectStorageArtifactRepository (oci_mlflow/oci_object_storage.py):  *)
(* clients that log, list and delete artifacts of runs in one bucket, one  *)
(* request to object storage at a time.                                    *)
(*                                                                         *)
(* The code builds names of objects by concatenation, so a path is a       *)
(* sequence of pieces of text: <<"d", "a">> reads "da" and                 *)
(* <<"d", "/", "a">> reads "d/a".  Names that read the same are the same   *)
(* sequence of pieces, and a name of the bucket has no scheme.  An object  *)
(* is known by who logged it from which file.                              *)
(* Left out: paths with ".." or an empty name in them, and listings the    *)
(* library may remember from an earlier call, which delete_artifacts rules *)
(* out with refresh=True (line 299) and list_artifacts (line 269) does     *)
(* not: here a request sees the bucket as it is.                           *)
(* Operators marked as mutants are faults a change of the code could bring *)
(* in; no specification here uses them.                                    *)
(***************************************************************************)
EXTENDS Integers, Sequences, SequencesExt

CONSTANTS
  Client,  \* the callers of the repository, each with a run
  OpsOf,   \* the operations each client calls
  UriOf,   \* the artifact_uri of each client
  PathsOf, \* the artifact paths each client gives, <<>> for none
  TreeOf,  \* the files of each client's local_dir: dir, <<>> at its top, and name
  None     \* no operation yet

Op == {"log", "list", "delete"}
Space == <<" ">>
Slash == <<"/">>

(* str.rstrip("/")                                                          *)
Stripped(p) == SubSeq(p, 1, SelectLastInSeq(p, LAMBDA x : x # "/"))

(* The run of a client: the docs give a root "oci://bucket@namespace/prefix/" *)
(* (docs/source/tracking_server.rst:132), so a URI may end in a slash.       *)
Run(c) == Stripped(UriOf[c])
Absolute(p) == p # <<>> /\ Head(p) = "/"

(* One name is the other or lies below it.                                   *)
Meet(p, q) ==
  IsPrefix(p \o Slash, q \o Slash) \/ IsPrefix(q \o Slash, p \o Slash)

(* MLflow gives each run a directory of its own: none lies inside another.  *)
(* It logs under paths that are not absolute: those would put an empty name *)
(* after the URI.                                                           *)
ASSUME ConstantsAssumption ==
  /\ None \notin Op /\ Slash \in Seq(STRING)
  /\ UriOf \in [Client -> Seq(STRING)]
  /\ \A c \in Client :
       /\ OpsOf[c] \subseteq Op /\ PathsOf[c] \subseteq Seq(STRING)
       /\ Run(c) # <<>> /\ UriOf[c] \in {Run(c), Run(c) \o Slash}
       /\ "log" \in OpsOf[c] => \A p \in PathsOf[c] : ~Absolute(p)
       /\ \A f \in TreeOf[c] : f.dir \in Seq(STRING) /\ f.name \in Seq(STRING)
       /\ \A o \in Client : Meet(Run(c), Run(o)) => Run(c) = Run(o)

VARIABLES
  pc,      \* where each client is
  op,      \* its operation
  path,    \* the artifact path it was given
  todo,    \* the files to upload, the names to look at or to delete
  result,  \* the listing so far: name and is_dir
  store    \* the bucket: who logged the object of a name, from which file

vars == <<pc, op, path, todo, result, store>>

Ended == {"returned", "raised"}

(* Mutant: the artifact path follows the URI at once.                       *)
UnseparatedDest(c) ==
  Run(c) \o (IF path[c] = <<>> THEN <<>> ELSE Stripped(path[c]) \o Slash)
(* dest_path of log_artifact and log_artifacts                              *)
Dest(c) ==
  Run(c) \o Slash \o (IF path[c] = <<>> THEN <<>> ELSE Stripped(path[c]) \o Slash)

(* dest_path of list_artifacts and delete_artifacts: os.path.join puts one   *)
(* slash between the URI and a path, and drops the URI for an absolute path, *)
(* which names an object from the bucket on.                                 *)
Joined(c, p) ==
  IF p = <<>> THEN UriOf[c]
  ELSE IF Absolute(p) THEN Tail(p)
  ELSE Run(c) \o Slash \o p

(* Mutant: the directory is left out.                                       *)
Flattened(c, f) == Dest(c) \o f.name
(* dst_path of an upload: a directory's name is followed by the file's.     *)
ObjectName(c, f) == Dest(c) \o f.dir \o f.name

(* Object storage has no directories but the prefixes of its names.         *)
IsDir(p) == \E k \in DOMAIN store : IsStrictPrefix(p \o Slash, k)
IsEntry(p) == p \in DOMAIN store \/ IsDir(p)
Rest(p, q) == SubSeq(q, Len(p) + 1, Len(q))

(* fs.ls and fs.glob(p + "/*"): the objects and directories right below p.   *)
Children(p) ==
  {q \in UNION {Prefixes(k) : k \in DOMAIN store} :
     /\ IsStrictPrefix(p \o Slash, q) /\ IsEntry(q)
     /\ ~Contains(Rest(p \o Slash, q), "/")}

Init ==
  /\ pc = [c \in Client |-> "idle"]
  /\ op = [c \in Client |-> None]
  /\ path = [c \in Client |-> <<>>]
  /\ todo = [c \in Client |-> {}]
  /\ result = [c \in Client |-> {}]
  /\ store = <<>>

(* A client may call again when its last call has ended.                    *)
Call(c, o) ==
  /\ pc[c] \in Ended \cup {"idle"}
  /\ pc' = [pc EXCEPT ![c] = o]
  /\ op' = [op EXCEPT ![c] = o]
  /\ \E p \in PathsOf[c] : path' = [path EXCEPT ![c] = p]
  /\ result' = [result EXCEPT ![c] = {}]
  /\ UNCHANGED <<todo, store>>

Goto(c, from, to) == pc[c] = from /\ pc' = [pc EXCEPT ![c] = to]

(* An exception ends the call: what was done to the bucket stays done.      *)
Fail(c) ==
  /\ pc' = [pc EXCEPT ![c] = "raised"]
  /\ op' = [op EXCEPT ![c] = None]
  /\ path' = [path EXCEPT ![c] = <<>>]
  /\ todo' = [todo EXCEPT ![c] = {}]
  /\ result' = [result EXCEPT ![c] = {}]
  /\ UNCHANGED store

-----------------------------------------------------------------------------
(* log_artifacts; log_artifact is the case of a tree of one file.           *)
RejectBlankPath(c) ==
  /\ pc[c] = "log" /\ path[c] = Space
  /\ Fail(c)

WalkTree(c) ==
  /\ path[c] # Space
  /\ Goto(c, "log", "upload")
  /\ todo' = [todo EXCEPT ![c] = TreeOf[c]]
  /\ UNCHANGED <<op, path, result, store>>

(* os.walk: the files of a directory come before those of its directories.  *)
Upload(c) ==
  /\ pc[c] = "upload"
  /\ \E f \in todo[c] :
       /\ \A g \in todo[c] : ~IsStrictPrefix(g.dir, f.dir)
       /\ todo' = [todo EXCEPT ![c] = @ \ {f}]
       /\ store' = [k \in DOMAIN store \cup {ObjectName(c, f)} |->
                      IF k = ObjectName(c, f) THEN [by |-> c, file |-> f]
                      ELSE store[k]]
  /\ UNCHANGED <<pc, op, path, result>>

-----------------------------------------------------------------------------
(* list_artifacts.  After a slash at the end the pattern reads "//*", which   *)
(* the library may take for what no name matches, or for "/*".              *)
Glob(c) ==
  /\ Goto(c, "list", "inspect")
  /\ \E p \in {Joined(c, path[c]), Stripped(Joined(c, path[c]))} :
       todo' = [todo EXCEPT ![c] = Children(p)]
  /\ UNCHANGED <<op, path, result, store>>

(* Mutant: directories are passed over.                                     *)
InspectFile(c) ==
  /\ pc[c] = "inspect"
  /\ \E q \in todo[c] :
       /\ todo' = [todo EXCEPT ![c] = @ \ {q}]
       /\ result' = [result EXCEPT ![c] =
            IF IsDir(q) THEN @ ELSE @ \cup {[name |-> q, is_dir |-> FALSE]}]
  /\ UNCHANGED <<pc, op, path, store>>
(* isdir, then info of what is no directory, which has to be there still.   *)
(* Both ask for the name relative to the URI; "../" leads nowhere in object *)
(* storage, so that info of what lies outside the URI raises (see Raise).   *)
Inspect(c) ==
  /\ pc[c] = "inspect"
  /\ \E q \in todo[c] :
       /\ IsEntry(q) /\ IsPrefix(Run(c) \o Slash, q)
       /\ todo' = [todo EXCEPT ![c] = @ \ {q}]
       /\ result' = [result EXCEPT ![c] = @ \cup {[name |-> q, is_dir |-> IsDir(q)]}]
  /\ UNCHANGED <<pc, op, path, store>>

-----------------------------------------------------------------------------
(* Mutant: everything that begins with the path is found.                   *)
LsByPrefix(c) ==
  LET p == Stripped(Joined(c, path[c])) IN
  /\ IsEntry(p)
  /\ Goto(c, "delete", "remove")
  /\ todo' = [todo EXCEPT ![c] = {q \in DOMAIN store : IsPrefix(p, q)}]
  /\ UNCHANGED <<op, path, result, store>>
(* delete_artifacts: fs.ls of an object that is no directory finds it, and  *)
(* of nothing at all raises.                                                *)
Ls(c) ==
  LET p == Stripped(Joined(c, path[c])) IN
  /\ IsEntry(p)
  /\ Goto(c, "delete", "remove")
  /\ todo' = [todo EXCEPT ![c] = IF IsDir(p) THEN Children(p) ELSE {p}]
  /\ UNCHANGED <<op, path, result, store>>

(* fs.delete without recursive: an object goes; of a directory the library  *)
(* may remove nothing, or what is below it, or raise (see Raise).           *)
DeleteEntry(c) ==
  /\ pc[c] = "remove"
  /\ \E q \in todo[c] :
       /\ todo' = [todo EXCEPT ![c] = @ \ {q}]
       /\ \E gone \in {{q}} \cup IF IsDir(q)
                                  THEN {{k \in DOMAIN store : IsPrefix(q \o Slash, k)}}
                                  ELSE {} :
            store' = [k \in DOMAIN store \ gone |-> store[k]]
  /\ UNCHANGED <<pc, op, path, result>>

-----------------------------------------------------------------------------
(* Mutant: the walk ends before the directories.                            *)
EndsAtTop(c) ==
  /\ pc[c] \in {"upload", "inspect", "remove"}
  /\ pc[c] = "upload" => \A f \in todo[c] : f.dir # <<>>
  /\ pc[c] # "upload" => todo[c] = {}
  /\ pc' = [pc EXCEPT ![c] = "returned"]
  /\ UNCHANGED <<op, path, todo, result, store>>
EndCall(c) ==
  /\ pc[c] \in {"upload", "inspect", "remove"} /\ todo[c] = {}
  /\ pc' = [pc EXCEPT ![c] = "returned"]
  /\ UNCHANGED <<op, path, todo, result, store>>

(* A request fails, or the client is stopped.                               *)
Raise(c) ==
  /\ pc[c] \notin Ended \cup {"idle"}
  /\ Fail(c)

Step(c) ==
  \/ \E o \in OpsOf[c] : Call(c, o)
  \/ RejectBlankPath(c) \/ WalkTree(c) \/ Upload(c)
  \/ Glob(c) \/ Inspect(c)
  \/ Ls(c) \/ DeleteEntry(c)
  \/ EndCall(c) \/ Raise(c)

Next == \E c \in Client : Step(c)

Spec == Init /\ [][Next]_vars

-----------------------------------------------------------------------------
Object == [by : Client, file : UNION {TreeOf[c] : c \in Client}]

TypeOK ==
  /\ pc \in [Client -> Ended \cup Op \cup {"idle", "upload", "inspect", "remove"}]
  /\ op \in [Client -> Op \cup {None}]
  /\ path = [c \in Client |-> path[c]]
  /\ todo = [c \in Client |-> todo[c]]
  /\ result = [c \in Client |-> result[c]]
  /\ \A c \in Client :
       /\ path[c] \in PathsOf[c] \cup {<<>>}
       /\ pc[c] = "upload" => todo[c] \subseteq TreeOf[c]
       /\ pc[c] \in {"inspect", "remove"} => \A q \in todo[c] : q \in Seq(STRING)
       /\ pc[c] \notin {"upload", "inspect", "remove"} => todo[c] = {}
       /\ \A e \in result[c] : e.name \in Seq(STRING) /\ e.is_dir \in BOOLEAN
  /\ DOMAIN store \subseteq Seq(STRING)
  /\ \A k \in DOMAIN store : store[k] \in Object

(* The runs a client may delete from: its own, and any an absolute path     *)
(* leads to.                                                                *)
Reach(c) ==
  {Run(o) : o \in {a \in Client :
     \/ Run(a) = Run(c)
     \/ \E p \in PathsOf[c] : Absolute(p) /\ Meet(Stripped(Tail(p)), Run(a))}}

Alone(c) == \A o \in Client \ {c} : Run(c) \notin Reach(o)

(* What is below a run's artifact_uri was logged to that run, also when the *)
(* URI of one run begins like that of another                               *)
(* (oci_object_storage.py:196, 218).                                        *)
OwnRunOnly ==
  \A c \in Client, k \in DOMAIN store :
    IsPrefix(Run(c) \o Slash, k) => Run(store[k].by) = Run(c)

(* "Delete the artifacts at the specified location": whatever other clients *)
(* log meanwhile, a call removes nothing but the object at its path and     *)
(* what is below that path; an absolute path is a location of its own       *)
(* (oci_object_storage.py:284-301).                                         *)
DeletesAtLocation ==
  [][\A c \in Client, k \in DOMAIN store :
       pc[c] = "remove" /\ todo'[c] # todo[c] /\ k \notin DOMAIN store'
         => LET p == Stripped(Joined(c, path[c])) IN k = p \/ IsPrefix(p \o Slash, k)]_vars

(* "Logs the files in the specified local directory as artifacts": when the *)
(* call of a run's only client returns, each file is under its own name in  *)
(* the artifact path, with its own content                                  *)
(* (oci_object_storage.py:199-231).                                         *)
Logged(c, f, name) ==
  name \in DOMAIN store /\ store[name] = [by |-> c, file |-> f]
LoggedUnderOwnPath ==
  \A c \in Client :
    pc[c] = "returned" /\ op[c] = "log" /\ Alone(c)
      => \A f \in TreeOf[c] :
           Logged(c, f, Dest(c) \o (IF f.dir = <<>> THEN <<>> ELSE f.dir \o Slash)
                          \o f.name)

(* The same for the files at the top of the directory, unless the name of   *)
(* one reads like that of a file below.                                     *)
LoggedAtTop ==
  \A c \in Client :
    pc[c] = "returned" /\ op[c] = "log" /\ Alone(c)
      => \A f \in TreeOf[c] :
           f.dir = <<>> /\ (\A g \in TreeOf[c] \ {f} : g.dir \o g.name # f.name)
             => Logged(c, f, Run(c) \o Slash
                  \o (IF path[c] = <<>> THEN <<>> ELSE Stripped(path[c]) \o Slash)
                  \o f.name)

(* "Return all the artifacts for this run_id directly under path", with     *)
(* their kind, for a path below the URI when no one else changes the run    *)
(* (oci_object_storage.py:244-282).  For a path at which nothing exists that *)
(* is the empty listing, where "Will error if path is neither a file nor    *)
(* directory" (line 247) says otherwise.  Nothing is claimed of a path or a *)
(* URI that ends in a slash, where it is up to the library (see Glob).      *)
ListsAllBelow ==
  \A c \in Client :
    LET p == Joined(c, path[c]) IN
    pc[c] = "returned" /\ op[c] = "list" /\ Alone(c)
      /\ ~Absolute(path[c]) /\ Stripped(p) = p
      => result[c] = {[name |-> q, is_dir |-> IsDir(q)] : q \in Children(p)}

-----------------------------------------------------------------------------
(* What there is of a run, in the terms of module RunArtifacts.             *)
FilesOf(run) ==
  [k \in {n \in DOMAIN store : IsPrefix(run \o Slash, n)} |-> store[k]]
ListedOf(c) == {e.name : e \in result[c]}

Runs == INSTANCE RunArtifacts WITH
  RunOf <- [c \in Client |-> Run(c)],
  ReachOf <- [c \in Client |-> Reach(c)],
  files <- [run \in {Run(c) : c \in Client} |-> FilesOf(run)],
  listed <- [c \in Client |-> ListedOf(c)]

(* The bucket and the names built in it implement module RunArtifacts: each *)
(* request puts one object into the client's own run, shows what is in it   *)
(* then, whatever the path, or removes objects of that run alone, unless an *)
(* absolute path leads elsewhere; also when the URI of one run begins like  *)
(* that of another (oci_object_storage.py:196, 218, 244-301).               *)
ImplementsRunArtifacts == Runs!Spec
=============================================================================
