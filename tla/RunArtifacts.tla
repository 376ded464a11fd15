------------------------------ MODULE RunArtifacts ------------------------------
(***************************************************************************)
(* What an artifact repository promises (oci_mlflow/oci_object_storage.py):*)
(* each run has files of its own, which no client of another run adds to   *)
(* or is shown, and which none removes whose paths do not lead there.      *)
(* ArtifactRepository, where all runs share one bucket and a run is but    *)
(* the beginning of a name, implements this specification.                 *)
(***************************************************************************)
EXTENDS Sequences, SequencesExt

CONSTANTS
  Client,  \* the callers of the repository
  RunOf,   \* the run of each client
  ReachOf  \* the runs each client may delete from

VARIABLES
  files,   \* the objects of each run, by name
  listed   \* the names each client has been shown since its last call

vars == <<files, listed>>

Run == {RunOf[c] : c \in Client}

Init ==
  /\ files = [r \in Run |-> <<>>]
  /\ listed = [c \in Client |-> {}]

(* A client puts an object under one name of its run.                       *)
Log(c) ==
  /\ UNCHANGED listed
  /\ \E name \in DOMAIN files'[RunOf[c]] :
       LET object == files'[RunOf[c]][name] IN
       /\ object.by = c
       /\ files' = [files EXCEPT ![RunOf[c]] =
                      [n \in DOMAIN @ \cup {name} |-> IF n = name THEN object ELSE @[n]]]

(* A client removes objects of runs it reaches, no one knows which of them. *)
Delete(c) ==
  /\ UNCHANGED listed
  /\ files' = [r \in Run |-> files'[r]]
  /\ \A r \in Run :
       /\ DOMAIN files'[r] \subseteq DOMAIN files[r]
       /\ files'[r] = [n \in DOMAIN files'[r] |-> files[r][n]]
       /\ r \notin ReachOf[c] => files'[r] = files[r]

(* A client begins anew.                                                    *)
Forget(c) ==
  /\ listed' = [listed EXCEPT ![c] = {}]
  /\ UNCHANGED files

(* A client is shown an object of its run, or a directory with one below.   *)
List(c) ==
  /\ \E name \in listed'[c] :
       /\ listed' = [listed EXCEPT ![c] = @ \cup {name}]
       /\ \E k \in DOMAIN files[RunOf[c]] :
            k = name \/ IsStrictPrefix(name \o <<"/">>, k)
  /\ UNCHANGED files

Next == \E c \in Client : Forget(c) \/ List(c) \/ Log(c) \/ Delete(c)

Spec == Init /\ [][Next]_vars
=============================================================================
