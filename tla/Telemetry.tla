------------------------------- MODULE Telemetry -------------------------------
(***************************************************************************)
(* The telemetry decorator (oci_mlflow/telemetry_logging.py) around calls  *)
(* of OCIModelDeploymentClient.create_deployment and OCIProjectBackend.run *)
(* in the threads of one process: they share one environment variable,     *)
(* EXTRA_USER_AGENT_INFO, which goes with every request they make.  Each   *)
(* access to the variable is a step.                                       *)
(*                                                                         *)
(* The variable holds values with "&" between them: here, a sequence.  The *)
(* code adds a value unless the text contains it (line 131), the model     *)
(* unless it is one of the values.  That differs only where one value      *)
(* reads like the beginning of another, as runtime=dataFlow and            *)
(* runtime=dataFlowNotebook do, which no one call records both.            *)
(*                                                                         *)
(* Operators marked as mutants are faults a change of the code could bring *)
(* in; no specification here uses them.                                    *)
(***************************************************************************)
EXTENDS Naturals, Sequences

CONSTANTS
  Call,     \* the decorated calls
  ThreadOf, \* the thread of each call: it makes one at a time
  Value,    \* what may be recorded
  Name,     \* "oci.mlflow"
  Blank,    \* no text, before the first "&"
  Other,    \* what else the variable may hold before the first call
  EntryOf,  \* of each call: "plugin=...&action=..."
  InfraOf,  \* of each call: "infrastructure=..."
  RuntimeOf \* of each call: "runtime=..."

Text == Value \cup {Blank, Other}

(* What a call records, in this order.                                      *)
Values(c) == <<Name, EntryOf[c], InfraOf[c], RuntimeOf[c]>>

ASSUME ConstantsAssumption ==
  /\ {Blank, Other} \cap Value = {}
  /\ \A c \in Call : \A i, j \in 1..4 :
       Values(c)[i] \in Value /\ (i # j => Values(c)[i] # Values(c)[j])

VARIABLES
  pc,         \* where each call is
  adding,     \* which of its values each call adds, or has added last
  current,    \* current_value of Telemetry.add
  environ,    \* os.environ["EXTRA_USER_AGENT_INFO"]
  overlapped  \* history: calls that were not the only one at some time

vars == <<pc, adding, current, environ, overlapped>>

Open == {"clean", "check", "begin", "name", "read", "write", "body", "finish"}
IsOpen(c) == pc[c] \in Open

Goto(c, from, to) == pc[c] = from /\ pc' = [pc EXCEPT ![c] = to]

Elements(s) == {s[i] : i \in DOMAIN s}

(* Where a call goes when it has added a value: begin() adds two, then the  *)
(* function runs; in the function add() is called twice in a row.           *)
AfterAdd(c) == IF adding[c] \in {1, 3} THEN "check" ELSE "body"
Added(c) == adding' = [adding EXCEPT ![c] = IF @ \in {1, 3} THEN @ + 1 ELSE @]

Init ==
  /\ pc = [c \in Call |-> "idle"]
  /\ adding = [c \in Call |-> 1]
  /\ current = [c \in Call |-> <<>>]
  /\ environ \in {<<>>, <<Other>>}
  /\ overlapped = {}

-----------------------------------------------------------------------------
(* Telemetry(...): __post_init__ empties the variable...                    *)
Create(c) ==
  /\ \A o \in Call : ThreadOf[o] = ThreadOf[c] => ~IsOpen(o)
  /\ Goto(c, "idle", "clean")
  /\ environ' = <<>>
  /\ LET others == {o \in Call \ {c} : IsOpen(o)}
     IN overlapped' = overlapped \cup others
                        \cup (IF others = {} THEN {} ELSE {c})
  /\ UNCHANGED <<adding, current>>

(* ...and begin() does once more.                                           *)
Clean(c) ==
  /\ Goto(c, "clean", "check")
  /\ environ' = <<>>
  /\ UNCHANGED <<adding, current, overlapped>>

(* Mutant: the test is the wrong way round.                                 *)
BeginsIfSet(c) ==
  /\ Goto(c, "check", IF environ # <<>> THEN "begin" ELSE "read")
  /\ UNCHANGED <<adding, current, environ, overlapped>>
(* add(): a record that is empty is begun.                                  *)
Check(c) ==
  /\ Goto(c, "check", IF environ = <<>> THEN "begin" ELSE "read")
  /\ UNCHANGED <<adding, current, environ, overlapped>>

(* _begin(): emptied, then set to the name.                                 *)
Begin(c) ==
  /\ Goto(c, "begin", "name")
  /\ environ' = <<>>
  /\ UNCHANGED <<adding, current, overlapped>>
SetName(c) ==
  /\ Goto(c, "name", "read")
  /\ environ' = <<Name>>
  /\ UNCHANGED <<adding, current, overlapped>>

(* The record is read; a value that is in it is not added again.            *)
Read(c) ==
  \/ /\ Values(c)[adding[c]] \in Elements(environ)
     /\ Goto(c, "read", AfterAdd(c))
     /\ Added(c)
     /\ UNCHANGED <<current, environ, overlapped>>
  \/ /\ Values(c)[adding[c]] \notin Elements(environ)
     /\ Goto(c, "read", "write")
     /\ current' = [current EXCEPT ![c] = environ]
     /\ UNCHANGED <<adding, environ, overlapped>>

(* Mutant: the value goes to what the variable holds by now.                *)
AppendsToRecord(c) ==
  /\ Goto(c, "write", AfterAdd(c))
  /\ environ' = Append(environ, Values(c)[adding[c]])
  /\ Added(c)
  /\ UNCHANGED <<current, overlapped>>
(* Mutant: the next value is looked up too far.                             *)
SkipsValue(c) ==
  /\ Goto(c, "write", AfterAdd(c))
  /\ environ' = Append(current[c], Values(c)[adding[c]])
  /\ adding' = [adding EXCEPT ![c] = @ + 2]
  /\ UNCHANGED <<current, overlapped>>
(* What was read, "&" and the value are written; what was read is done with. *)
Write(c) ==
  /\ Goto(c, "write", AfterAdd(c))
  /\ environ' = Append(IF current[c] = <<>> THEN <<Blank>> ELSE current[c],
                       Values(c)[adding[c]])
  /\ Added(c)
  /\ current' = [current EXCEPT ![c] = <<>>]
  /\ UNCHANGED overlapped

(* The function records its infrastructure and runtime, once it knows them. *)
Record(c) ==
  /\ adding[c] = 2
  /\ Goto(c, "body", "check")
  /\ adding' = [adding EXCEPT ![c] = 3]
  /\ UNCHANGED <<current, environ, overlapped>>

(* The function returns or raises before or after that, or is interrupted   *)
(* meanwhile.                                                               *)
Leave(c) ==
  /\ pc[c] \in Open \ {"finish"} /\ (pc[c] # "body" => adding[c] \in {3, 4})
  /\ pc' = [pc EXCEPT ![c] = "finish"]
  /\ current' = [current EXCEPT ![c] = <<>>]
  /\ UNCHANGED <<adding, environ, overlapped>>

(* Mutant: there is no finally, and an exception ends the call at once.     *)
FinishIfReturned(c) ==
  /\ Goto(c, "finish", "ended")
  /\ environ' \in {environ, <<>>}
  /\ UNCHANGED <<adding, current, overlapped>>
(* finally: clean()                                                         *)
Finish(c) ==
  /\ Goto(c, "finish", "ended")
  /\ environ' = <<>>
  /\ UNCHANGED <<adding, current, overlapped>>

Next == \E c \in Call :
  \/ Create(c) \/ Clean(c) \/ Check(c) \/ Begin(c) \/ SetName(c) \/ Read(c)
  \/ Write(c) \/ Record(c) \/ Leave(c) \/ Finish(c)

Spec == Init /\ [][Next]_vars

-----------------------------------------------------------------------------
TypeOK ==
  /\ pc \in [Call -> Open \cup {"idle", "ended"}]
  /\ adding \in [Call -> 1..4]
  /\ current \in [Call -> Seq(Text)]
  /\ environ \in Seq(Text)
  /\ overlapped \subseteq Call

(* When every call that was begun has ended, however they overlapped and    *)
(* however they ended, nothing of them goes with later requests             *)
(* (telemetry_logging.py:52-55).                                            *)
QuietWhenIdle ==
  (\A c \in Call : ~IsOpen(c)) /\ (\E c \in Call : pc[c] = "ended")
    => environ = <<>>

(* No value is recorded twice, although a call writes a record that others  *)
(* may have changed since it looked (telemetry_logging.py:128-132).         *)
NoValueTwice ==
  \A i, j \in DOMAIN environ : environ[i] = environ[j] => i = j

(* While a call that no other call overlaps runs, its requests carry its    *)
(* name, its entry point and, as soon as it has recorded them, its          *)
(* infrastructure and runtime; nothing of earlier calls, and nothing that   *)
(* was in the variable before (telemetry_logging.py:76-79, 112).            *)
OwnSequence ==
  \A c \in Call \ overlapped :
    pc[c] = "body" => environ = SubSeq(Values(c), 1, adding[c])
=============================================================================
