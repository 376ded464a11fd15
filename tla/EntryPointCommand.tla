--------------------------- MODULE EntryPointCommand ---------------------------
(***************************************************************************)
(* EntryPointCommand.from_project_cmd (oci_mlflow/project.py): how the     *)
(* command of a project's entry point becomes what a job runs.             *)
(*                                                                         *)
(* A command is the words a shell reads from it.  A text is a word and the *)
(* pairs of quotation marks it is in.                                      *)
(* Operators marked as mutants are faults a change of the code could bring *)
(* in; no specification here uses them.                                    *)
(***************************************************************************)
EXTENDS Integers, Sequences, SequencesExt

CONSTANTS
  Word,         \* words of commands
  Interpreter,  \* those that begin with python, nbconvert, shell or bash
  Option,       \* those that begin with one dash
  Unsafe,       \* those a shell does not read as one word without quotes
  Json,         \* those that are JSON and need no quotes: 5, 1.10, true
  Spelled,      \* how Python spells the value of each: 5, 1.1, True
  MaxWords,     \* bound on the length of a command
  None          \* an empty entry point

ASSUME ConstantsAssumption ==
  /\ Interpreter \cup Option \cup Unsafe \cup Json \subseteq Word
  /\ Interpreter \cap Option = {} /\ Unsafe \cap Json = {}
  /\ Spelled \in [Json -> Word]
  /\ MaxWords \in Nat
  /\ None \notin Word /\ None \notin [word : Word, quotes : 0..2]

Plain(w) == [word |-> w, quotes |-> 0]

VARIABLES
  given,        \* the command, None for one with a quotation mark left open
  pc,           \* "parse", "done" or "raised"
  cmd,          \* obj.cmd, which a container runs
  entry_point,  \* obj.entry_point
  args          \* obj.args: texts, and values as Python spells them

vars == <<given, pc, cmd, entry_point, args>>

(* shlex.quote: one more pair of quotation marks, if there has to be one.   *)
Quote(t) ==
  IF t.word \in Unsafe \/ t.quotes > 0 THEN [t EXCEPT !.quotes = @ + 1] ELSE t
(* shlex.split takes away one pair.                                         *)
Unquote(t) == IF t.quotes > 0 THEN [t EXCEPT !.quotes = @ - 1] ELSE t

Each(Op(_), s) == [i \in DOMAIN s |-> Op(s[i])]
Words(command) == Each(Plain, command)

(* shlex.join quotes what has been quoted already.                          *)
Joined(command) ==
  LET quoted == Each(Quote, Words(command)) IN Each(Quote, quoted)

Looks(parts, kind) ==
  parts # <<>> /\ Head(parts).quotes = 0 /\ Head(parts).word \in kind

(* Mutant: every option is dropped.                                         *)
DropAllOptions(parts) ==
  SelectSeq(IF Looks(parts, Interpreter) THEN Tail(parts) ELSE parts,
            LAMBDA t : t.word \notin Option)
(* Mutant: the option stays after an interpreter.                           *)
DropEither(parts) ==
  IF Looks(parts, Interpreter) \/ Looks(parts, Option) THEN Tail(parts) ELSE parts
(* What comes first: an interpreter, then one option.                       *)
DropInterpreter(parts) ==
  LET rest == IF Looks(parts, Interpreter) THEN Tail(parts) ELSE parts
  IN  IF Looks(rest, Option) THEN Tail(rest) ELSE rest

(* json.loads gives the value of a text that is JSON, and that is what the  *)
(* job is told; any other text stays as it is.                              *)
Load(t) ==
  IF t.quotes = 0 /\ t.word \in Json THEN Plain(Spelled[t.word]) ELSE t

Command == UNION {[1..n -> Word] : n \in 0..MaxWords}

Init ==
  /\ given \in Command \cup {None}
  /\ pc = "parse" /\ cmd = <<>> /\ entry_point = None /\ args = <<>>

Parse ==
  /\ pc = "parse" /\ given # None
  /\ pc' = "done"
  /\ cmd' = Joined(given)
  /\ LET parts == DropInterpreter(Each(Unquote, cmd')) IN
     /\ entry_point' = IF parts = <<>> THEN None ELSE Head(parts)
     /\ args' = IF parts = <<>> THEN <<>> ELSE Each(Load, Tail(parts))
  /\ UNCHANGED given

(* shlex.split raises; nothing in run catches it.                           *)
ParseRaises ==
  /\ pc = "parse" /\ given = None
  /\ pc' = "raised"
  /\ UNCHANGED <<given, cmd, entry_point, args>>

Next == Parse \/ ParseRaises

Spec == Init /\ [][Next]_vars

-----------------------------------------------------------------------------
(* What a container runs, and what a script is started with.                *)
ContainerGets == Each(Unquote, cmd)
ScriptGets == IF entry_point = None THEN <<>> ELSE <<entry_point>> \o args

(* A container is given every word of the command, in order.  A script is   *)
(* given the same ones, but for an interpreter and one option in front: its *)
(* entry point as it is, and of the arguments those that are not JSON,      *)
(* while json.loads has one that is come out as Python spells its value, so *)
(* that 1.10 is 1.1 to a script and 1.10 to a container.  Either gets a word *)
(* that has to be quoted in quotation marks, of which ArgumentsAsGiven is   *)
(* (project.py:123-139, 673, 686, 718).                                     *)
WordsKept ==
  pc = "done" =>
    /\ [i \in DOMAIN ContainerGets |-> ContainerGets[i].word] = given
    /\ \E n \in 0..2 :
         /\ n <= Len(given) /\ Len(ScriptGets) = Len(given) - n
         /\ \A i \in 1..Len(ScriptGets) :
              \/ ScriptGets[i] = ContainerGets[n + i] /\ (i = 1 \/ given[n + i] \notin Json)
              \/ /\ i > 1 /\ given[n + i] \in Json
                 /\ ScriptGets[i] = Plain(Spelled[given[n + i]])
         /\ \A i \in 1..n : given[i] \in Interpreter \cup Option
         /\ n = 2 => given[1] \in Interpreter /\ given[2] \in Option

(* Of a command that starts an interpreter, with an option or without, the  *)
(* word after it is the entry point (project.py:125-132).                   *)
EntryPointFound ==
  \A n \in {1, 2} :
    (/\ pc = "done" /\ Len(given) > n
     /\ given[1] \in Interpreter \ Unsafe
     /\ n = 2 => given[2] \in Option \ Unsafe
     /\ given[n + 1] \notin Option \cup Unsafe)
      => entry_point = Plain(given[n + 1])

(* "The list of arguments for the entrypoint": the arguments are the words  *)
(* of the command, as a shell would give them to it (project.py:94-97).     *)
ArgumentsAsGiven ==
  \A i \in DOMAIN args : args[i].quotes = 0
=============================================================================
