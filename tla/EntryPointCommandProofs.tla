------------------------ MODULE EntryPointCommandProofs ------------------------
(***************************************************************************)
(* Theorems about EntryPointCommand, for any words, any kinds of words and *)
(* commands of any length.                                                 *)
(***************************************************************************)
EXTENDS EntryPointCommand, SequenceTheorems, TLAPS

Text == [word : Word, quotes : 0..2]

(* What a word has become when cmd has been split again: one that has to be *)
(* quoted is left with a pair of quotation marks.                           *)
Part(w) == [word |-> w, quotes |-> IF w \in Unsafe THEN 1 ELSE 0]
Parts(command) == [i \in 1..Len(command) |-> Part(command[i])]

LEMMA CommandIsSeq == ASSUME NEW s \in Command PROVE s \in Seq(Word)
<1>1. PICK n \in 0..MaxWords : s \in [1..n -> Word]
  BY DEF Command
<1>2. n \in Nat
  BY ConstantsAssumption
<1>3. QED BY <1>1, <1>2

LEMMA PartsAreTexts ==
  ASSUME NEW s \in Seq(Word)
  PROVE  Parts(s) \in Seq(Text) /\ Len(Parts(s)) = Len(s)
BY DEF Parts, Part, Text

(* Quoted twice and split once (project.py:123-124).                        *)
LEMMA QuotedTwice ==
  ASSUME NEW s \in Seq(Word)
  PROVE  /\ Joined(s) \in Seq(Text) /\ Len(Joined(s)) = Len(s)
         /\ Each(Unquote, Joined(s)) = Parts(s)
<1> DEFINE W == [i \in 1..Len(s) |-> [word |-> s[i], quotes |-> 0]]
           Q == [i \in 1..Len(s) |-> Part(s[i])]
           J == [i \in 1..Len(s) |->
                   [word |-> s[i], quotes |-> IF s[i] \in Unsafe THEN 2 ELSE 0]]
<1>1. Words(s) = W
  BY DEF Words, Each, Plain
<1>2. Each(Quote, W) = Q
  <2>1. DOMAIN W = 1..Len(s)
    OBVIOUS
  <2>2. ASSUME NEW i \in 1..Len(s) PROVE Quote(W[i]) = Part(s[i])
    BY DEF Quote, Part
  <2>3. QED BY <2>1, <2>2 DEF Each
<1>3. Each(Quote, Q) = J
  <2>1. DOMAIN Q = 1..Len(s)
    OBVIOUS
  <2>2. ASSUME NEW i \in 1..Len(s) PROVE Quote(Q[i]) = J[i]
    BY DEF Quote, Part
  <2>3. QED BY <2>1, <2>2 DEF Each
<1>4. Joined(s) = J
  BY <1>1, <1>2, <1>3 DEF Joined
<1>5. Each(Unquote, J) = Parts(s)
  <2>1. DOMAIN J = 1..Len(s)
    OBVIOUS
  <2>2. ASSUME NEW i \in 1..Len(s) PROVE Unquote(J[i]) = Part(s[i])
    BY DEF Unquote, Part
  <2>3. QED BY <2>1, <2>2 DEF Each, Parts
<1>6. J \in Seq(Text) /\ Len(J) = Len(s)
  BY DEF Text
<1>7. QED BY <1>4, <1>5, <1>6

-----------------------------------------------------------------------------
(* At most two words go from the front of a command, an interpreter before  *)
(* an option, and the rest stays as it was (project.py:125-129).            *)
Dropped(parts, n) ==
  /\ n <= Len(parts)
  /\ DropInterpreter(parts) = SubSeq(parts, n + 1, Len(parts))
  /\ \A i \in 1..n : parts[i].word \in Interpreter \cup Option
  /\ n = 2 => parts[1].word \in Interpreter /\ parts[2].word \in Option

LEMMA DropInterpreterKeeps ==
  ASSUME NEW parts \in Seq(Text)
  PROVE  \E n \in 0..2 : Dropped(parts, n)
<1> DEFINE rest == IF Looks(parts, Interpreter) THEN Tail(parts) ELSE parts
<1>1. CASE Looks(parts, Interpreter)
  <2>1. /\ parts # <<>> /\ Len(parts) >= 1 /\ parts[1].word \in Interpreter
        /\ rest = Tail(parts) /\ rest = SubSeq(parts, 2, Len(parts))
    BY <1>1, TailIsSubSeq, HeadTailProperties DEF Looks
  <2>2. CASE Looks(rest, Option)
    <3>1. rest \in Seq(Text) /\ rest # <<>>
      BY <2>1, <2>2 DEF Looks
    <3>2. Len(parts) >= 2 /\ rest[1] = parts[2]
      BY <2>1, <3>1
    <3>3. parts[2].word \in Option
      BY <2>2, <3>1, <3>2 DEF Looks
    <3>4. Tail(rest) = SubSeq(parts, 3, Len(parts))
      BY <2>1, <3>1, <3>2
    <3>5. DropInterpreter(parts) = SubSeq(parts, 3, Len(parts))
      BY <1>1, <2>2, <3>4 DEF DropInterpreter
    <3>6. Dropped(parts, 2)
      BY <2>1, <3>2, <3>3, <3>5 DEF Dropped
    <3>7. QED BY <3>6
  <2>3. CASE ~Looks(rest, Option)
    <3>1. DropInterpreter(parts) = SubSeq(parts, 2, Len(parts))
      BY <1>1, <2>1, <2>3 DEF DropInterpreter
    <3>2. Dropped(parts, 1)
      BY <2>1, <3>1 DEF Dropped
    <3>3. QED BY <3>2
  <2>4. QED BY <2>2, <2>3
<1>2. CASE ~Looks(parts, Interpreter)
  <2>1. rest = parts
    BY <1>2
  <2>2. CASE Looks(parts, Option)
    <3>1. /\ Len(parts) >= 1 /\ parts[1].word \in Option
          /\ Tail(parts) = SubSeq(parts, 2, Len(parts))
      BY <2>2, TailIsSubSeq DEF Looks
    <3>2. DropInterpreter(parts) = SubSeq(parts, 2, Len(parts))
      BY <1>2, <2>2, <3>1 DEF DropInterpreter
    <3>3. Dropped(parts, 1)
      BY <3>1, <3>2 DEF Dropped
    <3>4. QED BY <3>3
  <2>3. CASE ~Looks(parts, Option)
    <3>1. DropInterpreter(parts) = SubSeq(parts, 1, Len(parts))
      BY <1>2, <2>3 DEF DropInterpreter
    <3>2. Dropped(parts, 0)
      BY <3>1 DEF Dropped
    <3>3. QED BY <3>2
  <2>4. QED BY <2>2, <2>3
<1>3. QED BY <1>1, <1>2

-----------------------------------------------------------------------------
(* What a command has become once it is parsed.                             *)
ParsedInv ==
  /\ given \in Command \cup {None}
  /\ pc = "parse" => entry_point = None /\ args = <<>>
  /\ pc = "done" =>
       /\ given # None /\ cmd = Joined(given)
       /\ LET parts == DropInterpreter(Parts(given)) IN
          /\ entry_point = IF parts = <<>> THEN None ELSE Head(parts)
          /\ args = IF parts = <<>> THEN <<>> ELSE Each(Load, Tail(parts))

(* A command is parsed once, of what is left of it once it has been quoted  *)
(* twice and split once (project.py:114-139).                               *)
THEOREM ParsedInvHolds == Spec => []ParsedInv
<1>1. Init => ParsedInv
  BY DEF Init, ParsedInv
<1>2. ParsedInv /\ [Next]_vars => ParsedInv'
  <2> SUFFICES ASSUME ParsedInv, [Next]_vars PROVE ParsedInv'
    OBVIOUS
  <2>1. CASE Parse
    <3>1. given \in Seq(Word) /\ given # None /\ given' = given
      BY <2>1, CommandIsSeq DEF Parse, ParsedInv
    <3>2. Each(Unquote, cmd') = Parts(given)
      BY <2>1, <3>1, QuotedTwice DEF Parse
    <3>3. QED BY <2>1, <3>1, <3>2 DEF Parse, ParsedInv
  <2>2. CASE ParseRaises
    BY <2>2 DEF ParseRaises, ParsedInv
  <2>3. CASE UNCHANGED vars
    BY <2>3 DEF vars, ParsedInv
  <2>4. QED BY <2>1, <2>2, <2>3 DEF Next
<1>3. QED BY <1>1, <1>2, PTL DEF Spec

(* What a script is given of the parts that are left.                       *)
Loaded(parts) ==
  [i \in 1..Len(parts) |-> IF i = 1 THEN parts[1] ELSE Load(parts[i])]

LEMMA LoadIsText == ASSUME NEW t \in Text PROVE Load(t) \in Text
BY ConstantsAssumption DEF Load, Plain, Text

LEMMA HeadAndLoaded ==
  ASSUME NEW s \in Seq(Text), s # <<>>
  PROVE  <<Head(s)>> \o Each(Load, Tail(s)) = Loaded(s)
<1> DEFINE T == Tail(s)
           L == Each(Load, T)
<1>1. /\ T \in Seq(Text) /\ Len(T) = Len(s) - 1 /\ Len(s) \in Nat \ {0}
      /\ Head(s) = s[1] /\ \A i \in 1..(Len(s) - 1) : T[i] = s[i + 1]
  BY HeadTailProperties, EmptySeq
<1>2. L = [i \in 1..Len(T) |-> Load(T[i])]
  BY <1>1 DEF Each
<1>3. \A i \in 1..Len(T) : T[i] \in Text /\ Load(T[i]) \in Text
  BY <1>1, LoadIsText, ElementOfSeq
<1> HIDE DEF T
<1>4. L \in Seq(Text) /\ Len(L) = Len(s) - 1
      /\ \A i \in 1..(Len(s) - 1) : L[i] = Load(s[i + 1])
  BY <1>1, <1>2, <1>3
<1> HIDE DEF L
<1>5. /\ Len(<<Head(s)>> \o L) = Len(s)
      /\ (<<Head(s)>> \o L)[1] = s[1]
      /\ \A i \in 2..Len(s) : (<<Head(s)>> \o L)[i] = L[i - 1]
  BY <1>1, <1>4
<1>6. \A i \in 2..Len(s) : i - 1 \in 1..(Len(s) - 1) /\ L[i - 1] = Load(s[i])
  BY <1>1, <1>4
<1>7. <<Head(s)>> \o L = [i \in 1..Len(s) |-> (<<Head(s)>> \o L)[i]]
  BY <1>1, <1>4, <1>5
<1>8. \A i \in 1..Len(s) : i # 1 => i \in 2..Len(s)
  BY <1>1
<1>9. QED BY <1>5, <1>6, <1>7, <1>8 DEF Loaded, L, T

(* What a script is given is what is left of the command.                   *)
LEMMA ScriptGetsParts ==
  ASSUME ParsedInv, pc = "done"
  PROVE  /\ given \in Seq(Word)
         /\ DropInterpreter(Parts(given)) \in Seq(Text)
         /\ ScriptGets = Loaded(DropInterpreter(Parts(given)))
<1> DEFINE P == Parts(given)
           parts == DropInterpreter(P)
<1>1. given \in Seq(Word) /\ P \in Seq(Text)
  BY CommandIsSeq, PartsAreTexts DEF ParsedInv
<1>2. parts \in Seq(Text)
  <2>1. PICK n \in 0..2 : Dropped(P, n)
    BY <1>1, DropInterpreterKeeps
  <2> HIDE DEF P
  <2>2. SubSeq(P, n + 1, Len(P)) \in Seq(Text)
    BY <1>1
  <2>3. QED BY <2>1, <2>2 DEF Dropped
<1>3. /\ entry_point = IF parts = <<>> THEN None ELSE Head(parts)
      /\ args = IF parts = <<>> THEN <<>> ELSE Each(Load, Tail(parts))
  BY DEF ParsedInv
<1> HIDE DEF parts
<1>4. ASSUME parts = <<>> PROVE ScriptGets = Loaded(parts)
  <2>1. Loaded(parts) = <<>>
    BY <1>4 DEF Loaded
  <2>2. QED BY <1>3, <1>4, <2>1 DEF ScriptGets
<1>5. ASSUME parts # <<>> PROVE ScriptGets = Loaded(parts)
  <2>1. entry_point = Head(parts) /\ Head(parts) \in Text
    BY <1>2, <1>3, <1>5
  <2>2. entry_point # None
    BY <2>1, ConstantsAssumption DEF Text
  <2>3. ScriptGets = <<Head(parts)>> \o Each(Load, Tail(parts))
    BY <1>3, <1>5, <2>1, <2>2, Zenon DEF ScriptGets
  <2>4. QED BY <1>2, <1>5, <2>3, HeadAndLoaded
<1>6. QED BY <1>1, <1>2, <1>4, <1>5 DEF parts

-----------------------------------------------------------------------------
(* A container is given every word of a command; a script the same ones but *)
(* for an interpreter and one option in front, and with the value in place  *)
(* of an argument that is JSON (project.py:123-139, 673, 686, 718).         *)
THEOREM WordsKeptHolds == Spec => []WordsKept
<1>1. ASSUME ParsedInv, pc = "done" PROVE WordsKept
  <2> DEFINE P == Parts(given)
             D == DropInterpreter(P)
  <2>1. /\ given \in Seq(Word) /\ ScriptGets = Loaded(D) /\ D \in Seq(Text)
        /\ P \in Seq(Text) /\ Len(P) = Len(given)
    BY <1>1, ScriptGetsParts, PartsAreTexts
  <2>2. PICK n \in 0..2 : Dropped(P, n)
    BY <2>1, DropInterpreterKeeps
  <2>3. n <= Len(given) /\ D = SubSeq(P, n + 1, Len(P))
    BY <2>1, <2>2 DEF Dropped
  <2>4. \A i \in 1..Len(given) :
          /\ given[i] \in Word /\ P[i].word = given[i]
          /\ P[i].quotes = IF given[i] \in Unsafe THEN 1 ELSE 0
    BY <2>1 DEF Parts, Part
  <2>5. ContainerGets = P
    BY <1>1, <2>1, QuotedTwice DEF ParsedInv, ContainerGets
  <2> HIDE DEF P
  <2>6. [i \in DOMAIN ContainerGets |-> ContainerGets[i].word] = given
    <3>1. given = [i \in 1..Len(given) |-> given[i]] /\ DOMAIN P = 1..Len(given)
      BY <2>1
    <3>2. QED BY <2>4, <2>5, <3>1
  <2> HIDE DEF D
  <2>7. /\ Len(D) = Len(given) - n /\ Len(given) \in Nat
        /\ \A i \in 1..(Len(given) - n) : D[i] = P[n + i] /\ n + i \in 1..Len(given)
    BY <2>1, <2>3
  <2>8. /\ Len(ScriptGets) = Len(given) - n
        /\ \A i \in 1..(Len(given) - n) :
             ScriptGets[i] = IF i = 1 THEN P[n + i] ELSE Load(P[n + i])
    <3>1. /\ Len(ScriptGets) = Len(D)
          /\ \A i \in 1..Len(D) :
               ScriptGets[i] = IF i = 1 THEN D[1] ELSE Load(D[i])
      <4>1. Len(D) \in Nat
        BY <2>1
      <4>2. QED BY <2>1, <4>1 DEF Loaded
    <3>2. QED BY <2>7, <3>1
  <2>9. ASSUME NEW i \in 1..Len(ScriptGets)
        PROVE  \/ /\ ScriptGets[i] = ContainerGets[n + i]
                  /\ i = 1 \/ given[n + i] \notin Json
               \/ /\ i > 1 /\ given[n + i] \in Json
                  /\ ScriptGets[i] = Plain(Spelled[given[n + i]])
    <3>1. i \in 1..(Len(given) - n) /\ n + i \in 1..Len(given)
      BY <2>7, <2>8, <2>9
    <3>2. given[n + i] \in Json => P[n + i].quotes = 0
      BY <2>4, <3>1, ConstantsAssumption
    <3>3. P[n + i].word = given[n + i]
      BY <2>4, <3>1
    <3>4. Load(P[n + i]) = IF given[n + i] \in Json
                             THEN Plain(Spelled[given[n + i]]) ELSE P[n + i]
      BY <3>2, <3>3 DEF Load
    <3>5. i # 1 => i > 1
      BY <3>1, <2>7
    <3>6. QED BY <2>5, <2>8, <3>1, <3>4, <3>5
  <2>10. /\ \A i \in 1..n : given[i] \in Interpreter \cup Option
         /\ n = 2 => given[1] \in Interpreter /\ given[2] \in Option
    BY <2>1, <2>2, <2>3, <2>4 DEF Dropped
  <2>11. QED BY <2>3, <2>6, <2>8, <2>9, <2>10 DEF WordsKept
<1>2. ParsedInv => WordsKept
  BY <1>1 DEF WordsKept
<1>3. QED BY <1>2, ParsedInvHolds, PTL

(* Of a command that starts an interpreter, the word after it, or after its *)
(* option, is the entry point (project.py:125-132).                         *)
THEOREM EntryPointFoundHolds == Spec => []EntryPointFound
<1>1. ASSUME ParsedInv, NEW n \in {1, 2}, pc = "done", Len(given) > n,
             given[1] \in Interpreter \ Unsafe,
             n = 2 => given[2] \in Option \ Unsafe,
             given[n + 1] \notin Option \cup Unsafe
      PROVE  entry_point = Plain(given[n + 1])
  <2> DEFINE P == Parts(given)
             rest == Tail(P)
             parts == DropInterpreter(P)
  <2>1. given \in Seq(Word) /\ P \in Seq(Text) /\ Len(P) = Len(given)
    BY <1>1, ScriptGetsParts, PartsAreTexts
  <2>2. \A i \in 1..Len(given) : P[i] = Part(given[i])
    BY <2>1 DEF Parts
  <2>3. entry_point = IF parts = <<>> THEN None ELSE Head(parts)
    BY <1>1 DEF ParsedInv
  <2> HIDE DEF P
  <2>4. /\ P # <<>> /\ Head(P) = Part(given[1])
        /\ rest \in Seq(Text) /\ Len(rest) = Len(given) - 1
        /\ \A i \in 1..(Len(given) - 1) : rest[i] = Part(given[i + 1])
    <3>1. 1 \in 1..Len(given) /\ Len(given) \in Nat /\ P # <<>>
      BY <1>1, <2>1
    <3>2. rest \in Seq(Text) /\ Len(rest) = Len(P) - 1
          /\ \A i \in 1..Len(rest) : rest[i] = P[i + 1]
      BY <2>1, <3>1, HeadTailProperties
    <3>3. \A i \in 1..(Len(given) - 1) : i + 1 \in 1..Len(given)
      BY <3>1
    <3>4. QED BY <2>1, <2>2, <3>1, <3>2, <3>3
  <2>5. Looks(P, Interpreter)
    BY <1>1, <2>1, <2>2, <2>4 DEF Looks, Part
  <2>6. parts = IF Looks(rest, Option) THEN Tail(rest) ELSE rest
    BY <2>5 DEF DropInterpreter
  <2> HIDE DEF rest
  <2>7. rest # <<>> /\ Head(rest) = Part(given[2])
    <3>1. Len(given) - 1 \in Nat \ {0}
      BY <1>1, <2>1
    <3>2. rest[1] = Part(given[2])
      BY <2>4, <3>1
    <3>3. QED BY <2>4, <3>1, <3>2
  <2> HIDE DEF parts
  <2>8. CASE n = 1
    <3>1. ~Looks(rest, Option)
      BY <1>1, <2>7, <2>8 DEF Looks, Part
    <3>2. QED BY <1>1, <2>3, <2>6, <2>7, <2>8, <3>1 DEF Part, Plain
  <2>9. CASE n = 2
    <3>1. Looks(rest, Option)
      BY <1>1, <2>7, <2>9 DEF Looks, Part
    <3>2. Tail(rest) # <<>> /\ Head(Tail(rest)) = Part(given[3])
      <4>1. Len(rest) - 1 \in Nat \ {0} /\ rest[2] = Part(given[3])
        BY <1>1, <2>1, <2>4, <2>9
      <4>2. Tail(rest) \in Seq(Text) /\ Len(Tail(rest)) = Len(rest) - 1
            /\ \A i \in 1..Len(Tail(rest)) : Tail(rest)[i] = rest[i + 1]
        BY <2>4, <2>7, HeadTailProperties
      <4>3. Len(Tail(rest)) \in Nat \ {0} /\ 1 \in 1..Len(Tail(rest))
        BY <4>1, <4>2
      <4>4. Tail(rest)[1] = rest[2]
        BY <4>2, <4>3
      <4> DEFINE T == Tail(rest)
      <4> HIDE DEF T
      <4>5. T \in Seq(Text) /\ Len(T) \in Nat \ {0} /\ T[1] = Part(given[3])
        BY <4>1, <4>2, <4>3, <4>4 DEF T
      <4>6. T # <<>> /\ Head(T) = Part(given[3])
        BY <4>5
      <4>7. QED BY <4>6 DEF T
    <3>3. QED BY <1>1, <2>3, <2>6, <2>9, <3>1, <3>2 DEF Part, Plain
  <2>10. QED BY <2>8, <2>9
<1>2. ParsedInv => EntryPointFound
  BY <1>1 DEF EntryPointFound
<1>3. QED BY <1>2, ParsedInvHolds, PTL
=============================================================================
