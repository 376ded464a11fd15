------------------------ MODULE ArtifactRepositoryProofs ------------------------
(***************************************************************************)
(* Theorems about ArtifactRepository, for any clients, runs, trees of      *)
(* files and artifact paths, with lemmas on prefixes of names.             *)
(***************************************************************************)
EXTENDS ArtifactRepository, SequenceTheorems, WellFoundedInduction, TLAPS

Name == Seq(STRING)

(* A prefix agrees with the longer name piece by piece.                     *)
LEMMA PrefixByPieces ==
  ASSUME NEW p \in Name, NEW q \in Name
  PROVE  IsPrefix(p, q)
           <=> Len(p) <= Len(q) /\ \A i \in 1..Len(p) : p[i] = q[i]
<1> USE DEF Name
<1>1. CASE Len(p) <= Len(q)
  <2>1. /\ SubSeq(p, 1, Len(p)) \in Seq(STRING) /\ Len(SubSeq(p, 1, Len(p))) = Len(p)
        /\ \A i \in 1..Len(p) : SubSeq(p, 1, Len(p))[i] = p[i]
    OBVIOUS
  <2>2. /\ SubSeq(q, 1, Len(p)) \in Seq(STRING) /\ Len(SubSeq(q, 1, Len(p))) = Len(p)
        /\ \A i \in 1..Len(p) : SubSeq(q, 1, Len(p))[i] = q[i]
    BY <1>1
  <2>3. SubSeq(p, 1, Len(p)) = SubSeq(q, 1, Len(p))
          <=> \A i \in 1..Len(p) : p[i] = q[i]
    BY <2>1, <2>2, SeqEqual
  <2>4. QED BY <1>1, <2>3 DEF IsPrefix
<1>2. CASE ~(Len(p) <= Len(q))
  BY <1>2 DEF IsPrefix
<1>3. QED BY <1>1, <1>2

(* What a name begins with begins with all that begins it.                  *)
LEMMA PrefixTransitive ==
  ASSUME NEW p \in Name, NEW q \in Name, NEW r \in Name,
         IsPrefix(p, q), IsPrefix(q, r)
  PROVE  IsPrefix(p, r)
<1>1. /\ Len(p) <= Len(q) /\ \A i \in 1..Len(p) : p[i] = q[i]
      /\ Len(q) <= Len(r) /\ \A i \in 1..Len(q) : q[i] = r[i]
  BY PrefixByPieces
<1>2. Len(p) \in Nat /\ Len(q) \in Nat /\ Len(r) \in Nat
  BY DEF Name
<1>3. Len(p) <= Len(r) /\ \A i \in 1..Len(p) : p[i] = r[i]
  BY <1>1, <1>2
<1>4. QED BY <1>3, PrefixByPieces

(* A name is a prefix of itself.                                            *)
LEMMA PrefixReflexive == ASSUME NEW p \in Name PROVE IsPrefix(p, p)
  BY PrefixByPieces DEF Name

(* Adding to a name leaves it a prefix.                                     *)
LEMMA PrefixOfConcat ==
  ASSUME NEW p \in Name, NEW q \in Name
  PROVE  p \o q \in Name /\ IsPrefix(p, p \o q)
<1>1. p \o q \in Name
  BY DEF Name
<1>2. Len(p) <= Len(p \o q) /\ \A i \in 1..Len(p) : p[i] = (p \o q)[i]
  BY DEF Name
<1>3. QED BY <1>1, <1>2, PrefixByPieces

(* Two prefixes of one name begin one another.                              *)
LEMMA PrefixesCompare ==
  ASSUME NEW p \in Name, NEW q \in Name, NEW r \in Name,
         IsPrefix(p, r), IsPrefix(q, r)
  PROVE  IsPrefix(p, q) \/ IsPrefix(q, p)
<1>1. /\ Len(p) <= Len(r) /\ \A i \in 1..Len(p) : p[i] = r[i]
      /\ Len(q) <= Len(r) /\ \A i \in 1..Len(q) : q[i] = r[i]
  BY PrefixByPieces
<1>2. Len(p) \in Nat /\ Len(q) \in Nat /\ Len(r) \in Nat
  BY DEF Name
<1>3. CASE Len(p) <= Len(q)
  <2>1. \A i \in 1..Len(p) : p[i] = q[i]
    BY <1>1, <1>2, <1>3
  <2>2. QED BY <1>3, <2>1, PrefixByPieces
<1>4. CASE Len(q) <= Len(p)
  <2>1. \A i \in 1..Len(q) : q[i] = p[i]
    BY <1>1, <1>2, <1>4
  <2>2. QED BY <1>4, <2>1, PrefixByPieces
<1>5. QED BY <1>2, <1>3, <1>4

(* Pieces can be joined in any grouping.                                    *)
LEMMA ConcatAssociates ==
  ASSUME NEW p \in Name, NEW q \in Name, NEW r \in Name
  PROVE  (p \o q) \o r = p \o (q \o r)
<1>1. p \in Seq(STRING) /\ q \in Seq(STRING) /\ r \in Seq(STRING)
  BY DEF Name
<1>2. QED BY <1>1, ConcatAssociative

(* Whatever follows one beginning differs when the wholes differ.           *)
LEMMA ConcatCancels ==
  ASSUME NEW p \in Name, NEW q \in Name, NEW r \in Name, p \o q = p \o r
  PROVE  q = r
<1> USE DEF Name
<1>1. Len(p \o q) = Len(p) + Len(q) /\ Len(p \o r) = Len(p) + Len(r)
  OBVIOUS
<1>2. Len(q) = Len(r)
  BY <1>1
<1>3. ASSUME NEW i \in 1..Len(q) PROVE q[i] = r[i]
  <2>1. (p \o q)[Len(p) + i] = q[i] /\ (p \o r)[Len(p) + i] = r[i]
    BY <1>2
  <2>2. QED BY <2>1
<1>4. QED BY <1>2, <1>3, SeqEqual

-----------------------------------------------------------------------------
(***************************************************************************)
(* The names the repository builds.                                        *)
(***************************************************************************)
Folder(c) == Run(c) \o Slash
Target(c) == Joined(c, path[c])
Location(c) == Stripped(Target(c))

(* The separator is a name.                                                 *)
LEMMA SlashIsName == Slash \in Name
  BY ConstantsAssumption DEF Name

(* A set of natural numbers has a least element.                            *)
LEMMA LeastNatural ==
  ASSUME NEW T \in SUBSET Nat, T # {}
  PROVE  \E m \in T : \A k \in T : m <= k
<1> DEFINE R == OpToRel(<, Nat)
<1>1. IsWellFoundedOn(R, Nat)
  BY NatLessThanWellFounded
<1> HIDE DEF R
<1>2. PICK m \in T : \A k \in T : ~(<<k, m>> \in R)
  BY <1>1, WFMin
<1>3. \A k \in T : k < m => <<k, m>> \in R
  BY DEF R, OpToRel
<1>4. m \in Nat /\ \A k \in T : k \in Nat /\ ~(k < m)
  BY <1>2, <1>3
<1>5. \A k \in T : m <= k
  BY <1>4
<1>6. QED BY <1>5

(* A set of positions has a last one.                                       *)
LEMMA LastPosition ==
  ASSUME NEW n \in Nat, NEW T \in SUBSET (1..n), T # {}
  PROVE  Max(T) \in T /\ \A k \in T : k <= Max(T)
<1> DEFINE U == {n - i : i \in T}
<1>0. \A i \in T : i \in 1..n
  OBVIOUS
<1>a. \A i \in T : i \in Nat /\ n - i \in Nat
  BY <1>0
<1>1. U \in SUBSET Nat /\ U # {}
  BY <1>a
<1>2. PICK m \in U : \A k \in U : m <= k
  BY <1>1, LeastNatural
<1>3. PICK i \in T : m = n - i
  BY <1>2
<1>4. \A j \in T : n - i <= n - j
  BY <1>2, <1>3
<1>5. \A j \in T : i >= j
  BY <1>a, <1>4
<1>6. \E x \in T : \A y \in T : x >= y
  BY <1>5
<1>7. Max(T) \in T /\ \A y \in T : Max(T) >= y
  BY <1>6 DEF Max
<1>8. QED BY <1>a, <1>7

(* Stripping a name cuts it after its last piece that is no slash.          *)
LEMMA StrippedCuts ==
  ASSUME NEW p \in Name
  PROVE  \E n \in 0..Len(p) :
           /\ Stripped(p) = SubSeq(p, 1, n)
           /\ n > 0 => p[n] # "/"
           /\ \A i \in (n + 1)..Len(p) : p[i] = "/"
<1> DEFINE I == {i \in 1..Len(p) : p[i] # "/"}
           n == IF I # {} THEN Max(I) ELSE 0
<1>1. Stripped(p) = SubSeq(p, 1, n)
  BY DEF Stripped, SelectLastInSeq
<1>2. Len(p) \in Nat
  BY DEF Name
<1>3. CASE I = {}
  <2>1. n = 0 /\ \A i \in 1..Len(p) : p[i] = "/"
    BY <1>3
  <2>2. QED BY <1>1, <1>2, <2>1
<1>4. CASE I # {}
  <2>1. Max(I) \in I /\ \A k \in I : k <= Max(I)
    BY <1>2, <1>4, LastPosition
  <2>2. n = Max(I)
    BY <1>4
  <2>3. n \in 1..Len(p) /\ p[n] # "/"
    BY <2>1, <2>2
  <2>4. ASSUME NEW i \in (n + 1)..Len(p), p[i] # "/" PROVE FALSE
    <3>1. i \in I
      BY <1>2, <2>3, <2>4
    <3>2. i <= n
      BY <2>1, <2>2, <3>1
    <3>3. QED BY <1>2, <2>3, <2>4, <3>2
  <2>5. n \in 0..Len(p) /\ \A i \in (n + 1)..Len(p) : p[i] = "/"
    BY <1>2, <2>3, <2>4
  <2> HIDE DEF n
  <2>6. QED BY <1>1, <2>3, <2>5
<1>5. QED BY <1>3, <1>4

(* The first pieces of a name make a name.                                  *)
LEMMA CutName ==
  ASSUME NEW p \in Name, NEW n \in 0..Len(p)
  PROVE  /\ SubSeq(p, 1, n) \in Name /\ Len(SubSeq(p, 1, n)) = n
         /\ \A i \in 1..n : SubSeq(p, 1, n)[i] = p[i]
  BY DEF Name

(* A name without its last separators is a name.                            *)
LEMMA StrippedIsName == ASSUME NEW p \in Name PROVE Stripped(p) \in Name
  BY StrippedCuts, CutName

(* A run's own name does not end in a slash.                                *)
LEMMA RunNamed ==
  ASSUME NEW c \in Client
  PROVE  /\ UriOf[c] \in Name /\ Run(c) \in Name
         /\ Len(Run(c)) \in Nat \ {0} /\ Run(c)[Len(Run(c))] # "/"
<1>1. UriOf[c] \in Name /\ Run(c) # <<>>
  BY ConstantsAssumption DEF Name
<1>2. Run(c) \in Name
  BY <1>1, StrippedIsName DEF Run
<1>3. Len(Run(c)) \in Nat \ {0}
  BY <1>1, <1>2 DEF Name
<1>4. PICK n \in 0..Len(UriOf[c]) :
        Run(c) = SubSeq(UriOf[c], 1, n) /\ (n > 0 => UriOf[c][n] # "/")
  BY <1>1, StrippedCuts DEF Run
<1>5. Len(Run(c)) = n /\ \A i \in 1..n : Run(c)[i] = UriOf[c][i]
  BY <1>1, <1>4, CutName
<1>6. QED BY <1>1, <1>2, <1>3, <1>4, <1>5

(* Where a call writes and reads is a name.                                 *)
LEMMA NamesTyped ==
  ASSUME TypeOK, NEW c \in Client
  PROVE  /\ Run(c) \in Name /\ path[c] \in Name /\ Folder(c) \in Name
         /\ Dest(c) \in Name /\ Target(c) \in Name /\ Location(c) \in Name
<1>1. Run(c) \in Name /\ UriOf[c] \in Name /\ path[c] \in Name
  <2>1. path[c] \in PathsOf[c] \cup {<<>>}
    BY DEF TypeOK
  <2>2. <<>> \in Seq(STRING)
    OBVIOUS
  <2>3. QED BY <2>1, <2>2, RunNamed, ConstantsAssumption DEF Name
<1>2. Folder(c) \in Name
  BY <1>1, SlashIsName, PrefixOfConcat DEF Folder
<1>3. Stripped(path[c]) \o Slash \in Name
  BY <1>1, StrippedIsName, SlashIsName, PrefixOfConcat
<1>4. <<>> \in Name
  BY DEF Name
<1>5. Dest(c) \in Name
  <2> DEFINE tail == IF path[c] = <<>> THEN <<>> ELSE Stripped(path[c]) \o Slash
  <2>1. tail \in Name
    BY <1>3, <1>4
  <2>2. (Run(c) \o Slash) \o tail \in Name
    BY <1>2, <2>1, PrefixOfConcat DEF Folder
  <2>3. QED BY <2>2 DEF Dest
<1>6. Target(c) \in Name
  <2>1. path[c] # <<>> => Tail(path[c]) \in Name
    BY <1>1, HeadTailProperties DEF Name
  <2>2. (Run(c) \o Slash) \o path[c] \in Name
    BY <1>1, <1>2, PrefixOfConcat DEF Folder
  <2>3. QED BY <1>1, <2>1, <2>2 DEF Target, Joined
<1>7. QED BY <1>1, <1>2, <1>5, <1>6, StrippedIsName DEF Location

(* A file is uploaded below the folder of the client's own run.             *)
LEMMA ObjectNameInFolder ==
  ASSUME TypeOK, NEW c \in Client, NEW f \in TreeOf[c]
  PROVE  ObjectName(c, f) \in Name /\ IsPrefix(Folder(c), ObjectName(c, f))
<1>1. f.dir \in Name /\ f.name \in Name
  BY ConstantsAssumption DEF Name
<1>2. path[c] \in Name /\ Folder(c) \in Name /\ Dest(c) \in Name
  BY NamesTyped
<1>3. IsPrefix(Folder(c), Dest(c))
  <2> DEFINE tail == IF path[c] = <<>> THEN <<>> ELSE Stripped(path[c]) \o Slash
  <2>1. <<>> \in Name
    BY DEF Name
  <2>2. tail \in Name
    BY <1>2, <2>1, StrippedIsName, SlashIsName, PrefixOfConcat
  <2>3. IsPrefix(Folder(c), (Run(c) \o Slash) \o tail)
    BY <1>2, <2>2, PrefixOfConcat DEF Folder
  <2>4. QED BY <2>3 DEF Dest
<1>4. Dest(c) \o f.dir \in Name /\ IsPrefix(Dest(c), Dest(c) \o f.dir)
  BY <1>1, <1>2, PrefixOfConcat
<1>5. /\ (Dest(c) \o f.dir) \o f.name \in Name
      /\ IsPrefix(Dest(c) \o f.dir, (Dest(c) \o f.dir) \o f.name)
  BY <1>1, <1>4, PrefixOfConcat
<1>6. IsPrefix(Folder(c), Dest(c) \o f.dir)
  BY <1>2, <1>3, <1>4, PrefixTransitive
<1>7. IsPrefix(Folder(c), (Dest(c) \o f.dir) \o f.name)
  BY <1>2, <1>4, <1>5, <1>6, PrefixTransitive
<1>8. QED BY <1>5, <1>7 DEF ObjectName

(* What a call is given by a path that is not absolute is the run itself or *)
(* below its folder.                                                        *)
LEMMA LocationInFolder ==
  ASSUME TypeOK, NEW c \in Client, ~Absolute(path[c])
  PROVE  Location(c) = Run(c) \/ IsPrefix(Folder(c), Location(c))
<1>1. /\ path[c] \in Name /\ Folder(c) \in Name /\ Target(c) \in Name
      /\ Location(c) \in Name /\ Run(c) \in Name
      /\ Len(Run(c)) \in Nat \ {0} /\ Run(c)[Len(Run(c))] # "/"
  BY NamesTyped, RunNamed
<1>2. CASE path[c] = <<>>
  BY <1>2 DEF Location, Target, Joined, Run
<1>3. CASE path[c] # <<>>
  <2>1. Target(c) = Folder(c) \o path[c]
    BY <1>3 DEF Target, Joined, Folder
  <2>2. PICK n \in 0..Len(Target(c)) :
          /\ Location(c) = SubSeq(Target(c), 1, n)
          /\ \A i \in (n + 1)..Len(Target(c)) : Target(c)[i] = "/"
    BY <1>1, StrippedCuts DEF Location
  <2>3. Len(Location(c)) = n /\ \A i \in 1..n : Location(c)[i] = Target(c)[i]
    BY <1>1, <2>2, CutName
  <2>4. IsPrefix(Run(c), Folder(c)) /\ IsPrefix(Folder(c), Target(c))
    BY <1>1, <2>1, SlashIsName, PrefixOfConcat DEF Folder
  <2>5. /\ Len(Folder(c)) = Len(Run(c)) + 1
        /\ Len(Folder(c)) <= Len(Target(c)) /\ Len(Target(c)) \in Nat
        /\ \A i \in 1..Len(Folder(c)) : Folder(c)[i] = Target(c)[i]
    <3>1. Len(Folder(c)) = Len(Run(c)) + 1
      BY <1>1 DEF Folder, Slash, Name
    <3>2. QED BY <1>1, <2>4, <3>1, PrefixByPieces DEF Name
  <2>6. \A i \in 1..Len(Run(c)) : Run(c)[i] = Target(c)[i]
    <3>1. IsPrefix(Run(c), Target(c))
      BY <1>1, <2>4, PrefixTransitive
    <3>2. QED BY <1>1, <3>1, PrefixByPieces
  <2>7. n >= Len(Run(c))
    <3>1. ~(Len(Run(c)) \in (n + 1)..Len(Target(c)))
      BY <1>1, <2>2, <2>6
    <3>2. QED BY <1>1, <2>5, <3>1
  <2>8. CASE n = Len(Run(c))
    <3>1. Len(Location(c)) = Len(Run(c))
      BY <2>3, <2>8
    <3>2. \A i \in 1..Len(Run(c)) : Location(c)[i] = Run(c)[i]
      BY <2>3, <2>6, <2>8
    <3>3. Location(c) = Run(c)
      BY <1>1, <3>1, <3>2, SeqEqual DEF Name
    <3>4. QED BY <3>3
  <2>9. CASE n > Len(Run(c))
    <3>1. Len(Folder(c)) <= Len(Location(c))
      BY <1>1, <2>3, <2>5, <2>9
    <3>2. \A i \in 1..Len(Folder(c)) : Folder(c)[i] = Location(c)[i]
      BY <1>1, <2>3, <2>5, <2>9
    <3>3. QED BY <1>1, <3>1, <3>2, PrefixByPieces
  <2>10. QED BY <1>1, <2>7, <2>8, <2>9
<1>4. QED BY <1>2, <1>3

(* What is right below a name begins with it.                               *)
LEMMA ChildrenBelow ==
  ASSUME DOMAIN store \subseteq Name, NEW p \in Name, NEW q \in Children(p)
  PROVE  /\ q \in Name /\ IsPrefix(p \o Slash, q)
         /\ \E k \in DOMAIN store : IsPrefix(q, k)
<1>1. PICK k \in DOMAIN store : q \in Prefixes(k)
  BY DEF Children
<1>2. PICK l \in 0..Len(k) : q = SubSeq(k, 1, l)
  BY <1>1 DEF Prefixes
<1>3. k \in Name
  OBVIOUS
<1>4. q \in Name /\ Len(q) = l /\ \A i \in 1..l : q[i] = k[i]
  BY <1>2, <1>3 DEF Name
<1>5. Len(q) <= Len(k)
  BY <1>2, <1>3, <1>4 DEF Name
<1>6. IsPrefix(q, k)
  BY <1>3, <1>4, <1>5, PrefixByPieces
<1>7. QED BY <1>4, <1>6 DEF Children, IsStrictPrefix

-----------------------------------------------------------------------------
(***************************************************************************)
(* Type correctness.                                                       *)
(***************************************************************************)
TodoTyped(c) ==
  /\ pc[c] = "upload" => todo[c] \subseteq TreeOf[c]
  /\ pc[c] \in {"inspect", "remove"} => \A q \in todo[c] : q \in Seq(STRING)
  /\ pc[c] \notin {"upload", "inspect", "remove"} => todo[c] = {}
  /\ \A e \in result[c] : e.name \in Seq(STRING) /\ e.is_dir \in BOOLEAN

Controls ==
  /\ pc \in [Client -> Ended \cup Op \cup {"idle", "upload", "inspect", "remove"}]
  /\ op \in [Client -> Op \cup {None}]
  /\ path = [c \in Client |-> path[c]]
  /\ \A c \in Client : path[c] \in PathsOf[c] \cup {<<>>}
  /\ todo = [c \in Client |-> todo[c]]
  /\ result = [c \in Client |-> result[c]]

StoreTyped ==
  /\ DOMAIN store \subseteq Seq(STRING)
  /\ \A k \in DOMAIN store : store[k] \in Object

(* The type invariant, split into controls, work to do and the bucket.      *)
LEMMA TypeParts ==
  TypeOK <=> Controls /\ (\A c \in Client : TodoTyped(c)) /\ StoreTyped
  BY DEF TypeOK, Controls, TodoTyped, StoreTyped

(* Names in the bucket are names, and what a call has to do is files to     *)
(* upload or names to look at.                                              *)
THEOREM TypeCorrect == Spec => []TypeOK
<1>1. Init => TypeOK
  <2> SUFFICES ASSUME Init PROVE TypeOK
    OBVIOUS
  <2>1. Controls
    BY DEF Init, Controls
  <2>2. \A c \in Client : TodoTyped(c)
    BY DEF Init, TodoTyped
  <2>3. DOMAIN store = {}
    BY DEF Init
  <2>4. QED BY <2>1, <2>2, <2>3, TypeParts DEF StoreTyped
<1>2. TypeOK /\ [Next]_vars => TypeOK'
  <2> SUFFICES ASSUME TypeOK, [Next]_vars PROVE TypeOK'
    OBVIOUS
  <2>0. Controls /\ (\A c \in Client : TodoTyped(c)) /\ StoreTyped
    BY TypeParts
  <2>a. TypeOK' <=> Controls' /\ (\A c \in Client : TodoTyped(c)') /\ StoreTyped'
    BY DEF TypeOK, Controls, TodoTyped, StoreTyped
  <2>1. ASSUME NEW c \in Client, NEW o \in OpsOf[c], Call(c, o) PROVE TypeOK'
    <3>1. o \in Op
      BY ConstantsAssumption
    <3>2. Controls'
      BY <2>0, <2>1, <3>1 DEF Call, Controls
    <3>3. StoreTyped'
      BY <2>0, <2>1 DEF Call, StoreTyped
    <3>4. ASSUME NEW a \in Client PROVE TodoTyped(a)'
      <4>1. pc[c] \notin {"upload", "inspect", "remove"}
        BY <2>1 DEF Call, Ended
      <4>2. pc'[c] \notin {"upload", "inspect", "remove"}
        BY <2>0, <2>1, <3>1 DEF Call, Controls, Op
      <4>3. todo' = todo /\ result'[c] = {}
        BY <2>0, <2>1 DEF Call, Controls
      <4>4. a # c => pc'[a] = pc[a] /\ result'[a] = result[a]
        BY <2>0, <2>1 DEF Call, Controls
      <4>5. TodoTyped(a)
        BY <2>0
      <4>6. QED BY <4>1, <4>2, <4>3, <4>4, <4>5 DEF TodoTyped
    <3>5. QED BY <2>a, <3>2, <3>3, <3>4
  <2>2. ASSUME NEW c \in Client, RejectBlankPath(c) PROVE TypeOK'
    <3>1. Controls'
      BY <2>0, <2>2 DEF RejectBlankPath, Controls, Ended, Op, Goto, Fail
    <3>2. StoreTyped'
      BY <2>0, <2>2 DEF RejectBlankPath, StoreTyped, Fail
    <3>3. ASSUME NEW a \in Client PROVE TodoTyped(a)'
      <4>1. a # c => /\ pc'[a] = pc[a] /\ todo'[a] = todo[a]
                     /\ result'[a] = result[a]
        BY <2>0, <2>2 DEF RejectBlankPath, Controls, Goto, Fail
      <4>2. TodoTyped(a) /\ TodoTyped(c)
        BY <2>0
      <4>3. pc'[c] = "raised" /\ todo'[c] = {} /\ result'[c] = {}
        BY <2>0, <2>2 DEF RejectBlankPath, Fail, Controls
      <4>4. QED BY <4>1, <4>2, <4>3 DEF TodoTyped
    <3>4. QED BY <2>a, <3>1, <3>2, <3>3
  <2>3. ASSUME NEW c \in Client, WalkTree(c) PROVE TypeOK'
    <3>1. Controls'
      BY <2>0, <2>3 DEF WalkTree, Controls, Ended, Op, Goto
    <3>2. StoreTyped'
      BY <2>0, <2>3 DEF WalkTree, StoreTyped
    <3>3. ASSUME NEW a \in Client PROVE TodoTyped(a)'
      <4>1. a # c => /\ pc'[a] = pc[a] /\ todo'[a] = todo[a]
                     /\ result'[a] = result[a]
        BY <2>0, <2>3 DEF WalkTree, Controls, Goto
      <4>2. TodoTyped(a) /\ TodoTyped(c)
        BY <2>0
      <4>3. pc'[c] = "upload" /\ todo'[c] = TreeOf[c] /\ result'[c] = result[c]
        BY <2>0, <2>3 DEF WalkTree, Goto, Controls
      <4>4. QED BY <4>1, <4>2, <4>3 DEF TodoTyped
    <3>4. QED BY <2>a, <3>1, <3>2, <3>3
  <2>4. ASSUME NEW c \in Client, Upload(c) PROVE TypeOK'
    <3>1. Controls'
      BY <2>0, <2>4 DEF Upload, Controls, Ended, Op, Goto
    <3>2. StoreTyped'
      <4>1. PICK f \in todo[c] :
              store' = [k \in DOMAIN store \cup {ObjectName(c, f)} |->
                          IF k = ObjectName(c, f) THEN [by |-> c, file |-> f]
                          ELSE store[k]]
        BY <2>4 DEF Upload
      <4>2. f \in TreeOf[c]
        BY <2>0, <2>4 DEF Upload, TodoTyped
      <4>3. ObjectName(c, f) \in Seq(STRING)
        BY <4>2, ObjectNameInFolder DEF Name
      <4>4. [by |-> c, file |-> f] \in Object
        BY <4>2 DEF Object
      <4>5. QED BY <2>0, <4>1, <4>3, <4>4 DEF StoreTyped
    <3>3. ASSUME NEW a \in Client PROVE TodoTyped(a)'
      <4>1. a # c => /\ pc'[a] = pc[a] /\ todo'[a] = todo[a]
                     /\ result'[a] = result[a]
        BY <2>0, <2>4 DEF Upload, Controls, Goto
      <4>2. TodoTyped(a) /\ TodoTyped(c)
        BY <2>0
      <4>3. /\ pc[c] = "upload" /\ pc' = pc /\ result' = result
            /\ todo'[c] \subseteq todo[c]
        BY <2>0, <2>4 DEF Upload, Controls
      <4>4. QED BY <4>1, <4>2, <4>3 DEF TodoTyped
    <3>4. QED BY <2>a, <3>1, <3>2, <3>3
  <2>5. ASSUME NEW c \in Client, Glob(c) PROVE TypeOK'
    <3>1. Controls'
      BY <2>0, <2>5 DEF Glob, Controls, Ended, Op, Goto
    <3>2. StoreTyped'
      BY <2>0, <2>5 DEF Glob, StoreTyped
    <3>3. ASSUME NEW a \in Client PROVE TodoTyped(a)'
      <4>1. a # c => /\ pc'[a] = pc[a] /\ todo'[a] = todo[a]
                     /\ result'[a] = result[a]
        BY <2>0, <2>5 DEF Glob, Controls, Goto
      <4>2. TodoTyped(a) /\ TodoTyped(c)
        BY <2>0
      <4>3. /\ pc'[c] = "inspect" /\ result'[c] = result[c]
            /\ \/ todo'[c] = Children(Target(c))
               \/ todo'[c] = Children(Location(c))
        BY <2>0, <2>5 DEF Glob, Goto, Controls, Target, Location
      <4>4. \A q \in Children(Target(c)) \cup Children(Location(c)) : q \in Seq(STRING)
        BY <2>0, NamesTyped, ChildrenBelow DEF StoreTyped, Name
      <4>5. QED BY <4>1, <4>2, <4>3, <4>4 DEF TodoTyped
    <3>4. QED BY <2>a, <3>1, <3>2, <3>3
  <2>6. ASSUME NEW c \in Client, Inspect(c) PROVE TypeOK'
    <3>1. Controls'
      BY <2>0, <2>6 DEF Inspect, Controls, Ended, Op, Goto
    <3>2. StoreTyped'
      BY <2>0, <2>6 DEF Inspect, StoreTyped
    <3>3. ASSUME NEW a \in Client PROVE TodoTyped(a)'
      <4>1. a # c => /\ pc'[a] = pc[a] /\ todo'[a] = todo[a]
                     /\ result'[a] = result[a]
        BY <2>0, <2>6 DEF Inspect, Controls, Goto
      <4>2. TodoTyped(a) /\ TodoTyped(c)
        BY <2>0
      <4>3. PICK q \in todo[c] :
              /\ todo'[c] = todo[c] \ {q}
              /\ result'[c] = result[c] \cup {[name |-> q, is_dir |-> IsDir(q)]}
        BY <2>0, <2>6 DEF Inspect, Controls
      <4>4. pc[c] = "inspect" /\ pc' = pc
        BY <2>6 DEF Inspect
      <4>5. q \in Seq(STRING) /\ IsDir(q) \in BOOLEAN
        BY <4>2, <4>3, <4>4 DEF TodoTyped, IsDir
      <4>6. QED BY <4>1, <4>2, <4>3, <4>4, <4>5 DEF TodoTyped
    <3>4. QED BY <2>a, <3>1, <3>2, <3>3
  <2>7. ASSUME NEW c \in Client, Ls(c) PROVE TypeOK'
    <3>1. Controls'
      BY <2>0, <2>7 DEF Ls, Controls, Ended, Op, Goto
    <3>2. StoreTyped'
      BY <2>0, <2>7 DEF Ls, StoreTyped
    <3>3. ASSUME NEW a \in Client PROVE TodoTyped(a)'
      <4>1. a # c => /\ pc'[a] = pc[a] /\ todo'[a] = todo[a]
                     /\ result'[a] = result[a]
        BY <2>0, <2>7 DEF Ls, Controls, Goto
      <4>2. TodoTyped(a) /\ TodoTyped(c)
        BY <2>0
      <4>3. /\ pc'[c] = "remove" /\ result'[c] = result[c]
            /\ todo'[c] \subseteq Children(Location(c)) \cup {Location(c)}
        BY <2>0, <2>7 DEF Ls, Goto, Controls, Location, Target
      <4>4. Location(c) \in Seq(STRING)
        BY NamesTyped DEF Name
      <4>5. \A q \in Children(Location(c)) : q \in Seq(STRING)
        BY <2>0, NamesTyped, ChildrenBelow DEF StoreTyped, Name
      <4>6. QED BY <4>1, <4>2, <4>3, <4>4, <4>5 DEF TodoTyped
    <3>4. QED BY <2>a, <3>1, <3>2, <3>3
  <2>8. ASSUME NEW c \in Client, DeleteEntry(c) PROVE TypeOK'
    <3>1. Controls'
      BY <2>0, <2>8 DEF DeleteEntry, Controls, Ended, Op, Goto
    <3>2. StoreTyped'
      <4>1. PICK gone : store' = [k \in DOMAIN store \ gone |-> store[k]]
        BY <2>8 DEF DeleteEntry
      <4>2. QED BY <2>0, <4>1 DEF StoreTyped
    <3>3. ASSUME NEW a \in Client PROVE TodoTyped(a)'
      <4>1. a # c => /\ pc'[a] = pc[a] /\ todo'[a] = todo[a]
                     /\ result'[a] = result[a]
        BY <2>0, <2>8 DEF DeleteEntry, Controls, Goto
      <4>2. TodoTyped(a) /\ TodoTyped(c)
        BY <2>0
      <4>3. /\ pc[c] = "remove" /\ pc' = pc /\ result' = result
            /\ todo'[c] \subseteq todo[c]
        BY <2>0, <2>8 DEF DeleteEntry, Controls
      <4>4. QED BY <4>1, <4>2, <4>3 DEF TodoTyped
    <3>4. QED BY <2>a, <3>1, <3>2, <3>3
  <2>9. ASSUME NEW c \in Client, EndCall(c) PROVE TypeOK'
    <3>1. Controls'
      BY <2>0, <2>9 DEF EndCall, Controls, Ended, Op, Goto
    <3>2. StoreTyped'
      BY <2>0, <2>9 DEF EndCall, StoreTyped
    <3>3. ASSUME NEW a \in Client PROVE TodoTyped(a)'
      <4>1. a # c => /\ pc'[a] = pc[a] /\ todo'[a] = todo[a]
                     /\ result'[a] = result[a]
        BY <2>0, <2>9 DEF EndCall, Controls, Goto
      <4>2. TodoTyped(a) /\ TodoTyped(c)
        BY <2>0
      <4>3. todo[c] = {} /\ pc'[c] = "returned" /\ UNCHANGED <<todo, result>>
        BY <2>0, <2>9 DEF EndCall, Controls
      <4>4. QED BY <4>1, <4>2, <4>3 DEF TodoTyped
    <3>4. QED BY <2>a, <3>1, <3>2, <3>3
  <2>10. ASSUME NEW c \in Client, Raise(c) PROVE TypeOK'
    <3>1. Controls'
      BY <2>0, <2>10 DEF Raise, Controls, Ended, Op, Goto, Fail
    <3>2. StoreTyped'
      BY <2>0, <2>10 DEF Raise, StoreTyped, Fail
    <3>3. ASSUME NEW a \in Client PROVE TodoTyped(a)'
      <4>1. a # c => /\ pc'[a] = pc[a] /\ todo'[a] = todo[a]
                     /\ result'[a] = result[a]
        BY <2>0, <2>10 DEF Raise, Controls, Goto, Fail
      <4>2. TodoTyped(a) /\ TodoTyped(c)
        BY <2>0
      <4>3. pc'[c] = "raised" /\ todo'[c] = {} /\ result'[c] = {}
        BY <2>0, <2>10 DEF Raise, Fail, Controls
      <4>4. QED BY <4>1, <4>2, <4>3 DEF TodoTyped
    <3>4. QED BY <2>a, <3>1, <3>2, <3>3
  <2>11. CASE UNCHANGED vars
    BY <2>0, <2>11, <2>a DEF vars, Controls, TodoTyped, StoreTyped
  <2>12. QED
    BY <2>1, <2>2, <2>3, <2>4, <2>5, <2>6, <2>7, <2>8, <2>9, <2>10, <2>11
    DEF Next, Step
<1>3. QED
  BY <1>1, <1>2, PTL DEF Spec

-----------------------------------------------------------------------------
(***************************************************************************)
(* Every object is below the folder of the run it was logged to.           *)
(***************************************************************************)
FolderInv == \A k \in DOMAIN store : IsPrefix(Folder(store[k].by), k)

(* An object is put below the folder of the run of the client that logs it. *)
LEMMA FolderInvHolds == Spec => []FolderInv
<1>1. Init => FolderInv
  BY DEF Init, FolderInv
<1>2. TypeOK /\ FolderInv /\ [Next]_vars => FolderInv'
  <2> SUFFICES ASSUME TypeOK, FolderInv, [Next]_vars PROVE FolderInv'
    OBVIOUS
  <2> USE DEF FolderInv, Folder
  <2>1. ASSUME NEW c \in Client, Upload(c) PROVE FolderInv'
    <3>1. PICK f \in todo[c] :
            store' = [k \in DOMAIN store \cup {ObjectName(c, f)} |->
                        IF k = ObjectName(c, f) THEN [by |-> c, file |-> f]
                        ELSE store[k]]
      BY <2>1 DEF Upload
    <3>2. f \in TreeOf[c]
      BY <2>1 DEF Upload, TypeOK
    <3>3. IsPrefix(Run(c) \o Slash, ObjectName(c, f))
      BY <3>2, ObjectNameInFolder
    <3>4. QED BY <3>1, <3>3
  <2>2. ASSUME NEW c \in Client, DeleteEntry(c) PROVE FolderInv'
    <3>1. PICK gone : store' = [k \in DOMAIN store \ gone |-> store[k]]
      BY <2>2 DEF DeleteEntry
    <3>2. QED BY <3>1
  <2>3. CASE UNCHANGED store
    BY <2>3
  <2>4. QED
    BY <2>1, <2>2, <2>3
    DEF Next, Step, vars, Call, RejectBlankPath, WalkTree, Glob, Inspect, Ls,
        EndCall, Raise, Fail
<1>3. QED
  BY <1>1, <1>2, TypeCorrect, PTL DEF Spec

(* Two runs have no name in common.                                         *)
LEMMA FoldersApart ==
  ASSUME NEW c \in Client, NEW o \in Client, Run(c) # Run(o),
         NEW k \in Name, IsPrefix(Folder(c), k)
  PROVE  ~IsPrefix(Folder(o), k) /\ k # Run(o)
<1>1. /\ Run(c) \in Name /\ Run(o) \in Name
      /\ Folder(c) \in Name /\ Folder(o) \in Name
  BY RunNamed, SlashIsName, PrefixOfConcat DEF Folder
<1>2. ~IsPrefix(Folder(c), Folder(o)) /\ ~IsPrefix(Folder(o), Folder(c))
  BY ConstantsAssumption DEF Folder, Meet
<1>3. ~IsPrefix(Folder(o), k)
  BY <1>1, <1>2, PrefixesCompare
<1>4. ASSUME k = Run(o) PROVE FALSE
  <2>1. IsPrefix(Run(o), Folder(o))
    BY <1>1, SlashIsName, PrefixOfConcat DEF Folder
  <2>2. IsPrefix(Folder(c), Folder(o))
    BY <1>1, <1>4, <2>1, PrefixTransitive
  <2>3. QED BY <1>2, <2>2
<1>5. QED BY <1>3, <1>4

(* What is below a run's URI was logged to that run, for any URIs of which  *)
(* none lies inside another (oci_object_storage.py:196, 218).               *)
THEOREM OwnRunOnlyHolds == Spec => []OwnRunOnly
<1>1. TypeOK /\ FolderInv => OwnRunOnly
  <2> SUFFICES ASSUME TypeOK, FolderInv, NEW c \in Client, NEW k \in DOMAIN store,
                      IsPrefix(Run(c) \o Slash, k)
               PROVE  Run(store[k].by) = Run(c)
    BY DEF OwnRunOnly
  <2>1. k \in Name /\ store[k].by \in Client
    BY DEF TypeOK, Object, Name
  <2>2. IsPrefix(Folder(store[k].by), k) /\ IsPrefix(Folder(c), k)
    BY DEF FolderInv, Folder
  <2>3. QED BY <2>1, <2>2, FoldersApart
<1>2. QED
  BY <1>1, TypeCorrect, FolderInvHolds, PTL

-----------------------------------------------------------------------------
(***************************************************************************)
(* A deletion stays at its location.                                       *)
(***************************************************************************)
At(p, k) == k = p \/ IsPrefix(p \o Slash, k)

RemoveInv ==
  \A c \in Client :
    pc[c] = "remove" => \A q \in todo[c] : q \in Name /\ At(Location(c), q)

(* What is below something below a name is below that name.                 *)
LEMMA AtTransitive ==
  ASSUME NEW p \in Name, NEW q \in Name, NEW k \in Name, At(p, q), At(q, k)
  PROVE  At(p, k)
<1>1. p \o Slash \in Name /\ q \o Slash \in Name /\ IsPrefix(q, q \o Slash)
  BY SlashIsName, PrefixOfConcat
<1>2. CASE IsPrefix(p \o Slash, q) /\ IsPrefix(q \o Slash, k)
  BY <1>1, <1>2, PrefixTransitive DEF At
<1>3. QED BY <1>2 DEF At

(* What a deletion is about to remove is at its location.                   *)
LEMMA RemoveInvHolds == Spec => []RemoveInv
<1>1. Init => RemoveInv
  BY DEF Init, RemoveInv
<1>2. TypeOK /\ RemoveInv /\ [Next]_vars => RemoveInv'
  <2> SUFFICES ASSUME TypeOK, RemoveInv, [Next]_vars,
                      NEW a \in Client, pc'[a] = "remove", NEW q \in todo'[a]
               PROVE  q \in Name /\ At(Location(a)', q)
    BY DEF RemoveInv
  <2>0. Controls
    BY TypeParts
  <2>1. ASSUME Ls(a) PROVE q \in Name /\ At(Location(a)', q)
    <3>1. /\ todo'[a] = IF IsDir(Location(a)) THEN Children(Location(a))
                        ELSE {Location(a)}
          /\ path' = path
      BY <2>0, <2>1 DEF Ls, Controls, Location, Target
    <3>2. Location(a)' = Location(a)
      BY <3>1 DEF Location, Target, Joined
    <3>3. Location(a) \in Name
      BY NamesTyped
    <3>4. \A r \in Children(Location(a)) :
            r \in Name /\ IsPrefix(Location(a) \o Slash, r)
      BY <3>3, ChildrenBelow DEF TypeOK, Name
    <3>5. QED BY <3>1, <3>2, <3>3, <3>4 DEF At
  <2>2. ASSUME pc[a] = "remove", q \in todo[a], path'[a] = path[a]
        PROVE  q \in Name /\ At(Location(a)', q)
    <3>1. Location(a)' = Location(a)
      BY <2>2 DEF Location, Target, Joined
    <3>2. QED BY <2>2, <3>1 DEF RemoveInv
  <2>3. ASSUME NEW c \in Client, c # a, Step(c)
        PROVE  q \in Name /\ At(Location(a)', q)
    <3>1. pc'[a] = pc[a] /\ todo'[a] = todo[a] /\ path'[a] = path[a]
      BY <2>0, <2>3
      DEF Controls, Step, Goto, Call, RejectBlankPath, WalkTree, Upload, Glob,
          Inspect, Ls, DeleteEntry, EndCall, Raise, Fail
    <3>2. QED BY <2>2, <3>1
  <2>4. ASSUME Step(a), ~Ls(a) PROVE q \in Name /\ At(Location(a)', q)
    <3>1. DeleteEntry(a)
      BY <2>0, <2>4, ConstantsAssumption
      DEF Controls, Op, Step, Goto, Call, RejectBlankPath, WalkTree, Upload, Glob,
          Inspect, EndCall, Raise, Fail
    <3>2. pc[a] = "remove" /\ q \in todo[a] /\ path'[a] = path[a]
      BY <2>0, <3>1 DEF DeleteEntry, Controls
    <3>3. QED BY <2>2, <3>2
  <2>5. CASE UNCHANGED vars
    BY <2>2, <2>5 DEF vars
  <2>6. QED
    BY <2>1, <2>3, <2>4, <2>5 DEF Next
<1>3. QED
  BY <1>1, <1>2, TypeCorrect, PTL DEF Spec

(* What a deletion removes is at the location it was given.                 *)
LEMMA RemovedIsAtLocation ==
  ASSUME TypeOK, RemoveInv, NEW c \in Client, DeleteEntry(c),
         NEW k \in DOMAIN store, k \notin DOMAIN store'
  PROVE  At(Location(c), k)
<1>0. PICK q \in todo[c] : \E gone :
        /\ \/ gone = {q}
           \/ gone = {r \in DOMAIN store : IsPrefix(q \o Slash, r)}
        /\ store' = [r \in DOMAIN store \ gone |-> store[r]]
  BY DEF DeleteEntry
<1>1. PICK gone :
        /\ \/ gone = {q}
           \/ gone = {r \in DOMAIN store : IsPrefix(q \o Slash, r)}
        /\ store' = [r \in DOMAIN store \ gone |-> store[r]]
  BY <1>0
<1>2. k \in gone
  BY <1>1
<1>3. At(q, k)
  BY <1>1, <1>2 DEF At
<1>4. q \in Name /\ At(Location(c), q)
  BY DEF RemoveInv, DeleteEntry
<1>5. k \in Name /\ Location(c) \in Name
  BY NamesTyped DEF TypeOK, Name
<1>6. QED BY <1>3, <1>4, <1>5, AtTransitive

RemovesAtLocation ==
  \A c \in Client, k \in DOMAIN store :
    pc[c] = "remove" /\ todo'[c] # todo[c] /\ k \notin DOMAIN store'
      => LET p == Stripped(Joined(c, path[c])) IN k = p \/ IsPrefix(p \o Slash, k)

(* A deletion removes nothing but what is at or below the path it was given *)
(* (oci_object_storage.py:284-301).                                         *)
THEOREM DeletesAtLocationHolds == Spec => DeletesAtLocation
<1>1. TypeOK /\ RemoveInv /\ [Next]_vars => [RemovesAtLocation]_vars
  <2> SUFFICES ASSUME TypeOK, RemoveInv, Next,
                      NEW c \in Client, NEW k \in DOMAIN store,
                      pc[c] = "remove", todo'[c] # todo[c], k \notin DOMAIN store'
               PROVE  At(Location(c), k)
    BY DEF RemovesAtLocation, At, Location, Target
  <2>0. Controls
    BY TypeParts
  <2>1. PICK o \in Client : Step(o)
    BY DEF Next
  <2>2. o = c
    BY <2>0, <2>1
    DEF Controls, Step, Goto, Call, RejectBlankPath, WalkTree, Upload, Glob,
        Inspect, Ls, DeleteEntry, EndCall, Raise, Fail
  <2>3. DeleteEntry(c)
    BY <2>1, <2>2
    DEF Step, Goto, Call, RejectBlankPath, WalkTree, Upload, Glob,
        Inspect, Ls, EndCall, Raise, Fail
  <2>4. QED BY <2>3, RemovedIsAtLocation
<1>2. QED
  BY <1>1, TypeCorrect, RemoveInvHolds, PTL
  DEF Spec, DeletesAtLocation, RemovesAtLocation

-----------------------------------------------------------------------------
(***************************************************************************)
(* What a run's only client sees of its run is its own work.               *)
(***************************************************************************)
(* A step of one client leaves the calls of the others where they are.      *)
LEMMA OthersUntouched ==
  ASSUME TypeOK, NEW c \in Client, Step(c), NEW a \in Client, a # c
  PROVE  /\ pc'[a] = pc[a] /\ op'[a] = op[a] /\ path'[a] = path[a]
         /\ todo'[a] = todo[a] /\ result'[a] = result[a]
  BY TypeParts
  DEF Controls, Step, Goto, Call, RejectBlankPath, WalkTree, Upload, Glob,
      Inspect, Ls, DeleteEntry, EndCall, Raise, Fail

(* The store is the same below the folder of a run.                         *)
SameBelow(c) ==
  \A k \in Name : IsPrefix(Folder(c), k) =>
    /\ k \in DOMAIN store <=> k \in DOMAIN store'
    /\ k \in DOMAIN store => store'[k] = store[k]

(* A deletion removes nothing but from the runs its client reaches.         *)
LEMMA DeletionReaches ==
  ASSUME TypeOK, RemoveInv, NEW c \in Client, DeleteEntry(c),
         NEW k \in DOMAIN store, k \notin DOMAIN store',
         NEW a \in Client, IsPrefix(Folder(a), k)
  PROVE  Run(a) \in Reach(c)
<1>1. At(Location(c), k) /\ k \in Name
  BY RemovedIsAtLocation DEF TypeOK, Name
<1>2. /\ Location(c) \in Name /\ Run(c) \in Name /\ Folder(c) \in Name
      /\ Folder(a) \in Name /\ Location(c) \o Slash \in Name
      /\ IsPrefix(Location(c), Location(c) \o Slash)
  BY NamesTyped, SlashIsName, PrefixOfConcat
<1>3. CASE Absolute(path[c])
  <2>1. path[c] \in PathsOf[c] /\ Location(c) = Stripped(Tail(path[c]))
    BY <1>3 DEF TypeOK, Location, Target, Joined, Absolute
  <2>2. CASE k = Location(c)
    <3>1. IsPrefix(Folder(a), Location(c) \o Slash)
      BY <1>2, <2>2, PrefixTransitive
    <3>2. QED BY <1>3, <2>1, <3>1 DEF Reach, Meet, Folder
  <2>3. CASE IsPrefix(Location(c) \o Slash, k)
    <3>1. \/ IsPrefix(Location(c) \o Slash, Folder(a))
          \/ IsPrefix(Folder(a), Location(c) \o Slash)
      BY <1>1, <1>2, <2>3, PrefixesCompare
    <3>2. QED BY <1>3, <2>1, <3>1 DEF Reach, Meet, Folder
  <2>4. QED BY <1>1, <2>2, <2>3 DEF At
<1>4. CASE ~Absolute(path[c])
  <2>1. Location(c) = Run(c) \/ IsPrefix(Folder(c), Location(c))
    BY <1>4, LocationInFolder
  <2>2. k = Run(c) \/ IsPrefix(Folder(c), k)
    <3>1. CASE Location(c) = Run(c)
      BY <1>1, <3>1 DEF At, Folder
    <3>2. CASE IsPrefix(Folder(c), Location(c))
      <4>1. IsPrefix(Folder(c), Location(c) \o Slash)
        BY <1>2, <3>2, PrefixTransitive
      <4>2. QED BY <1>1, <1>2, <3>2, <4>1, PrefixTransitive DEF At
    <3>3. QED BY <2>1, <3>1, <3>2
  <2>3. Run(a) = Run(c)
    BY <1>1, <2>2, FoldersApart
  <2>4. QED BY <2>3 DEF Reach
<1>5. QED BY <1>3, <1>4

(* Nobody but its clients puts anything into a run, and nobody but those    *)
(* that reach it takes anything away.                                       *)
LEMMA OnlyOwnClientWrites ==
  ASSUME TypeOK, RemoveInv, NEW a \in Client, NEW c \in Client,
         Run(a) # Run(c), DeleteEntry(c) => Run(a) \notin Reach(c), Step(c)
  PROVE  SameBelow(a)
<1>1. Run(a) # Run(c)
  OBVIOUS
<1>2. CASE Upload(c)
  <2>1. PICK f \in todo[c] :
          store' = [k \in DOMAIN store \cup {ObjectName(c, f)} |->
                      IF k = ObjectName(c, f) THEN [by |-> c, file |-> f]
                      ELSE store[k]]
    BY <1>2 DEF Upload
  <2>2. f \in TreeOf[c]
    BY <1>2 DEF Upload, TypeOK
  <2>3. \A k \in Name : IsPrefix(Folder(a), k) => k # ObjectName(c, f)
    BY <1>1, <2>2, ObjectNameInFolder, FoldersApart
  <2>4. QED BY <2>1, <2>3 DEF SameBelow
<1>3. CASE DeleteEntry(c)
  <2>1. PICK gone : store' = [k \in DOMAIN store \ gone |-> store[k]]
    BY <1>3 DEF DeleteEntry
  <2>2. \A k \in DOMAIN store : IsPrefix(Folder(a), k) => k \in DOMAIN store'
    BY <1>3, DeletionReaches
  <2>3. QED BY <2>1, <2>2 DEF SameBelow
<1>4. CASE UNCHANGED store
  BY <1>4 DEF SameBelow
<1>5. QED
  BY <1>2, <1>3, <1>4
  DEF Step, Call, RejectBlankPath, WalkTree, Glob, Inspect, Ls, EndCall, Raise, Fail

(* Nobody else writes to the run of its only client.                        *)
LEMMA AloneInRun ==
  ASSUME TypeOK, RemoveInv, NEW a \in Client, Alone(a),
         NEW c \in Client, c # a, Step(c)
  PROVE  SameBelow(a)
<1>1. Run(a) \notin Reach(c)
  BY DEF Alone
<1>2. Run(a) # Run(c)
  BY <1>1 DEF Reach
<1>3. QED BY <1>1, <1>2, OnlyOwnClientWrites

(* Where a call is tells which operation it is.                             *)
CallOK(c) ==
  /\ pc[c] \in {"log", "upload"} => op[c] = "log"
  /\ pc[c] \in {"list", "inspect"} => op[c] = "list"
  /\ pc[c] \in {"delete", "remove"} => op[c] = "delete"
  /\ pc[c] = "list" => result[c] = {}

CallInv == \A c \in Client : CallOK(c)

(* A call stays in the steps of its operation.                              *)
LEMMA CallInvHolds == Spec => []CallInv
<1>1. Init => CallInv
  BY DEF Init, CallInv, CallOK
<1>2. TypeOK /\ CallInv /\ [Next]_vars => CallInv'
  <2> SUFFICES ASSUME TypeOK, CallInv, [Next]_vars, NEW a \in Client
               PROVE  CallOK(a)'
    BY DEF CallInv
  <2>0. Controls /\ CallOK(a)
    BY TypeParts DEF CallInv
  <2>1. ASSUME NEW o \in OpsOf[a], Call(a, o) PROVE CallOK(a)'
    <3>1. /\ o \in Op /\ pc'[a] = o /\ op'[a] = o /\ result'[a] = {}
      BY <2>0, <2>1, ConstantsAssumption DEF Call, Controls
    <3>2. QED BY <3>1 DEF CallOK, Op
  <2>2. CASE RejectBlankPath(a) \/ Raise(a)
    BY <2>0, <2>2 DEF RejectBlankPath, Raise, Fail, Controls, CallOK
  <2>3. CASE WalkTree(a) \/ Upload(a) \/ Glob(a) \/ Inspect(a) \/ Ls(a)
             \/ DeleteEntry(a) \/ EndCall(a)
    BY <2>0, <2>3
    DEF WalkTree, Upload, Glob, Inspect, Ls, DeleteEntry, EndCall, Goto,
        Controls, CallOK
  <2>4. ASSUME NEW c \in Client, c # a, Step(c) PROVE CallOK(a)'
    <3>1. pc'[a] = pc[a] /\ op'[a] = op[a] /\ result'[a] = result[a]
      BY <2>4, OthersUntouched
    <3>2. QED BY <2>0, <3>1 DEF CallOK
  <2>5. CASE UNCHANGED vars
    BY <2>0, <2>5 DEF vars, CallOK
  <2>6. QED
    BY <2>1, <2>2, <2>3, <2>4, <2>5 DEF Next, Step
<1>3. QED
  BY <1>1, <1>2, TypeCorrect, PTL DEF Spec

-----------------------------------------------------------------------------
(***************************************************************************)
(* Files at the top of a logged directory.                                 *)
(***************************************************************************)
Unmistakable(c, f) ==
  f.dir = <<>> /\ \A g \in TreeOf[c] \ {f} : g.dir \o g.name # f.name

AtTop(c, f) == Dest(c) \o f.name

LogOK(c) ==
  Alone(c) /\ (pc[c] = "upload" \/ (pc[c] = "returned" /\ op[c] = "log"))
    => \A f \in TreeOf[c] \ todo[c] :
         Unmistakable(c, f) => Logged(c, f, AtTop(c, f))

LogInv == \A c \in Client : LogOK(c)

(* No other file of a tree is uploaded under the name of an unmistakable one. *)
LEMMA UnmistakableName ==
  ASSUME TypeOK, NEW c \in Client, NEW f \in TreeOf[c], Unmistakable(c, f)
  PROVE  /\ ObjectName(c, f) = AtTop(c, f)
         /\ AtTop(c, f) \in Name /\ IsPrefix(Folder(c), AtTop(c, f))
         /\ \A g \in TreeOf[c] \ {f} : ObjectName(c, g) # AtTop(c, f)
<1>1. f.name \in Name /\ Dest(c) \in Name
  BY ConstantsAssumption, NamesTyped DEF Name
<1>2. ObjectName(c, f) = AtTop(c, f)
  <2>1. Dest(c) \o <<>> = Dest(c)
    BY <1>1, ConcatEmptySeq DEF Name
  <2>2. QED BY <2>1 DEF ObjectName, AtTop, Unmistakable
<1>3. ASSUME NEW g \in TreeOf[c] \ {f}, ObjectName(c, g) = AtTop(c, f) PROVE FALSE
  <2>1. g.dir \in Name /\ g.name \in Name
    BY ConstantsAssumption DEF Name
  <2>2. ObjectName(c, g) = Dest(c) \o (g.dir \o g.name)
    BY <1>1, <2>1, ConcatAssociates DEF ObjectName
  <2>3. g.dir \o g.name \in Name
    BY <2>1, PrefixOfConcat
  <2>4. g.dir \o g.name = f.name
    BY <1>1, <1>3, <2>2, <2>3, ConcatCancels DEF AtTop
  <2>5. QED BY <2>4 DEF Unmistakable
<1>4. QED BY <1>2, <1>3, ObjectNameInFolder

(* What an only client has uploaded so far stays under its own name.        *)
LEMMA LogInvHolds == Spec => []LogInv
<1>1. Init => LogInv
  BY DEF Init, LogInv, LogOK
<1>2. TypeOK /\ RemoveInv /\ CallInv /\ LogInv /\ [Next]_vars => LogInv'
  <2> SUFFICES ASSUME TypeOK, RemoveInv, CallInv, LogInv, [Next]_vars,
                      NEW a \in Client, Alone(a),
                      \/ pc'[a] = "upload"
                      \/ pc'[a] = "returned" /\ op'[a] = "log",
                      NEW f \in TreeOf[a] \ todo'[a], Unmistakable(a, f)
               PROVE  Logged(a, f, AtTop(a, f))'
    BY DEF LogInv, LogOK, Alone, Unmistakable
  <2>0. Controls /\ CallOK(a) /\ LogOK(a)
    BY TypeParts DEF CallInv, LogInv
  <2>1. ASSUME WalkTree(a) PROVE Logged(a, f, AtTop(a, f))'
    BY <2>0, <2>1 DEF WalkTree, Controls
  <2>2. ASSUME Upload(a) PROVE Logged(a, f, AtTop(a, f))'
    <3>1. PICK g \in todo[a] :
            /\ todo'[a] = todo[a] \ {g}
            /\ store' = [k \in DOMAIN store \cup {ObjectName(a, g)} |->
                           IF k = ObjectName(a, g) THEN [by |-> a, file |-> g]
                           ELSE store[k]]
      BY <2>0, <2>2 DEF Upload, Controls
    <3>2. AtTop(a, f)' = AtTop(a, f)
      BY <2>2 DEF Upload, AtTop, Dest
    <3>3. g \in TreeOf[a]
      BY <2>2 DEF Upload, TypeOK
    <3>4. CASE g = f
      <4>1. ObjectName(a, g) = AtTop(a, f)
        BY <3>4, UnmistakableName
      <4>2. QED BY <3>1, <3>2, <3>4, <4>1 DEF Logged
    <3>5. CASE g # f
      <4>1. Logged(a, f, AtTop(a, f))
        BY <2>0, <2>2, <3>1, <3>5 DEF LogOK, Upload
      <4>2. ObjectName(a, g) # AtTop(a, f)
        BY <3>3, <3>5, UnmistakableName
      <4>3. QED BY <3>1, <3>2, <4>1, <4>2 DEF Logged
    <3>6. QED BY <3>4, <3>5
  <2>3. ASSUME EndCall(a) PROVE Logged(a, f, AtTop(a, f))'
    <3>1. UNCHANGED <<op, path, todo, store>> /\ pc[a] \in {"upload", "inspect", "remove"}
      BY <2>3 DEF EndCall
    <3>2. op[a] = "log" => pc[a] = "upload"
      BY <2>0, <3>1 DEF CallOK
    <3>3. pc'[a] = "returned"
      BY <2>0, <2>3 DEF EndCall, Controls
    <3>4. pc[a] = "upload"
      BY <3>1, <3>2, <3>3
    <3>5. Logged(a, f, AtTop(a, f))
      BY <2>0, <3>1, <3>4 DEF LogOK
    <3>6. QED BY <3>1, <3>5 DEF Logged, AtTop, Dest
  <2>4. ASSUME NEW c \in Client, c # a, Step(c)
        PROVE  Logged(a, f, AtTop(a, f))'
    <3>1. /\ pc'[a] = pc[a] /\ op'[a] = op[a] /\ path'[a] = path[a]
          /\ todo'[a] = todo[a]
      BY <2>4, OthersUntouched
    <3>2. AtTop(a, f)' = AtTop(a, f)
      BY <3>1 DEF AtTop, Dest
    <3>3. Logged(a, f, AtTop(a, f))
      BY <2>0, <3>1 DEF LogOK
    <3>4. SameBelow(a)
      BY <2>4, AloneInRun
    <3>5. AtTop(a, f) \in Name /\ IsPrefix(Folder(a), AtTop(a, f))
      BY UnmistakableName
    <3>6. QED BY <3>2, <3>3, <3>4, <3>5 DEF Logged, SameBelow
  <2>5. CASE UNCHANGED vars
    <3>1. Logged(a, f, AtTop(a, f))
      BY <2>0, <2>5 DEF vars, LogOK
    <3>2. QED BY <2>5, <3>1 DEF vars, Logged, AtTop, Dest
  <2>6. ASSUME Step(a), ~WalkTree(a), ~Upload(a), ~EndCall(a) PROVE FALSE
    <3>1. ASSUME NEW o \in OpsOf[a], Call(a, o) PROVE FALSE
      <4>1. pc' = [pc EXCEPT ![a] = o]
        BY <3>1 DEF Call
      <4>2. o \in {"log", "list", "delete"}
        BY ConstantsAssumption DEF Op
      <4>3. QED BY <2>0, <4>1, <4>2 DEF Controls
    <3>2. ~RejectBlankPath(a) /\ ~Raise(a)
      BY <2>0 DEF RejectBlankPath, Raise, Fail, Controls
    <3>3. ~Glob(a) /\ ~Ls(a)
      BY <2>0 DEF Glob, Ls, Goto, Controls
    <3>4. ~Inspect(a) /\ ~DeleteEntry(a)
      BY <2>0 DEF Inspect, DeleteEntry, CallOK, Controls
    <3>5. QED BY <2>6, <3>1, <3>2, <3>3, <3>4 DEF Step
  <2>7. QED
    BY <2>1, <2>2, <2>3, <2>4, <2>5, <2>6 DEF Next
<1>3. QED
  BY <1>1, <1>2, TypeCorrect, RemoveInvHolds, CallInvHolds, PTL DEF Spec

(* When log_artifacts of a run's only client returns, the files at the top  *)
(* of the directory are under their own names with their own content        *)
(* (oci_object_storage.py:199-231).                                         *)
THEOREM LoggedAtTopHolds == Spec => []LoggedAtTop
<1>1. TypeOK /\ LogInv => LoggedAtTop
  <2> SUFFICES ASSUME TypeOK, LogInv, NEW c \in Client,
                      pc[c] = "returned", op[c] = "log", Alone(c),
                      NEW f \in TreeOf[c], Unmistakable(c, f)
               PROVE  Logged(c, f, Dest(c) \o f.name)
    BY DEF LoggedAtTop, Unmistakable, Dest
  <2>1. todo[c] = {}
    BY DEF TypeOK
  <2>2. QED BY <2>1 DEF LogInv, LogOK, AtTop
<1>2. QED
  BY <1>1, TypeCorrect, LogInvHolds, PTL

-----------------------------------------------------------------------------
(***************************************************************************)
(* Listings.                                                               *)
(***************************************************************************)
(* What a set of names shows, as IsDir and Children of module               *)
(* ArtifactRepository say of the names in the bucket.                       *)
DirIn(D, p) == \E k \in D : IsStrictPrefix(p \o Slash, k)

ChildrenIn(D, p) ==
  {q \in UNION {Prefixes(k) : k \in D} :
     /\ IsStrictPrefix(p \o Slash, q) /\ (q \in D \/ DirIn(D, q))
     /\ ~Contains(Rest(p \o Slash, q), "/")}

(* Two sets of names that agree below a folder show the same there.         *)
LEMMA SameListing ==
  ASSUME NEW D \in SUBSET Name, NEW E \in SUBSET Name,
         NEW r \in Name, NEW p \in Name, IsPrefix(r, p \o Slash),
         \A k \in Name : IsPrefix(r, k) => (k \in D <=> k \in E)
  PROVE  /\ ChildrenIn(D, p) \subseteq ChildrenIn(E, p)
         /\ \A q \in ChildrenIn(D, p) : DirIn(D, q) => DirIn(E, q)
<1> SUFFICES ASSUME NEW q \in ChildrenIn(D, p)
             PROVE  q \in ChildrenIn(E, p) /\ (DirIn(D, q) => DirIn(E, q))
  OBVIOUS
<1>0. p \o Slash \in Name
  BY SlashIsName, PrefixOfConcat
<1>1. PICK k \in D : q \in Prefixes(k)
  BY DEF ChildrenIn
<1>2. q \in Name /\ IsPrefix(q, k)
  <2>1. PICK l \in 0..Len(k) : q = SubSeq(k, 1, l)
    BY <1>1 DEF Prefixes
  <2>2. k \in Name
    OBVIOUS
  <2>3. /\ q \in Name /\ Len(q) = l /\ Len(q) <= Len(k)
        /\ \A i \in 1..Len(q) : q[i] = k[i]
    BY <2>1, <2>2 DEF Name
  <2>4. QED BY <2>2, <2>3, PrefixByPieces
<1>3. /\ IsPrefix(p \o Slash, q) /\ IsStrictPrefix(p \o Slash, q)
      /\ q \in D \/ DirIn(D, q)
      /\ ~Contains(Rest(p \o Slash, q), "/")
  BY DEF ChildrenIn, IsStrictPrefix
<1>4. IsPrefix(r, q)
  BY <1>0, <1>2, <1>3, PrefixTransitive
<1>5. k \in E
  BY <1>2, <1>4, PrefixTransitive
<1>6. DirIn(D, q) => DirIn(E, q)
  <2>1. SUFFICES ASSUME NEW d \in D, IsStrictPrefix(q \o Slash, d)
                 PROVE  d \in E
    BY DEF DirIn
  <2>2. q \o Slash \in Name /\ IsPrefix(q, q \o Slash)
    BY <1>2, SlashIsName, PrefixOfConcat
  <2>3. IsPrefix(q \o Slash, d) /\ d \in Name
    BY <2>1 DEF IsStrictPrefix
  <2>4. IsPrefix(r, q \o Slash)
    BY <1>2, <1>4, <2>2, PrefixTransitive
  <2>5. IsPrefix(r, d)
    BY <2>2, <2>3, <2>4, PrefixTransitive
  <2>6. QED BY <2>3, <2>5
<1>7. q \in D => q \in E
  BY <1>2, <1>4
<1>8. QED BY <1>1, <1>3, <1>5, <1>6, <1>7 DEF ChildrenIn

(* A path below the URI without a slash at its end.                         *)
Plain(c) == ~Absolute(path[c]) /\ Location(c) = Target(c)

ListOK(c) ==
  Alone(c) /\ Plain(c)
    /\ (pc[c] = "inspect" \/ (pc[c] = "returned" /\ op[c] = "list"))
    => /\ todo[c] \subseteq Children(Target(c))
       /\ result[c] = {[name |-> q, is_dir |-> IsDir(q)] :
                         q \in Children(Target(c)) \ todo[c]}

ListInv == \A c \in Client : ListOK(c)

(* A call lists what is in its run.                                         *)
LEMMA ListedInFolder ==
  ASSUME TypeOK, NEW c \in Client, Plain(c)
  PROVE  Target(c) \in Name /\ IsPrefix(Folder(c), Target(c) \o Slash)
<1>1. /\ Run(c) \in Name /\ Folder(c) \in Name /\ Target(c) \in Name
      /\ Target(c) \o Slash \in Name /\ IsPrefix(Target(c), Target(c) \o Slash)
  BY NamesTyped, SlashIsName, PrefixOfConcat
<1>2. CASE Target(c) = Run(c)
  BY <1>1, <1>2, PrefixReflexive DEF Folder
<1>3. CASE IsPrefix(Folder(c), Target(c))
  BY <1>1, <1>3, PrefixTransitive
<1>4. QED BY <1>1, <1>2, <1>3, LocationInFolder DEF Plain

(* While nobody writes to a run, what its client has looked at stays true.  *)
LEMMA ListingKept ==
  ASSUME TypeOK, NEW c \in Client, SameBelow(c), DOMAIN store' \subseteq Name,
         ListOK(c), Plain(c),
         Alone(c), pc[c] = "inspect" \/ (pc[c] = "returned" /\ op[c] = "list"),
         path'[c] = path[c], todo'[c] = todo[c], result'[c] = result[c]
  PROVE  ListOK(c)'
<1> DEFINE D == DOMAIN store
           E == DOMAIN store'
           p == Target(c)
<1>1. /\ Children(p) = ChildrenIn(D, p) /\ \A q : IsDir(q) = DirIn(D, q)
  BY DEF Children, ChildrenIn, IsEntry, IsDir, DirIn
<1>2. Target(c)' = p
  BY DEF Target, Joined
<1>3. /\ Children(Target(c))' = ChildrenIn(E, p)
  BY <1>2 DEF Children, ChildrenIn, IsEntry, IsDir, DirIn
<1>4. D \in SUBSET Name /\ E \in SUBSET Name
  BY DEF TypeOK, Name
<1>5. p \in Name /\ Folder(c) \in Name /\ IsPrefix(Folder(c), p \o Slash)
  BY NamesTyped, ListedInFolder
<1>6. \A k \in Name : IsPrefix(Folder(c), k) => (k \in D <=> k \in E)
  BY DEF SameBelow
<1> HIDE DEF D, E, p
<1>7. /\ ChildrenIn(D, p) \subseteq ChildrenIn(E, p)
      /\ \A q \in ChildrenIn(D, p) : DirIn(D, q) => DirIn(E, q)
  BY <1>4, <1>5, <1>6, SameListing
<1>8. \A k \in Name : IsPrefix(Folder(c), k) => (k \in E <=> k \in D)
  BY <1>6
<1>9. /\ ChildrenIn(E, p) \subseteq ChildrenIn(D, p)
      /\ \A q \in ChildrenIn(E, p) : DirIn(E, q) => DirIn(D, q)
  BY <1>4, <1>5, <1>8, SameListing
<1>10. /\ ChildrenIn(D, p) = ChildrenIn(E, p)
       /\ \A q \in ChildrenIn(D, p) : DirIn(D, q) = DirIn(E, q)
  BY <1>7, <1>9 DEF DirIn
<1>11. /\ todo[c] \subseteq ChildrenIn(D, p)
       /\ result[c] = {[name |-> q, is_dir |-> DirIn(D, q)] :
                         q \in ChildrenIn(D, p) \ todo[c]}
  BY <1>1 DEF ListOK, p
<1>12. result[c] = {[name |-> q, is_dir |-> DirIn(E, q)] :
                         q \in ChildrenIn(E, p) \ todo[c]}
  BY <1>10, <1>11
<1>13. {[name |-> q, is_dir |-> IsDir(q)'] : q \in ChildrenIn(E, p) \ todo[c]}
         = {[name |-> q, is_dir |-> DirIn(E, q)] : q \in ChildrenIn(E, p) \ todo[c]}
  BY DEF IsDir, DirIn, E
<1>14. QED
  BY <1>3, <1>10, <1>11, <1>12, <1>13 DEF ListOK

(* A listing in progress shows what has been looked at, as it still is.     *)
LEMMA ListInvHolds == Spec => []ListInv
<1>1. Init => ListInv
  BY DEF Init, ListInv, ListOK
<1>2. TypeOK /\ TypeOK' /\ RemoveInv /\ CallInv /\ ListInv /\ [Next]_vars
        => ListInv'
  <2> SUFFICES ASSUME TypeOK, TypeOK', RemoveInv, CallInv, ListInv, [Next]_vars,
                      NEW a \in Client, Alone(a), Plain(a)',
                      \/ pc'[a] = "inspect"
                      \/ pc'[a] = "returned" /\ op'[a] = "list"
               PROVE  ListOK(a)'
    BY DEF ListInv, ListOK, Alone
  <2>p. path'[a] = path[a] => Plain(a)
    BY DEF Plain, Location, Target, Joined
  <2>0. Controls /\ CallOK(a) /\ ListOK(a)
    BY TypeParts DEF CallInv, ListInv
  <2>1. ASSUME Glob(a) PROVE ListOK(a)'
    <3>1. /\ UNCHANGED <<path, store>> /\ pc[a] = "list" /\ result' = result
          /\ todo'[a] \in {Children(Target(a)), Children(Location(a))}
      BY <2>0, <2>1 DEF Glob, Goto, Controls, Target, Location
    <3>a. todo'[a] = Children(Target(a))
      BY <2>p, <3>1 DEF Plain
    <3>2. Children(Target(a))' = Children(Target(a))
      BY <3>1 DEF Children, Target, Joined, IsEntry, IsDir
    <3>3. result'[a] = {}
      BY <2>0, <3>1 DEF CallOK
    <3>4. QED BY <3>a, <3>2, <3>3 DEF ListOK
  <2>2. ASSUME Inspect(a) PROVE ListOK(a)'
    <3>1. PICK q \in todo[a] :
            /\ todo'[a] = todo[a] \ {q}
            /\ result'[a] = result[a] \cup {[name |-> q, is_dir |-> IsDir(q)]}
      BY <2>0, <2>2 DEF Inspect, Controls
    <3>2. UNCHANGED <<path, store>> /\ pc[a] = "inspect"
      BY <2>2 DEF Inspect
    <3>3. /\ Children(Target(a))' = Children(Target(a))
          /\ \A r : IsDir(r)' = IsDir(r)
      BY <3>2 DEF Children, Target, Joined, IsEntry, IsDir
    <3>4. /\ todo[a] \subseteq Children(Target(a))
          /\ result[a] = {[name |-> r, is_dir |-> IsDir(r)] :
                            r \in Children(Target(a)) \ todo[a]}
      BY <2>0, <2>p, <3>2 DEF ListOK
    <3>5. Children(Target(a)) \ todo'[a] = (Children(Target(a)) \ todo[a]) \cup {q}
      BY <3>1, <3>4
    <3>6. result'[a] = {[name |-> r, is_dir |-> IsDir(r)] :
                          r \in Children(Target(a)) \ todo'[a]}
      BY <3>1, <3>4, <3>5
    <3>7. {[name |-> r, is_dir |-> IsDir(r)'] : r \in Children(Target(a)) \ todo'[a]}
            = {[name |-> r, is_dir |-> IsDir(r)] : r \in Children(Target(a)) \ todo'[a]}
      BY <3>2 DEF IsDir
    <3>8. QED BY <3>1, <3>3, <3>4, <3>6, <3>7 DEF ListOK
  <2>3. ASSUME UNCHANGED store, UNCHANGED <<path[a], todo[a], result[a]>>,
               pc[a] = "inspect" \/ (pc[a] = "returned" /\ op[a] = "list")
        PROVE  ListOK(a)'
    <3>1. SameBelow(a) /\ DOMAIN store' \subseteq Name
      BY <2>3 DEF SameBelow, TypeOK, Name
    <3>2. QED BY <2>0, <2>p, <2>3, <3>1, ListingKept
  <2>4. ASSUME EndCall(a) PROVE ListOK(a)'
    <3>1. UNCHANGED <<op, path, todo, result, store>> /\ pc'[a] = "returned"
      BY <2>0, <2>4 DEF EndCall, Controls
    <3>2. pc[a] = "inspect"
      BY <2>0, <2>4, <3>1 DEF EndCall, CallOK
    <3>3. QED BY <2>3, <3>1, <3>2
  <2>5. ASSUME NEW c \in Client, c # a, Step(c) PROVE ListOK(a)'
    <3>1. /\ pc'[a] = pc[a] /\ op'[a] = op[a] /\ path'[a] = path[a]
          /\ todo'[a] = todo[a] /\ result'[a] = result[a]
      BY <2>5, OthersUntouched
    <3>2. SameBelow(a)
      BY <2>5, AloneInRun
    <3>3. DOMAIN store' \subseteq Name
      BY DEF TypeOK, Name
    <3>4. QED BY <2>0, <2>p, <3>1, <3>2, <3>3, ListingKept
  <2>6. CASE UNCHANGED vars
    BY <2>3, <2>6 DEF vars
  <2>7. ASSUME Step(a), ~Glob(a), ~Inspect(a), ~EndCall(a) PROVE FALSE
    BY <2>0, <2>7, ConstantsAssumption
    DEF Step, Goto, Call, RejectBlankPath, WalkTree, Upload, Ls, DeleteEntry,
        Raise, Fail, Controls, Op, Ended
  <2>8. QED
    BY <2>1, <2>2, <2>4, <2>5, <2>6, <2>7 DEF Next
<1>3. QED
  BY <1>1, <1>2, TypeCorrect, RemoveInvHolds, CallInvHolds, PTL DEF Spec

(* A listing returned to a run's only client for a path below its URI is    *)
(* what is directly below that path, with its kind, nothing if nothing is   *)
(* there (oci_object_storage.py:244-282).                                   *)
THEOREM ListsAllBelowHolds == Spec => []ListsAllBelow
<1>1. TypeOK /\ ListInv => ListsAllBelow
  <2> SUFFICES ASSUME TypeOK, ListInv, NEW c \in Client,
                      pc[c] = "returned", op[c] = "list", Alone(c), Plain(c)
               PROVE  result[c] = {[name |-> q, is_dir |-> IsDir(q)] :
                                     q \in Children(Target(c))}
    BY DEF ListsAllBelow, Plain, Location, Target
  <2>1. todo[c] = {}
    BY DEF TypeOK
  <2>2. QED BY <2>1 DEF ListInv, ListOK
<1>2. QED
  BY <1>1, TypeCorrect, ListInvHolds, PTL


-----------------------------------------------------------------------------
(***************************************************************************)
(* Runs have files of their own, though they share a bucket.               *)
(***************************************************************************)
(* A step changes the files of its client's run and, if it deletes, of runs *)
(* its client reaches.                                                      *)
InRun(c) == {n \in DOMAIN store : IsPrefix(Folder(c), n)}

LEMMA FilesOfRun ==
  ASSUME NEW c \in Client
  PROVE  /\ FilesOf(Run(c)) = [n \in InRun(c) |-> store[n]]
         /\ FilesOf(Run(c))' = [n \in InRun(c)' |-> store'[n]]
  BY DEF FilesOf, InRun, Folder

LEMMA OtherRunsStay ==
  ASSUME TypeOK, TypeOK', RemoveInv, NEW c \in Client, Step(c),
         NEW u \in {Run(o) : o \in Client}, u # Run(c),
         DeleteEntry(c) => u \notin Reach(c)
  PROVE  FilesOf(u)' = FilesOf(u)
<1>1. PICK o \in Client : u = Run(o)
  OBVIOUS
<1>2. SameBelow(o)
  BY <1>1, OnlyOwnClientWrites
<1>3. DOMAIN store \subseteq Name /\ DOMAIN store' \subseteq Name
  BY DEF TypeOK, Name
<1>4. /\ InRun(o)' = InRun(o)
      /\ \A n \in InRun(o) : store'[n] = store[n]
  BY <1>2, <1>3 DEF InRun, SameBelow, Folder
<1>5. FilesOf(u)' = [n \in InRun(o) |-> store'[n]] /\ FilesOf(u) = [n \in InRun(o) |-> store[n]]
  BY <1>1, <1>4, FilesOfRun
<1>6. QED BY <1>4, <1>5

RunFiles == [u \in {Run(c) : c \in Client} |-> FilesOf(u)]
Listed == [c \in Client |-> ListedOf(c)]

LEMMA FilesChange ==
  ASSUME TypeOK, TypeOK', RemoveInv, NEW c \in Client, Step(c), ~DeleteEntry(c)
  PROVE  RunFiles' = [RunFiles EXCEPT ![Run(c)] = FilesOf(Run(c))']
  BY OtherRunsStay DEF RunFiles

LEMMA ListedChanges ==
  ASSUME TypeOK, NEW c \in Client, Step(c)
  PROVE  Listed' = [Listed EXCEPT ![c] = ListedOf(c)']
<1>1. ASSUME NEW a \in Client, a # c PROVE ListedOf(a)' = ListedOf(a)
  BY <1>1, OthersUntouched DEF ListedOf
<1>2. QED BY <1>1 DEF Listed

(* An upload puts one object into the run of its client.                    *)
LEMMA UploadLogs ==
  ASSUME TypeOK, TypeOK', RemoveInv, NEW c \in Client, Upload(c)
  PROVE  Runs!Log(c)
<1> DEFINE u == Run(c)
           F == FilesOf(u)
<1>1. PICK f \in todo[c] :
        store' = [k \in DOMAIN store \cup {ObjectName(c, f)} |->
                    IF k = ObjectName(c, f) THEN [by |-> c, file |-> f]
                    ELSE store[k]]
  BY DEF Upload
<1> DEFINE n == ObjectName(c, f)
           object == [by |-> c, file |-> f]
<1>2. n \in Name /\ IsPrefix(Folder(c), n)
  BY ObjectNameInFolder DEF Upload, TypeOK
<1> HIDE DEF n, object
<1>3. store' = [k \in DOMAIN store \cup {n} |-> IF k = n THEN object ELSE store[k]]
  BY <1>1 DEF n, object
<1>4. InRun(c)' = InRun(c) \cup {n}
  BY <1>2, <1>3 DEF InRun, Folder
<1>5. /\ F = [k \in InRun(c) |-> store[k]]
      /\ F' = [k \in InRun(c)' |-> store'[k]]
  BY FilesOfRun
<1> HIDE DEF F
<1>6. F' = [k \in DOMAIN F \cup {n} |-> IF k = n THEN object ELSE F[k]]
  BY <1>3, <1>4, <1>5 DEF InRun
<1>7. n \in DOMAIN F' /\ F'[n] = object
  BY <1>6
<1>8. RunFiles' = [RunFiles EXCEPT ![u] = F']
  <2>1. ~DeleteEntry(c)
    BY DEF DeleteEntry, Upload
  <2>2. QED BY <2>1, FilesChange DEF Step, F
<1>9. RunFiles[u] = F /\ RunFiles'[u] = F'
  BY DEF RunFiles, F
<1>10. object.by = c
  BY DEF object
<1>11. UNCHANGED Listed
  BY DEF Listed, ListedOf, Upload
<1> DEFINE runOf == [a \in Client |-> Run(a)]
<1> HIDE DEF runOf
<1>12. \E name \in DOMAIN RunFiles'[runOf[c]] :
         LET o == RunFiles'[runOf[c]][name] IN
         /\ o.by = c
         /\ RunFiles' = [RunFiles EXCEPT ![runOf[c]] =
              [m \in DOMAIN @ \cup {name} |-> IF m = name THEN o ELSE @[m]]]
  <2>0. runOf[c] = Run(c)
    BY DEF runOf
  <2>1. n \in DOMAIN RunFiles'[runOf[c]] /\ RunFiles'[runOf[c]][n] = object
    BY <1>7, <1>9, <2>0
  <2>2. F' = [m \in DOMAIN RunFiles[runOf[c]] \cup {n} |->
                IF m = n THEN RunFiles'[runOf[c]][n] ELSE RunFiles[runOf[c]][m]]
    BY <1>6, <1>9, <2>0, <2>1
  <2>3. RunFiles' = [RunFiles EXCEPT ![runOf[c]] =
          [m \in DOMAIN RunFiles[runOf[c]] \cup {n} |->
             IF m = n THEN RunFiles'[runOf[c]][n] ELSE RunFiles[runOf[c]][m]]]
    BY <1>8, <2>0, <2>2
  <2>4. QED BY <1>10, <2>1, <2>3, Zenon
<1>13. QED
  BY <1>11, <1>12, Zenon DEF Runs!Log, RunFiles, Listed, runOf

(* A deletion removes objects of runs its client reaches.                   *)
LEMMA DeletionDeletes ==
  ASSUME TypeOK, TypeOK', RemoveInv, NEW c \in Client, DeleteEntry(c)
  PROVE  Runs!Delete(c)
<1>1. PICK gone : store' = [k \in DOMAIN store \ gone |-> store[k]]
  BY DEF DeleteEntry
<1>2. ASSUME NEW r \in {Run(o) : o \in Client}
      PROVE  /\ DOMAIN RunFiles'[r] \subseteq DOMAIN RunFiles[r]
             /\ RunFiles'[r] = [n \in DOMAIN RunFiles'[r] |-> RunFiles[r][n]]
             /\ r \notin Reach(c) => RunFiles'[r] = RunFiles[r]
  <2>1. PICK o \in Client : r = Run(o)
    BY <1>2
  <2>2. /\ RunFiles[r] = [k \in InRun(o) |-> store[k]]
        /\ RunFiles'[r] = [k \in InRun(o)' |-> store'[k]]
    BY <2>1, FilesOfRun DEF RunFiles
  <2>3. InRun(o)' \subseteq InRun(o) /\ \A k \in InRun(o)' : store'[k] = store[k]
    BY <1>1 DEF InRun, Folder
  <2>4. r \notin Reach(c) => r # Run(c)
    BY DEF Reach
  <2>5. r \notin Reach(c) => RunFiles'[r] = RunFiles[r]
    BY <1>2, <2>4, OtherRunsStay DEF Step, RunFiles
  <2>6. QED BY <2>2, <2>3, <2>5
<1>3. UNCHANGED Listed
  BY DEF Listed, ListedOf, DeleteEntry
<1>4. RunFiles' = [r \in {Run(o) : o \in Client} |-> RunFiles'[r]]
  BY DEF RunFiles
<1>5. \A r \in {Run(o) : o \in Client} :
        r \notin [a \in Client |-> Reach(a)][c] => RunFiles'[r] = RunFiles[r]
  BY <1>2
<1>6. Runs!Run = {Run(o) : o \in Client}
  BY DEF Runs!Run
<1>7. QED
  BY <1>2, <1>3, <1>4, <1>5, <1>6, Zenon DEF Runs!Delete, RunFiles, Listed

(* A listing shows what is in the run of its client when it looks at it.    *)
LEMMA InspectionLists ==
  ASSUME TypeOK, NEW c \in Client, Inspect(c)
  PROVE  Runs!List(c)
<1>1. PICK q \in todo[c] :
        /\ IsEntry(q) /\ IsPrefix(Folder(c), q)
        /\ result' = [result EXCEPT ![c] = @ \cup {[name |-> q, is_dir |-> IsDir(q)]}]
  BY DEF Inspect, Folder
<1>2. q \in Name /\ IsPrefix(Folder(c), q)
  BY <1>1 DEF Inspect, TypeOK, Name
<1>3. ListedOf(c)' = ListedOf(c) \cup {q}
  <2> DEFINE e == [name |-> q, is_dir |-> IsDir(q)]
  <2> HIDE DEF e
  <2>1. result'[c] = result[c] \cup {e}
    BY <1>1 DEF TypeOK, e
  <2>2. e.name = q
    BY DEF e
  <2>3. QED BY <2>1, <2>2 DEF ListedOf
<1>4. Listed' = [Listed EXCEPT ![c] = Listed[c] \cup {q}] /\ q \in Listed'[c]
  BY <1>3, ListedChanges DEF Step, Listed
<1>5. UNCHANGED RunFiles
  BY DEF Inspect, RunFiles, FilesOf
<1>6. PICK k \in DOMAIN store : k = q \/ IsStrictPrefix(q \o Slash, k)
  BY <1>1 DEF IsEntry, IsDir
<1>7. IsPrefix(Folder(c), k)
  <2>1. CASE k = q
    BY <1>2, <2>1
  <2>2. CASE IsStrictPrefix(q \o Slash, k)
    <3>1. q \o Slash \in Name /\ IsPrefix(q, q \o Slash) /\ k \in Name
      BY <1>2, SlashIsName, PrefixOfConcat DEF TypeOK, Name
    <3>2. Folder(c) \in Name
      BY NamesTyped
    <3>3. IsPrefix(Folder(c), q \o Slash)
      BY <1>2, <3>1, <3>2, PrefixTransitive
    <3>4. QED BY <2>2, <3>1, <3>2, <3>3, PrefixTransitive DEF IsStrictPrefix
  <2>3. QED BY <1>6, <2>1, <2>2
<1>8. k \in DOMAIN RunFiles[Run(c)]
  BY <1>6, <1>7, FilesOfRun DEF RunFiles, InRun
<1>9. \E name \in Listed'[c] :
        /\ Listed' = [Listed EXCEPT ![c] = Listed[c] \cup {name}]
        /\ \E n \in DOMAIN RunFiles[Run(c)] :
             n = name \/ Runs!IsStrictPrefix(name \o <<"/">>, n)
  <2>1. k = q \/ Runs!IsStrictPrefix(q \o <<"/">>, k)
    BY <1>6 DEF IsStrictPrefix, IsPrefix, Runs!IsStrictPrefix, Runs!IsPrefix, Slash
  <2>2. QED BY <1>4, <1>8, <2>1
<1>10. QED
  BY <1>5, <1>9, Zenon DEF Runs!List, RunFiles, Listed

(* Clients that log, list and delete in one bucket keep what RunArtifacts   *)
(* promises, for any URIs of which none lies inside another: no request     *)
(* puts anything into the run of another client's or shows it, and none     *)
(* takes anything away there but by an absolute path that leads there       *)
(* (oci_object_storage.py:196, 218, 244-301).                               *)
THEOREM Implementation == Spec => ImplementsRunArtifacts
<1>1. Init => Runs!Init
  <2> SUFFICES ASSUME Init PROVE Runs!Init
    OBVIOUS
  <2>1. \A u \in {Run(c) : c \in Client} : FilesOf(u) = <<>>
    BY DEF Init, FilesOf
  <2>2. \A c \in Client : ListedOf(c) = {}
    BY DEF Init, ListedOf
  <2>3. QED BY <2>1, <2>2 DEF Runs!Init, Runs!Run
<1>2. TypeOK /\ TypeOK' /\ RemoveInv /\ [Next]_vars
        => [Runs!Next]_(Runs!vars)
  <2> SUFFICES ASSUME TypeOK, TypeOK', RemoveInv, [Next]_vars
               PROVE  [Runs!Next]_(Runs!vars)
    OBVIOUS
  <2>1. ASSUME NEW c \in Client, Upload(c) PROVE [Runs!Next]_(Runs!vars)
    BY <2>1, UploadLogs DEF Runs!Next
  <2>2. ASSUME NEW c \in Client, DeleteEntry(c) PROVE [Runs!Next]_(Runs!vars)
    BY <2>2, DeletionDeletes DEF Runs!Next
  <2>3. ASSUME NEW c \in Client, Inspect(c) PROVE [Runs!Next]_(Runs!vars)
    BY <2>3, InspectionLists DEF Runs!Next
  <2>4. ASSUME NEW c \in Client,
               (\E o \in OpsOf[c] : Call(c, o)) \/ RejectBlankPath(c) \/ Raise(c)
        PROVE  [Runs!Next]_(Runs!vars)
    <3>1. ListedOf(c)' = {} /\ store' = store
      BY <2>4 DEF Call, RejectBlankPath, Raise, Fail, ListedOf, TypeOK
    <3>2. Listed' = [Listed EXCEPT ![c] = {}]
      BY <2>4, <3>1, ListedChanges DEF Step
    <3>3. UNCHANGED RunFiles
      BY <3>1 DEF RunFiles, FilesOf
    <3>4. Runs!Forget(c)
      BY <3>2, <3>3 DEF Runs!Forget, RunFiles, Listed
    <3>5. QED BY <3>4 DEF Runs!Next
  <2>5. ASSUME \/ UNCHANGED vars
               \/ \E c \in Client : WalkTree(c) \/ Glob(c) \/ Ls(c) \/ EndCall(c)
        PROVE  [Runs!Next]_(Runs!vars)
    <3>1. UNCHANGED <<store, result>>
      BY <2>5 DEF vars, WalkTree, Glob, Ls, EndCall
    <3>2. UNCHANGED <<RunFiles, Listed>>
      BY <3>1 DEF RunFiles, FilesOf, Listed, ListedOf
    <3>3. QED BY <3>2 DEF Runs!vars, RunFiles, Listed
  <2>6. QED BY <2>1, <2>2, <2>3, <2>4, <2>5 DEF Next, Step
<1>3. QED
  BY <1>1, <1>2, TypeCorrect, RemoveInvHolds, PTL
  DEF Spec, ImplementsRunArtifacts, Runs!Spec
=============================================================================
