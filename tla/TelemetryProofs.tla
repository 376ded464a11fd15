----------------------------- MODULE TelemetryProofs -----------------------------
(***************************************************************************)
(* What Telemetry promises, for any calls in any threads and any values.   *)
(***************************************************************************)
EXTENDS Telemetry, TLAPS

(* The values a call records, as texts, and one after the other.            *)
LEMMA ValuesAreTexts ==
  ASSUME NEW c \in Call
  PROVE  /\ Values(c) \in Seq(Text) /\ Len(Values(c)) = 4 /\ Values(c)[1] = Name
         /\ \A i \in 1..4 : Values(c)[i] \in Value /\ Values(c)[i] \in Text
                            /\ Values(c)[i] # Blank
         /\ \A i, j \in 1..4 : i # j => Values(c)[i] # Values(c)[j]
<1>1. \A i \in 1..4 : Values(c)[i] \in Value /\ Values(c)[i] \in Text
                      /\ Values(c)[i] # Blank
  BY ConstantsAssumption DEF Text
<1>2. Values(c)[1] = Name /\ Values(c)[2] = EntryOf[c] /\ Values(c)[3] = InfraOf[c]
      /\ Values(c)[4] = RuntimeOf[c] /\ Len(Values(c)) = 4
  BY DEF Values
<1>3. Name \in Text /\ EntryOf[c] \in Text /\ InfraOf[c] \in Text /\ RuntimeOf[c] \in Text
  BY <1>1, <1>2
<1>4. Values(c) \in Seq(Text)
  BY <1>3 DEF Values
<1>5. QED BY <1>1, <1>2, <1>4, ConstantsAssumption

(* Every variable of the decorator keeps its type                           *)
(* (telemetry_logging.py:76-132).                                           *)
THEOREM TypeCorrect == Spec => []TypeOK
<1>1. Init => TypeOK
  <2> SUFFICES ASSUME Init PROVE TypeOK
    OBVIOUS
  <2> USE DEF Init
  <2>1. <<>> \in Seq(Text) /\ <<Other>> \in Seq(Text)
    BY DEF Text
  <2>2. environ \in Seq(Text)
    BY <2>1
  <2>3. current \in [Call -> Seq(Text)]
    BY <2>1
  <2>4. pc \in [Call -> Open \cup {"idle", "ended"}] /\ adding \in [Call -> 1..4]
    OBVIOUS
  <2>5. QED BY <2>2, <2>3, <2>4 DEF TypeOK
<1>2. TypeOK /\ [Next]_vars => TypeOK'
  <2> SUFFICES ASSUME TypeOK, [Next]_vars PROVE TypeOK'
    OBVIOUS
  <2> USE DEF TypeOK, Open, Goto
  <2>1. ASSUME NEW c \in Call, Create(c) PROVE TypeOK'
    BY <2>1 DEF Create
  <2>2. ASSUME NEW c \in Call,
               Clean(c) \/ Check(c) \/ Begin(c) \/ Record(c) \/ Leave(c) \/ Finish(c)
        PROVE  TypeOK'
    <3>1. CASE Clean(c) \/ Begin(c) \/ Finish(c)
      <4>1. environ' = <<>> /\ <<>> \in Seq(Text)
        BY <3>1 DEF Clean, Begin, Finish
      <4>2. QED BY <3>1, <4>1 DEF Clean, Begin, Finish
    <3>2. CASE Check(c)
      BY <3>2 DEF Check
    <3>3. CASE Record(c)
      BY <3>3 DEF Record
    <3>4. CASE Leave(c)
      <4>1. current' \in [Call -> Seq(Text)]
        BY <3>4 DEF Leave
      <4>2. QED BY <3>4, <4>1 DEF Leave
    <3>5. QED BY <2>2, <3>1, <3>2, <3>3, <3>4
  <2>3. ASSUME NEW c \in Call, SetName(c) PROVE TypeOK'
    <3>1. Name \in Text
      BY ValuesAreTexts
    <3>2. QED BY <2>3, <3>1 DEF SetName
  <2>4. ASSUME NEW c \in Call, Read(c) PROVE TypeOK'
    <3>1. adding' \in [Call -> 1..4]
      <4>1. adding' = adding \/ Added(c)
        BY <2>4 DEF Read
      <4>2. Added(c) => \E n \in 1..4 : adding' = [adding EXCEPT ![c] = n]
        <5>1. (IF adding[c] \in {1, 3} THEN adding[c] + 1 ELSE adding[c]) \in 1..4
          OBVIOUS
        <5>2. QED BY <5>1 DEF Added
      <4>3. QED BY <4>1, <4>2
    <3>4. AfterAdd(c) \in Open /\ "write" \in Open
      BY DEF AfterAdd
    <3>5. pc' \in [Call -> Open \cup {"idle", "ended"}]
      BY <2>4, <3>4 DEF Read
    <3>2. current' \in [Call -> Seq(Text)]
      BY <2>4 DEF Read
    <3>3. QED BY <2>4, <3>1, <3>2, <3>5 DEF Read
  <2>5. ASSUME NEW c \in Call, Write(c) PROVE TypeOK'
    <3>1. Values(c)[adding[c]] \in Text
      BY ValuesAreTexts
    <3>2. <<Blank>> \in Seq(Text)
      BY DEF Text
    <3>3. environ' \in Seq(Text)
      BY <2>5, <3>1, <3>2 DEF Write
    <3>4. QED BY <2>5, <3>3 DEF Write, AfterAdd, Added
  <2>6. CASE UNCHANGED vars
    BY <2>6 DEF vars
  <2>7. QED
    BY <2>1, <2>2, <2>3, <2>4, <2>5, <2>6 DEF Next
<1>3. QED
  BY <1>1, <1>2, PTL DEF Spec

-----------------------------------------------------------------------------
(* When every call that was begun has ended, nothing of them is left        *)
(* (telemetry_logging.py:52-55).                                            *)
THEOREM QuietWhenIdleHolds == Spec => []QuietWhenIdle
<1>1. Init => QuietWhenIdle
  BY DEF Init, QuietWhenIdle
<1>2. TypeOK /\ QuietWhenIdle /\ [Next]_vars => QuietWhenIdle'
  <2> SUFFICES ASSUME TypeOK, QuietWhenIdle, [Next]_vars PROVE QuietWhenIdle'
    OBVIOUS
  <2>1. ASSUME NEW c \in Call, Finish(c) PROVE QuietWhenIdle'
    BY <2>1 DEF Finish, QuietWhenIdle
  <2>2. ASSUME NEW c \in Call,
               \/ Create(c) \/ Clean(c) \/ Check(c) \/ Begin(c) \/ SetName(c)
               \/ Read(c) \/ Write(c) \/ Record(c) \/ Leave(c)
        PROVE  QuietWhenIdle'
    <3>1. pc'[c] \in Open
      BY <2>2 DEF TypeOK, Open, Goto, AfterAdd, Create, Clean, Check, Begin, SetName,
                  Read, Write, Record, Leave
    <3>2. QED BY <3>1 DEF QuietWhenIdle, IsOpen
  <2>3. CASE UNCHANGED vars
    BY <2>3 DEF vars, QuietWhenIdle, IsOpen
  <2>4. QED
    BY <2>1, <2>2, <2>3 DEF Next
<1>3. QED
  BY <1>1, <1>2, TypeCorrect, PTL DEF Spec

-----------------------------------------------------------------------------
(* A call that is about to write has read a record without its value.       *)
Distinct(s) == \A i, j \in DOMAIN s : s[i] = s[j] => i = j
RecordInv ==
  /\ Distinct(environ)
  /\ \A c \in Call :
       pc[c] = "write" => /\ Distinct(current[c])
                          /\ Values(c)[adding[c]] \notin Elements(current[c])

LEMMA AppendNew ==
  ASSUME NEW s \in Seq(Text), NEW v \in Text, Distinct(s), v \notin Elements(s)
  PROVE  Distinct(Append(s, v))
BY DEF Distinct, Elements

(* No value is recorded twice (telemetry_logging.py:128-132).               *)
THEOREM NoValueTwiceHolds == Spec => []NoValueTwice
<1>1. Init => RecordInv
  BY DEF Init, RecordInv, Distinct
<1>2. TypeOK /\ RecordInv /\ [Next]_vars => RecordInv'
  <2> SUFFICES ASSUME TypeOK, RecordInv, [Next]_vars PROVE RecordInv'
    OBVIOUS
  <2> USE DEF TypeOK, Open, Goto
  <2>1. ASSUME NEW c \in Call,
               Create(c) \/ Clean(c) \/ Begin(c) \/ SetName(c) \/ Finish(c)
        PROVE  RecordInv'
    <3>1. Distinct(environ')
      BY <2>1 DEF Create, Clean, Begin, SetName, Finish, Distinct
    <3>2. /\ UNCHANGED <<adding, current>>
          /\ \A o \in Call : pc'[o] = "write" => pc[o] = "write"
      BY <2>1 DEF Create, Clean, Begin, SetName, Finish
    <3>3. QED BY <3>1, <3>2 DEF RecordInv, Distinct
  <2>2. ASSUME NEW c \in Call, Check(c) \/ Record(c) \/ Leave(c) PROVE RecordInv'
    <3>1. environ' = environ
          /\ \A o \in Call : pc'[o] = "write" =>
               pc[o] = "write" /\ adding'[o] = adding[o] /\ current'[o] = current[o]
      BY <2>2 DEF Check, Record, Leave
    <3>2. QED BY <3>1 DEF RecordInv, Distinct
  <2>3. ASSUME NEW c \in Call, Read(c) PROVE RecordInv'
    <3>1. environ' = environ
          /\ \A o \in Call \ {c} :
               pc'[o] = pc[o] /\ adding'[o] = adding[o] /\ current'[o] = current[o]
      BY <2>3 DEF Read, Added
    <3>2. pc'[c] = "write" => adding'[c] = adding[c] /\ current'[c] = environ
                              /\ Values(c)[adding[c]] \notin Elements(environ)
      BY <2>3 DEF Read, AfterAdd
    <3>3. QED BY <3>1, <3>2 DEF RecordInv, Distinct
  <2>4. ASSUME NEW c \in Call, Write(c) PROVE RecordInv'
    <3> DEFINE v == Values(c)[adding[c]]
               s == IF current[c] = <<>> THEN <<Blank>> ELSE current[c]
    <3>1. s \in Seq(Text) /\ v \in Text /\ v # Blank
      <4>1. <<Blank>> \in Seq(Text)
        BY DEF Text
      <4>2. QED BY <4>1, ValuesAreTexts
    <3>2. Distinct(s) /\ v \notin Elements(s)
      <4>1. Distinct(<<Blank>>) /\ v \notin Elements(<<Blank>>)
        BY <3>1 DEF Distinct, Elements
      <4>2. Distinct(current[c]) /\ v \notin Elements(current[c])
        BY <2>4 DEF Write, RecordInv
      <4>3. QED BY <4>1, <4>2
    <3>3. Distinct(Append(s, v))
      BY <3>1, <3>2, AppendNew
    <3>4. environ' = Append(s, v)
      BY <2>4 DEF Write
    <3>5. \A o \in Call : pc'[o] = "write" =>
            pc[o] = "write" /\ adding'[o] = adding[o] /\ current'[o] = current[o]
      BY <2>4 DEF Write, AfterAdd, Added
    <3>6. QED BY <3>3, <3>4, <3>5 DEF RecordInv, Distinct
  <2>5. CASE UNCHANGED vars
    BY <2>5 DEF vars, RecordInv, Distinct
  <2>6. QED
    BY <2>1, <2>2, <2>3, <2>4, <2>5 DEF Next
<1>3. RecordInv => NoValueTwice
  BY DEF RecordInv, Distinct, NoValueTwice
<1>4. QED
  BY <1>1, <1>2, <1>3, TypeCorrect, PTL DEF Spec

-----------------------------------------------------------------------------
(* The first n values of a call.                                            *)
First(c, n) == SubSeq(Values(c), 1, n)

LEMMA FirstValues ==
  ASSUME NEW c \in Call
  PROVE  /\ First(c, 0) = <<>> /\ First(c, 1) = <<Name>>
         /\ \A n \in 2..4 : /\ First(c, n) = Append(First(c, n - 1), Values(c)[n])
                            /\ First(c, n - 1) # <<>>
                            /\ Values(c)[n] \notin Elements(First(c, n - 1))
<1>1. /\ Values(c) \in Seq(Text) /\ Len(Values(c)) = 4 /\ Values(c)[1] = Name
      /\ \A i \in 1..4 : Values(c)[i] \in Text
      /\ \A i, j \in 1..4 : i # j => Values(c)[i] # Values(c)[j]
  BY ValuesAreTexts
<1>2. \A n \in 0..4 : /\ First(c, n) \in Seq(Text) /\ Len(First(c, n)) = n
                      /\ \A i \in 1..n : First(c, n)[i] = Values(c)[i]
  BY <1>1 DEF First
<1>3. First(c, 0) = <<>> /\ First(c, 1) = <<Name>>
  BY <1>1, <1>2
<1>4. ASSUME NEW k \in 1..3
      PROVE  /\ First(c, k + 1) = Append(First(c, k), Values(c)[k + 1])
             /\ First(c, k) # <<>>
             /\ Values(c)[k + 1] \notin Elements(First(c, k))
  <2> DEFINE s == First(c, k)
             v == Values(c)[k + 1]
  <2>1. k \in 0..4 /\ k + 1 \in 1..4 /\ k + 1 \in 0..4
    OBVIOUS
  <2>2. /\ s \in Seq(Text) /\ Len(s) = k /\ v \in Text
        /\ \A i \in 1..k : s[i] = Values(c)[i] /\ i \in 1..4 /\ i # k + 1
    <3>1. s \in Seq(Text) /\ Len(s) = k /\ \A i \in 1..k : s[i] = Values(c)[i]
      BY <1>2, <2>1
    <3>2. v \in Text
      BY <1>1, <2>1
    <3>3. QED BY <3>1, <3>2
  <2>3. s # <<>>
    BY <2>2
  <2>4. v \notin Elements(s)
    BY <1>1, <2>1, <2>2 DEF Elements
  <2>5. Append(s, v) = First(c, k + 1)
    <3>1. /\ First(c, k + 1) \in Seq(Text) /\ Len(First(c, k + 1)) = k + 1
          /\ \A i \in 1..(k + 1) : First(c, k + 1)[i] = Values(c)[i]
      BY <1>2, <2>1
    <3> HIDE DEF v
    <3>2. Append(s, v) \in Seq(Text) /\ Len(Append(s, v)) = k + 1
      BY <2>2
    <3>3. \A i \in 1..(k + 1) : Append(s, v)[i] = IF i = k + 1 THEN v ELSE s[i]
      BY <2>2
    <3>4. \A i \in 1..(k + 1) : Append(s, v)[i] = First(c, k + 1)[i]
      BY <2>2, <3>1, <3>3 DEF v
    <3>5. QED BY <3>1, <3>2, <3>4
  <2>6. QED BY <2>3, <2>4, <2>5
<1>5. ASSUME NEW n \in 2..4
      PROVE  /\ First(c, n) = Append(First(c, n - 1), Values(c)[n])
             /\ First(c, n - 1) # <<>>
             /\ Values(c)[n] \notin Elements(First(c, n - 1))
  <2>1. n - 1 \in 1..3 /\ (n - 1) + 1 = n
    OBVIOUS
  <2>2. QED BY <1>4, <2>1
<1>6. QED BY <1>3, <1>5

(* What the variable holds while a call runs that no other has overlapped.  *)
OwnRecord(c) ==
  /\ pc[c] \in {"clean", "begin", "name"} => adding[c] = 1 /\ environ = <<>>
  /\ pc[c] = "check" => environ = First(c, adding[c] - 1)
  /\ pc[c] = "read" => environ = First(c, IF adding[c] = 1 THEN 1 ELSE adding[c] - 1)
  /\ pc[c] = "write" => /\ adding[c] # 1 /\ environ = First(c, adding[c] - 1)
                        /\ current[c] = environ
  /\ pc[c] = "body" => environ = First(c, adding[c])

OwnInv ==
  /\ \A c \in Call : pc[c] = "idle" => adding[c] = 1
  /\ \A c, o \in Call : c # o /\ IsOpen(c) /\ IsOpen(o) => c \in overlapped
  /\ \A c \in Call \ overlapped : IsOpen(c) => OwnRecord(c)

(* While a call that no other overlaps runs, its requests carry what it has *)
(* recorded (telemetry_logging.py:76-79, 112).                              *)
THEOREM OwnSequenceHolds == Spec => []OwnSequence
<1>1. Init => OwnInv
  BY DEF Init, OwnInv, IsOpen, Open
<1>2. TypeOK /\ OwnInv /\ [Next]_vars => OwnInv'
  <2> SUFFICES ASSUME TypeOK, OwnInv, [Next]_vars PROVE OwnInv'
    OBVIOUS
  <2> USE DEF TypeOK, Goto
  <2>1. ASSUME NEW c \in Call, Create(c) PROVE OwnInv'
    <3>1. /\ pc[c] = "idle" /\ pc' = [pc EXCEPT ![c] = "clean"] /\ adding' = adding
          /\ environ' = <<>>
      BY <2>1 DEF Create
    <3>2. \A o \in Call \ {c} : IsOpen(o) => o \in overlapped' /\ c \in overlapped'
      BY <2>1 DEF Create, IsOpen
    <3>3. overlapped \subseteq overlapped'
      BY <2>1 DEF Create
    <3>4. \A o \in Call \ {c} : IsOpen(o)' <=> IsOpen(o)
      BY <3>1 DEF IsOpen
    <3>5. \A a, o \in Call : a # o /\ IsOpen(a)' /\ IsOpen(o)' => a \in overlapped'
      BY <3>2, <3>3, <3>4 DEF OwnInv
    <3>6. \A o \in Call \ overlapped' : IsOpen(o)' => OwnRecord(o)'
      BY <3>1, <3>2, <3>4 DEF OwnInv, OwnRecord
    <3>7. QED BY <3>1, <3>5, <3>6 DEF OwnInv
  <2>2. ASSUME NEW c \in Call,
               \/ Clean(c) \/ Check(c) \/ Begin(c) \/ SetName(c) \/ Read(c)
               \/ Write(c) \/ Record(c) \/ Leave(c) \/ Finish(c)
        PROVE  OwnInv'
    <3>1. /\ IsOpen(c) /\ overlapped' = overlapped /\ pc'[c] # "idle"
          /\ \A o \in Call \ {c} : pc'[o] = pc[o] /\ adding'[o] = adding[o]
      BY <2>2 DEF Clean, Check, Begin, SetName, Read, Write, Record, Leave, Finish,
                  IsOpen, Open, AfterAdd, Added
    <3>2. ASSUME c \notin overlapped, IsOpen(c)' PROVE OwnRecord(c)'
      <4>1. OwnRecord(c)
        BY <3>1, <3>2 DEF OwnInv
      <4> USE FirstValues, <4>1 DEF OwnRecord
      <4>2. CASE Clean(c) \/ Begin(c)
        BY <4>2 DEF Clean, Begin
      <4>3. CASE Check(c)
        <5>1. /\ pc[c] = "check" /\ environ = First(c, adding[c] - 1)
              /\ environ' = environ /\ adding' = adding
          BY <4>3 DEF Check
        <5>2. environ = <<>> <=> adding[c] = 1
          <6>1. adding[c] = 1 => adding[c] - 1 = 0
            OBVIOUS
          <6>2. adding[c] = 1 \/ adding[c] \in 2..4
            OBVIOUS
          <6>3. QED BY <5>1, <6>1, <6>2
        <5>3. pc'[c] = IF adding[c] = 1 THEN "begin" ELSE "read"
          BY <4>3, <5>2 DEF Check
        <5>4. QED BY <5>1, <5>2, <5>3
      <4>4. CASE SetName(c)
        BY <4>4 DEF SetName
      <4>5. CASE Read(c)
        <5>1. pc[c] = "read" /\ environ' = environ
          BY <4>5 DEF Read
        <5>2. CASE adding[c] = 1
          <6>1. Values(c)[1] \in Elements(environ)
            BY <5>1, <5>2, ValuesAreTexts DEF Elements
          <6>2. pc'[c] = "check" /\ adding'[c] = 2
            BY <4>5, <5>2, <6>1 DEF Read, AfterAdd, Added
          <6>3. QED BY <5>1, <5>2, <6>2
        <5>3. CASE adding[c] # 1
          <6>1. adding[c] \in 2..4 /\ environ = First(c, adding[c] - 1)
            BY <5>1, <5>3
          <6>2. pc'[c] = "write" /\ adding' = adding /\ current'[c] = environ
            BY <4>5, <6>1 DEF Read
          <6>3. QED BY <5>1, <5>3, <6>1, <6>2
        <5>4. QED BY <5>2, <5>3
      <4>6. CASE Write(c)
        <5>1. /\ adding[c] \in 2..4 /\ current[c] = First(c, adding[c] - 1)
          BY <4>6 DEF Write
        <5>2. environ' = First(c, adding[c])
          BY <4>6, <5>1 DEF Write
        <5>3. \/ adding[c] = 3 /\ pc'[c] = "check" /\ adding'[c] = 4
              \/ adding[c] # 3 /\ pc'[c] = "body" /\ adding'[c] = adding[c]
          BY <4>6, <5>1 DEF Write, AfterAdd, Added
        <5>4. QED BY <5>2, <5>3
      <4>7. CASE Record(c)
        BY <4>7 DEF Record
      <4>8. CASE Leave(c)
        BY <4>8 DEF Leave
      <4>9. CASE Finish(c)
        BY <3>2, <4>9 DEF Finish, IsOpen, Open
      <4>10. QED
        BY <2>2, <4>2, <4>3, <4>4, <4>5, <4>6, <4>7, <4>8, <4>9
    <3>3. \A o \in Call \ overlapped : IsOpen(o)' => o = c
      BY <3>1 DEF OwnInv, IsOpen
    <3>4. \A a, o \in Call : a # o /\ IsOpen(a)' /\ IsOpen(o)' => a \in overlapped
      BY <3>1 DEF OwnInv, IsOpen
    <3>5. QED BY <3>1, <3>2, <3>3, <3>4 DEF OwnInv
  <2>3. CASE UNCHANGED vars
    BY <2>3 DEF vars, OwnInv, OwnRecord, IsOpen
  <2>4. QED
    BY <2>1, <2>2, <2>3 DEF Next
<1>3. OwnInv => OwnSequence
  BY DEF OwnInv, OwnRecord, OwnSequence, First, IsOpen, Open
<1>4. QED
  BY <1>1, <1>2, <1>3, TypeCorrect, PTL DEF Spec
=============================================================================
