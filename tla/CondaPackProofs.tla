---------------------------- MODULE CondaPackProofs ----------------------------
(***************************************************************************)
(* What CondaPack promises, for any calls, processes, directories and      *)
(* names.                                                                  *)
(***************************************************************************)
EXTENDS CondaPack, TLAPS

(* A call's directory and slug are a local path (utils.py:156-157, 261).    *)
LEMMA PathIsLocal ==
  ASSUME arg \in [Call -> Request], NEW c \in Call
  PROVE  Path(c) \in LocalPath
<1>1. arg[c].name \in Name
  BY DEF Request
<1>2. QED BY <1>1 DEF Path, LocalPath

(* Every variable of build_and_publish_conda_pack keeps its type; what is   *)
(* put back into NO_CONTAINER was there before or is "True"                 *)
(* (utils.py:210-226).                                                      *)
THEOREM TypeCorrect == Spec => []TypeOK
<1>1. Init => TypeOK
  BY ConstantsAssumption DEF Init, TypeOK, Running, Ended
<1>2. TypeOK /\ [Next]_vars => TypeOK'
  <2> SUFFICES ASSUME TypeOK, [Next]_vars PROVE TypeOK'
    OBVIOUS
  <2> USE ConstantsAssumption DEF TypeOK, Running, Ended, Goto
  <2>1. ASSUME NEW c \in Call,
               Begin(c) \/ CheckRemote(c) \/ CheckLocal(c) \/ Raise(c)
        PROVE  TypeOK'
    <3>1. /\ UNCHANGED <<arg, saved, env, local, remote>>
          /\ \E to \in Running \cup Ended : pc' = [pc EXCEPT ![c] = to]
      BY <2>1 DEF Begin, CheckRemote, CheckLocal, Raise
    <3>2. pc' \in [Call -> Running \cup Ended \cup {"idle"}]
      BY <3>1
    <3>3. QED BY <3>1, <3>2
  <2>2. ASSUME NEW c \in Call, BeginCreate(c) PROVE TypeOK'
    <3>1. [by |-> c, whole |-> FALSE] \in Pack
      BY DEF Pack
    <3>2. QED BY <2>2, <3>1 DEF BeginCreate
  <2>3. ASSUME NEW c \in Call, EndCreate(c) PROVE TypeOK'
    <3>1. (local[Path(c)].by = c /\ ~BuiltByOther(c)) \in BOOLEAN
      OBVIOUS
    <3>2. PICK w \in BOOLEAN :
            local' = [local EXCEPT ![Path(c)] = [by |-> c, whole |-> w]]
      BY <2>3, <3>1 DEF EndCreate
    <3>3. [by |-> c, whole |-> w] \in Pack
      BY DEF Pack
    <3>4. local' \in [LocalPath -> Pack \cup {NoPack}]
      BY <3>2, <3>3
    <3>5. QED BY <2>3, <3>4 DEF EndCreate
  <2>4. ASSUME NEW c \in Call, SaveOption(c) PROVE TypeOK'
    BY <2>4 DEF SaveOption
  <2>5. ASSUME NEW c \in Call, SetOption(c) PROVE TypeOK'
    BY <2>5 DEF SetOption
  <2>6. ASSUME NEW c \in Call, Publish(c) PROVE TypeOK'
    <3>1. local[Path(c)] \in Pack \cup {NoPack}
      BY PathIsLocal
    <3>2. QED BY <2>6, <3>1 DEF Publish
  <2>7. ASSUME NEW c \in Call, RestoreOption(c) PROVE TypeOK'
    BY <2>7 DEF RestoreOption
  <2>8. CASE UNCHANGED vars
    BY <2>8 DEF vars
  <2>9. QED
    BY <2>1, <2>2, <2>3, <2>4, <2>5, <2>6, <2>7, <2>8 DEF Next, Advance
<1>3. QED
  BY <1>1, <1>2, PTL DEF Spec

-----------------------------------------------------------------------------
(* A single-threaded process runs one call at a time.                       *)
OneAtATime ==
  \A c, o \in Call :
    /\ ProcOf[c] = ProcOf[o] /\ ProcOf[c] \in SingleThreaded
    /\ pc[c] \in Running /\ pc[o] \in Running
    => c = o

EnvSet == {"publish", "restore"}

(* While no call of a process has raised: what a call keeps is what was     *)
(* there before the first, and it is there when no call has set another.    *)
KeptOption(p) ==
  (\A c \in Call : ProcOf[c] = p => pc[c] # "raised") =>
    /\ \A c \in Call : ProcOf[c] = p /\ pc[c] \in {"set"} \cup EnvSet
         => saved[c] = OutsideValue[p]
    /\ (\A c \in Call : ProcOf[c] = p => pc[c] \notin EnvSet)
         => env[p] = OutsideValue[p]

EnvInv ==
  /\ OneAtATime
  /\ \A p \in SingleThreaded : OutsideValue[p] # "" => KeptOption(p)

(* NO_CONTAINER in a process that makes one call at a time                  *)
(* (utils.py:210-226).                                                      *)
THEOREM EnvInvHolds == Spec => []EnvInv
<1>1. Init => EnvInv
  BY ConstantsAssumption
  DEF Init, EnvInv, OneAtATime, KeptOption, EnvSet, Running
<1>2. TypeOK /\ EnvInv /\ [Next]_vars => EnvInv'
  <2> SUFFICES ASSUME TypeOK, EnvInv, [Next]_vars PROVE EnvInv'
    OBVIOUS
  <2> USE ConstantsAssumption DEF TypeOK, Goto, Running, Ended, EnvSet
  <2>1. OneAtATime'
    <3>1. ASSUME NEW c \in Call, Begin(c) PROVE OneAtATime'
      <4>1. /\ pc' = [pc EXCEPT ![c] = "remote"]
            /\ ProcOf[c] \in SingleThreaded =>
                 \A o \in Call : ProcOf[o] = ProcOf[c] => pc[o] \notin Running
        BY <3>1 DEF Begin
      <4>2. ASSUME NEW a \in Call, NEW o \in Call, ProcOf[a] = ProcOf[o],
                   ProcOf[a] \in SingleThreaded,
                   pc'[a] \in Running, pc'[o] \in Running
            PROVE  a = o
        BY <4>1, <4>2 DEF EnvInv, OneAtATime
      <4>3. QED BY <4>2 DEF OneAtATime
    <3>2. ASSUME NEW c \in Call, Advance(c) \/ Raise(c) PROVE OneAtATime'
      <4>1. pc[c] \in Running /\ \E to : pc' = [pc EXCEPT ![c] = to]
        BY <3>2 DEF Advance, Raise, CheckRemote, CheckLocal, BeginCreate, EndCreate,
                    SaveOption, SetOption, Publish, RestoreOption
      <4>2. QED BY <4>1 DEF EnvInv, OneAtATime
    <3>3. CASE UNCHANGED vars
      BY <3>3 DEF vars, EnvInv, OneAtATime
    <3>4. QED BY <3>1, <3>2, <3>3 DEF Next
  <2>2. ASSUME NEW c \in Call,
               \/ Begin(c) \/ CheckRemote(c) \/ CheckLocal(c)
               \/ BeginCreate(c) \/ EndCreate(c) \/ Raise(c)
        PROVE  EnvInv'
    <3>1. /\ UNCHANGED <<saved, env>>
          /\ \A o \in Call :
               /\ pc'[o] \in {"set"} \cup EnvSet => pc'[o] = pc[o]
               /\ pc[o] = "raised" => pc'[o] = "raised"
               /\ pc[o] \in EnvSet /\ pc'[o] # "raised" => pc'[o] = pc[o]
      BY <2>2 DEF Begin, CheckRemote, CheckLocal, BeginCreate, EndCreate, Raise
    <3>2. ASSUME NEW p \in SingleThreaded, KeptOption(p) PROVE KeptOption(p)'
      BY <3>1, <3>2 DEF KeptOption
    <3>3. QED BY <2>1, <3>1, <3>2 DEF EnvInv
  <2>3. ASSUME NEW c \in Call, SaveOption(c) PROVE EnvInv'
    <3>1. ASSUME NEW p \in SingleThreaded, KeptOption(p) PROVE KeptOption(p)'
      <4>1. ProcOf[c] = p => \A o \in Call : ProcOf[o] = p => pc[o] \notin EnvSet
        BY <2>3 DEF SaveOption, EnvInv, OneAtATime
      <4>2. QED BY <2>3, <3>1, <4>1 DEF SaveOption, KeptOption
    <3>2. QED BY <2>1, <2>3, <3>1 DEF SaveOption, EnvInv
  <2>4. ASSUME NEW c \in Call, SetOption(c) PROVE EnvInv'
    <3>1. ASSUME NEW p \in SingleThreaded, KeptOption(p) PROVE KeptOption(p)'
      BY <2>4, <3>1 DEF SetOption, KeptOption
    <3>2. QED BY <2>1, <3>1 DEF EnvInv
  <2>5. ASSUME NEW c \in Call, Publish(c) PROVE EnvInv'
    <3>1. ASSUME NEW p \in SingleThreaded, KeptOption(p) PROVE KeptOption(p)'
      BY <2>5, <3>1 DEF Publish, KeptOption
    <3>2. QED BY <2>1, <2>5, <3>1 DEF Publish, EnvInv
  <2>6. ASSUME NEW c \in Call, RestoreOption(c) PROVE EnvInv'
    <3>1. ASSUME NEW p \in SingleThreaded, KeptOption(p), OutsideValue[p] # ""
          PROVE  KeptOption(p)'
      <4>1. CASE ProcOf[c] = p
        <5>1. \A o \in Call : ProcOf[o] = p /\ pc[o] \in Running => o = c
          BY <2>6, <4>1 DEF RestoreOption, EnvInv, OneAtATime
        <5>2. QED BY <2>6, <3>1, <4>1, <5>1 DEF RestoreOption, KeptOption
      <4>2. CASE ProcOf[c] # p
        BY <2>6, <3>1, <4>2 DEF RestoreOption, KeptOption
      <4>3. QED BY <4>1, <4>2
    <3>2. QED BY <2>1, <3>1 DEF EnvInv
  <2>7. CASE UNCHANGED vars
    <3>1. ASSUME NEW p \in SingleThreaded, KeptOption(p) PROVE KeptOption(p)'
      BY <2>7, <3>1 DEF vars, KeptOption
    <3>2. QED BY <2>1, <2>7, <3>1 DEF vars, EnvInv
  <2>8. QED
    BY <2>2, <2>3, <2>4, <2>5, <2>6, <2>7 DEF Next, Advance
<1>3. QED
  BY <1>1, <1>2, TypeCorrect, PTL DEF Spec

(* NO_CONTAINER is what it was when every call of its process has returned  *)
(* (utils.py:223-226).                                                      *)
THEOREM EnvironmentRestoredHolds == Spec => []EnvironmentRestored
<1>1. EnvInv => EnvironmentRestored
  BY DEF EnvInv, EnvironmentRestored, KeptOption, EnvSet
<1>2. QED BY <1>1, EnvInvHolds, PTL

-----------------------------------------------------------------------------
(* What a call is asked for does not change, nor what follows from it.      *)
LEMMA NamesStay ==
  ASSUME arg' = arg
  PROVE  \A c \in Call : /\ Path(c)' = Path(c) /\ Uri(c)' = Uri(c)
                         /\ InSequence(c)' <=> InSequence(c)
<1>1. \A c \in Call : Path(c)' = Path(c) /\ Uri(c)' = Uri(c)
  BY DEF Path, Uri
<1>2. QED BY <1>1, Zenon DEF InSequence, Meet, MayOverlap

LEMMA ArgStays == [Next]_vars => arg' = arg
BY DEF Next, Advance, vars, Begin, CheckRemote, CheckLocal, BeginCreate, EndCreate,
       SaveOption, SetOption, Publish, RestoreOption, Raise

(* A local directory holds a pack of a call that uses it, and a call that   *)
(* goes to publish has one there.                                           *)
LocalInv ==
  /\ \A l \in LocalPath : local[l] # NoPack => Path(local[l].by) = l
  /\ \A c \in Call :
       pc[c] \in {"creating", "save", "set", "publish"} => local[Path(c)] # NoPack

(* A call that found or published a pack at its URI has one there, if all   *)
(* calls with its local directory mean the same pack.                       *)
AtUri(c) ==
  (\A o \in Call : Path(o) = Path(c) => Uri(o) = Uri(c)) =>
    (pc[c] \in {"restore", "returned"} => remote[Uri(c)] # NoPack)

PackInv == LocalInv /\ \A c \in Call : AtUri(c)

(* Packs are where the calls that use them look (utils.py:255-282).         *)
THEOREM PackInvHolds == Spec => []PackInv
<1>1. Init => PackInv
  BY ConstantsAssumption DEF Init, PackInv, LocalInv, AtUri
<1>2. TypeOK /\ PackInv /\ [Next]_vars => PackInv'
  <2> SUFFICES ASSUME TypeOK, PackInv, [Next]_vars PROVE PackInv'
    OBVIOUS
  <2>1. \A c \in Call : /\ Path(c) \in LocalPath /\ Path(c)' = Path(c)
                        /\ Uri(c) \in Name \X BOOLEAN /\ Uri(c)' = Uri(c)
    <3>1. \A c \in Call : Uri(c) \in Name \X BOOLEAN
      BY DEF TypeOK, Uri, Request
    <3>2. QED BY <3>1, PathIsLocal, ArgStays, NamesStay DEF TypeOK
  <2>2. \A p \in Pack : p # NoPack /\ p.by \in Call
    BY ConstantsAssumption DEF Pack
  <2> USE <2>1, <2>2 DEF TypeOK, Goto, Running, Ended
  <2>3. ASSUME NEW c \in Call,
               \/ Begin(c) \/ CheckRemote(c) \/ CheckLocal(c) \/ Raise(c)
               \/ SaveOption(c) \/ SetOption(c) \/ RestoreOption(c)
        PROVE  PackInv'
    <3>1. UNCHANGED <<local, remote>>
      BY <2>3 DEF Begin, CheckRemote, CheckLocal, Raise, SaveOption, SetOption,
                  RestoreOption
    <3>2. \A o \in Call : /\ pc'[o] \in {"creating", "save", "set", "publish"}
                               => pc[o] \in {"creating", "save", "set", "publish"}
                                  \/ local[Path(o)] # NoPack
                          /\ pc'[o] \in {"restore", "returned"}
                               => pc[o] \in {"restore", "returned"}
                                  \/ remote[Uri(o)] # NoPack
      BY <2>3 DEF Begin, CheckRemote, CheckLocal, Raise, SaveOption, SetOption,
                  RestoreOption
    <3>3. LocalInv'
      BY <3>1, <3>2 DEF PackInv, LocalInv
    <3>4. ASSUME NEW o \in Call PROVE AtUri(o)'
      BY <3>1, <3>2 DEF PackInv, AtUri
    <3>5. QED BY <3>3, <3>4 DEF PackInv
  <2>4. ASSUME NEW c \in Call, BeginCreate(c) \/ EndCreate(c) PROVE PackInv'
    <3>1. PICK w \in BOOLEAN :
            local' = [local EXCEPT ![Path(c)] = [by |-> c, whole |-> w]]
      <4>1. (local[Path(c)].by = c /\ ~BuiltByOther(c)) \in BOOLEAN
        OBVIOUS
      <4>2. QED BY <2>4, <4>1 DEF BeginCreate, EndCreate
    <3>2. [by |-> c, whole |-> w] \in Pack
      BY DEF Pack
    <3>3. LocalInv'
      BY <2>4, <3>1, <3>2 DEF PackInv, LocalInv, BeginCreate, EndCreate
    <3>4. ASSUME NEW o \in Call PROVE AtUri(o)'
      BY <2>4 DEF PackInv, AtUri, BeginCreate, EndCreate
    <3>5. QED BY <3>3, <3>4 DEF PackInv
  <2>5. ASSUME NEW c \in Call, Publish(c) PROVE PackInv'
    <3> DEFINE p == local[Path(c)]
    <3>1. p \in Pack /\ Path(p.by) = Path(c)
      BY <2>5 DEF Publish, PackInv, LocalInv
    <3>2. remote' = [remote EXCEPT ![Uri(p.by)] = p]
      BY <2>5 DEF Publish
    <3>3. LocalInv'
      BY <2>5 DEF PackInv, LocalInv, Publish
    <3>4. ASSUME NEW o \in Call PROVE AtUri(o)'
      <4>1. remote[Uri(o)] # NoPack => remote'[Uri(o)] # NoPack
        BY <3>1, <3>2
      <4>2. o = c /\ (\A q \in Call : Path(q) = Path(o) => Uri(q) = Uri(o))
              => remote'[Uri(o)] # NoPack
        BY <3>1, <3>2
      <4>3. o # c => pc'[o] = pc[o]
        BY <2>5 DEF Publish
      <4>4. QED BY <4>1, <4>2, <4>3 DEF PackInv, AtUri
    <3>5. QED BY <3>3, <3>4 DEF PackInv
  <2>6. CASE UNCHANGED vars
    BY <2>6 DEF vars, PackInv, LocalInv, AtUri
  <2>7. QED
    BY <2>3, <2>4, <2>5, <2>6 DEF Next, Advance
<1>3. QED
  BY <1>1, <1>2, TypeCorrect, PTL DEF Spec

(* A call returns a URI with a pack, if every call that uses its local      *)
(* directory means the same pack (utils.py:228, 272).                       *)
THEOREM ReturnedPackExistsHolds == Spec => []ReturnedPackExists
<1>1. PackInv => ReturnedPackExists
  BY DEF PackInv, AtUri, ReturnedPackExists
<1>2. QED BY <1>1, PackInvHolds, PTL

-----------------------------------------------------------------------------
(* Two calls that may not overlap are not running both.                     *)
LEMMA NoneMeanwhile ==
  ASSUME OneAtATime, NEW c \in Call, NEW o \in Call, o # c, ~MayOverlap(c, o),
         pc[c] \in Running
  PROVE  pc[o] \notin Running
BY DEF OneAtATime, MayOverlap

(* No two calls that meet run at the same time, if one of them is in        *)
(* sequence with all that it meets.                                         *)
LEMMA NoneMeetsMeanwhile ==
  ASSUME OneAtATime, NEW c \in Call, NEW o \in Call, InSequence(c), o # c,
         pc[c] \in Running, pc[o] \in Running
  PROVE  ~Meet(c, o) /\ Path(o) # Path(c)
BY NoneMeanwhile DEF InSequence, Meet

Torn(c) == [by |-> c, whole |-> FALSE]
Complete(c) == [by |-> c, whole |-> TRUE]

LEMMA TornIsPack ==
  ASSUME NEW c \in Call
  PROVE  Torn(c) \in Pack /\ Torn(c) # NoPack /\ Torn(c).by = c
<1>1. Torn(c) \in Pack
  BY DEF Torn, Pack
<1>2. Torn(c).by = c
  BY DEF Torn
<1>3. QED BY <1>1, <1>2, ConstantsAssumption

(* An undisturbed call builds alone, and an incomplete pack of it is not    *)
(* seen anywhere unless it raised.                                          *)
TornOK(c) ==
  /\ pc[c] = "creating" => local[Path(c)].by = c
  /\ \A l \in LocalPath : local[l] = Torn(c) => pc[c] \in {"creating", "raised"}
  /\ \A u \in Name \X BOOLEAN : remote[u] = Torn(c) => pc[c] = "raised"

TornInv == \A c \in Call : Undisturbed(c) => TornOK(c)

(* A call that has been disturbed stays so, and the call that disturbs is   *)
(* past the look for a pack.                                                *)
LEMMA DisturbedStays ==
  ASSUME TypeOK, [Next]_vars, NEW c \in Call, Undisturbed(c)'
  PROVE  Undisturbed(c)
<1>1. ASSUME NEW o \in Call, pc'[o] \in {"idle", "remote", "local"}
      PROVE  pc[o] \in {"idle", "remote", "local"}
  BY <1>1 DEF TypeOK, Next, Advance, vars, Goto, Running, Begin, CheckRemote,
      CheckLocal, BeginCreate, EndCreate, SaveOption, SetOption, Publish,
      RestoreOption, Raise
<1>2. \A o \in Call : Path(o)' = Path(o)
  BY ArgStays, NamesStay
<1>3. QED BY <1>1, <1>2 DEF Undisturbed, MayOverlap

(* A call past the look, in the directory of one that nobody disturbs, does *)
(* not run at the same time as it.                                          *)
LEMMA AloneInDirectory ==
  ASSUME OneAtATime, NEW o \in Call, NEW c \in Call, c # o, Undisturbed(o),
         Path(c) = Path(o), pc[c] \in Running, pc[c] \notin {"remote", "local"}
  PROVE  pc[o] \notin Running
<1>1. ~MayOverlap(o, c)
  BY DEF Undisturbed, Running
<1>2. QED BY <1>1, NoneMeanwhile

(* What a call that others do not disturb leaves behind (utils.py:261-272). *)
THEOREM TornInvHolds == Spec => []TornInv
<1>1. Init => TornInv
  BY TornIsPack DEF Init, TornInv, TornOK
<1>2. TypeOK /\ EnvInv /\ PackInv /\ TornInv /\ [Next]_vars => TornInv'
  <2> SUFFICES ASSUME TypeOK, EnvInv, PackInv, TornInv, [Next]_vars,
                      NEW o \in Call, Undisturbed(o)'
               PROVE  TornOK(o)'
    BY DEF TornInv
  <2>1. arg' = arg /\ TornOK(o) /\ Undisturbed(o)
    BY ArgStays, DisturbedStays DEF TornInv
  <2>2. \A c \in Call : Path(c) \in LocalPath /\ Path(c)' = Path(c)
    BY <2>1, PathIsLocal, NamesStay DEF TypeOK
  <2> USE <2>1, <2>2 DEF TypeOK, Goto, Running, Ended
  <2>3. ASSUME NEW c \in Call,
               \/ Begin(c) \/ CheckRemote(c) \/ CheckLocal(c) \/ Raise(c)
               \/ SaveOption(c) \/ SetOption(c) \/ RestoreOption(c)
        PROVE  TornOK(o)'
    <3>1. /\ pc'[o] = "creating" => pc[o] = "creating"
          /\ pc[o] \in {"creating", "raised"} => pc'[o] \in {"creating", "raised"}
          /\ pc[o] = "raised" => pc'[o] = "raised"
      BY <2>3 DEF Begin, CheckRemote, CheckLocal, Raise, SaveOption, SetOption,
                  RestoreOption
    <3>2. UNCHANGED <<local, remote>>
      BY <2>3 DEF Begin, CheckRemote, CheckLocal, Raise, SaveOption, SetOption,
                  RestoreOption
    <3>3. QED BY <3>1, <3>2 DEF TornOK
  <2>4. ASSUME NEW c \in Call, BeginCreate(c) PROVE TornOK(o)'
    <3>1. /\ pc[c] = "create" /\ pc' = [pc EXCEPT ![c] = "creating"]
          /\ local' = [local EXCEPT ![Path(c)] = Torn(c)] /\ remote' = remote
      BY <2>4 DEF BeginCreate, Torn
    <3>2. CASE o = c
      BY <3>1, <3>2 DEF TornOK, Torn
    <3>3. CASE o # c
      <4>1. Path(c) = Path(o) => pc[o] \notin Running
        BY <3>1, <3>3, AloneInDirectory DEF EnvInv
      <4>2. Torn(c) # Torn(o)
        BY <3>3 DEF Torn
      <4>3. QED BY <3>1, <3>3, <4>1, <4>2 DEF TornOK
    <3>4. QED BY <3>2, <3>3
  <2>5. ASSUME NEW c \in Call, EndCreate(c) PROVE TornOK(o)'
    <3>1. /\ pc[c] = "creating" /\ pc' = [pc EXCEPT ![c] = "save"] /\ remote' = remote
      BY <2>5 DEF EndCreate
    <3>2. CASE o = c
      <4>1. local[Path(c)].by = c
        BY <3>1, <3>2 DEF TornOK
      <4>2. ~BuiltByOther(c)
        <5>1. ASSUME NEW q \in Call \ {c}, pc[q] = "creating" PROVE Path(q) # Path(c)
          BY <3>1, <3>2, <5>1, AloneInDirectory DEF EnvInv
        <5>2. QED BY <5>1 DEF BuiltByOther
      <4>3. local' = [local EXCEPT ![Path(c)] = Complete(c)]
        BY <2>5, <4>1, <4>2, Zenon DEF EndCreate, Complete
      <4>4. Complete(c) # Torn(c)
        BY DEF Complete, Torn
      <4>5. \A l \in LocalPath : local'[l] # Torn(c)
        <5>1. ASSUME NEW l \in LocalPath, local[l] = Torn(c) PROVE l = Path(c)
          BY <5>1, TornIsPack DEF PackInv, LocalInv
        <5>2. QED BY <4>3, <4>4, <5>1
      <4>6. QED BY <3>1, <3>2, <4>3, <4>5 DEF TornOK
    <3>3. CASE o # c
      <4>1. PICK p : local' = [local EXCEPT ![Path(c)] = p] /\ p # Torn(o)
        <5>1. (local[Path(c)].by = c /\ ~BuiltByOther(c)) \in BOOLEAN
          OBVIOUS
        <5>2. PICK w \in BOOLEAN :
                local' = [local EXCEPT ![Path(c)] = [by |-> c, whole |-> w]]
          BY <2>5, <5>1 DEF EndCreate
        <5>3. [by |-> c, whole |-> w] # Torn(o)
          BY <3>3 DEF Torn
        <5>4. QED BY <5>2, <5>3
      <4>2. Path(c) = Path(o) => pc[o] \notin Running
        BY <3>1, <3>3, AloneInDirectory DEF EnvInv
      <4>3. QED BY <3>1, <3>3, <4>1, <4>2 DEF TornOK
    <3>4. QED BY <3>2, <3>3
  <2>6. ASSUME NEW c \in Call, Publish(c) PROVE TornOK(o)'
    <3> DEFINE p == local[Path(c)]
    <3>1. /\ pc[c] = "publish" /\ pc' = [pc EXCEPT ![c] = "restore"] /\ local' = local
          /\ remote' = [remote EXCEPT ![Uri(p.by)] = p]
      BY <2>6 DEF Publish
    <3>2. p.by \in Call /\ Path(p.by) = Path(c)
      BY <3>1 DEF PackInv, LocalInv, Pack
    <3>3. p = Torn(o) => pc[o] = "raised"
      <4>1. p = Torn(o) => pc[o] \in {"creating", "raised"} /\ o # c
        BY <3>1 DEF TornOK
      <4>2. p = Torn(o) => Path(c) = Path(o)
        BY <3>2, TornIsPack
      <4>3. QED BY <3>1, <4>1, <4>2, AloneInDirectory DEF EnvInv
    <3>4. pc[o] # "creating" => pc'[o] # "creating"
      BY <3>1
    <3>5. \A u \in Name \X BOOLEAN : remote'[u] = Torn(o) => pc[o] = "raised"
      BY <3>1, <3>3 DEF TornOK
    <3>6. QED BY <3>1, <3>4, <3>5 DEF TornOK
  <2>7. CASE UNCHANGED vars
    BY <2>7 DEF vars, TornOK
  <2>8. QED
    BY <2>3, <2>4, <2>5, <2>6, <2>7 DEF Next, Advance
<1>3. QED
  BY <1>1, <1>2, TypeCorrect, EnvInvHolds, PackInvHolds, PTL DEF Spec

(* An incomplete pack in object storage comes from a call that raised or    *)
(* from one that another process or thread has disturbed (utils.py:261-272).*)
THEOREM PartialPackHolds == Spec => []PartialPackHasCause
<1>1. TypeOK /\ TornInv => PartialPackHasCause
  <2> SUFFICES ASSUME TypeOK, TornInv, NEW u \in Name \X BOOLEAN,
                      remote[u] # NoPack, ~remote[u].whole,
                      Undisturbed(remote[u].by)
               PROVE  pc[remote[u].by] = "raised"
    BY DEF PartialPackHasCause
  <2>1. remote[u] \in Pack
    BY DEF TypeOK
  <2>2. remote[u].by \in Call /\ remote[u] = Torn(remote[u].by)
    BY <2>1 DEF Pack, Torn
  <2>3. TornOK(remote[u].by)
    BY <2>2 DEF TornInv
  <2>4. QED BY <2>2, <2>3 DEF TornOK
<1>2. QED BY <1>1, TypeCorrect, TornInvHolds, PTL

-----------------------------------------------------------------------------
(* What a call with overwrite has built is what it publishes, if all that   *)
(* it meets are in sequence with it.                                        *)
SequenceOK(c) ==
  arg[c].overwrite =>
    /\ pc[c] \in {"save", "set", "publish"} => local[Path(c)] = Complete(c)
    /\ pc[c] = "restore" => remote[Uri(c)] = Complete(c)

SequenceInv == \A c \in Call : InSequence(c) => SequenceOK(c)

(* What a call that others do not interfere with builds and publishes       *)
(* (utils.py:261-282).                                                      *)
THEOREM SequenceInvHolds == Spec => []SequenceInv
<1>1. Init => SequenceInv
  BY DEF Init, SequenceInv, SequenceOK
<1>2. TypeOK /\ EnvInv /\ PackInv /\ TornInv /\ SequenceInv /\ [Next]_vars
        => SequenceInv'
  <2> SUFFICES ASSUME TypeOK, EnvInv, PackInv, TornInv, SequenceInv, [Next]_vars,
                      NEW o \in Call, InSequence(o)
               PROVE  SequenceOK(o)'
    BY ArgStays, NamesStay DEF SequenceInv
  <2>1. arg' = arg /\ SequenceOK(o) /\ TornOK(o)
    <3>1. Undisturbed(o)
      BY DEF InSequence, Meet, Undisturbed
    <3>2. QED BY <3>1, ArgStays DEF SequenceInv, TornInv
  <2>2. \A c \in Call : /\ Path(c) \in LocalPath /\ Path(c)' = Path(c)
                        /\ Uri(c) \in Name \X BOOLEAN /\ Uri(c)' = Uri(c)
    <3>1. \A c \in Call : Uri(c) \in Name \X BOOLEAN
      BY DEF TypeOK, Uri, Request
    <3>2. QED BY <2>1, <3>1, PathIsLocal, NamesStay DEF TypeOK
  <2> USE <2>1, <2>2 DEF TypeOK, Goto, Running, Ended
  <2>3. ASSUME NEW c \in Call,
               \/ Begin(c) \/ CheckRemote(c) \/ Raise(c)
               \/ SaveOption(c) \/ SetOption(c) \/ RestoreOption(c)
        PROVE  SequenceOK(o)'
    <3>1. /\ pc'[o] \in {"save", "set", "publish"} => pc[o] \in {"save", "set", "publish"}
          /\ pc'[o] = "restore" => pc[o] = "restore"
      BY <2>3 DEF Begin, CheckRemote, Raise, SaveOption, SetOption, RestoreOption
    <3>2. UNCHANGED <<local, remote>>
      BY <2>3 DEF Begin, CheckRemote, Raise, SaveOption, SetOption, RestoreOption
    <3>3. QED BY <3>1, <3>2 DEF SequenceOK
  <2>4. ASSUME NEW c \in Call, CheckLocal(c) PROVE SequenceOK(o)'
    <3>1. arg[o].overwrite /\ o = c => pc'[o] = "create"
      BY <2>4 DEF CheckLocal
    <3>2. UNCHANGED <<local, remote>> /\ pc[c] = "local"
          /\ \E to \in {"save", "create"} : pc' = [pc EXCEPT ![c] = to]
      BY <2>4 DEF CheckLocal
    <3>3. QED BY <3>1, <3>2 DEF SequenceOK
  <2>5. ASSUME NEW c \in Call, BeginCreate(c) PROVE SequenceOK(o)'
    <3>1. /\ pc[c] = "create" /\ pc' = [pc EXCEPT ![c] = "creating"]
          /\ local' = [local EXCEPT ![Path(c)] = Torn(c)] /\ remote' = remote
      BY <2>5 DEF BeginCreate, Torn
    <3>2. o # c /\ Path(c) = Path(o) => pc[o] \notin Running
      BY <3>1, NoneMeetsMeanwhile DEF EnvInv
    <3>3. QED BY <3>1, <3>2 DEF SequenceOK
  <2>6. ASSUME NEW c \in Call, EndCreate(c) PROVE SequenceOK(o)'
    <3>1. /\ pc[c] = "creating" /\ pc' = [pc EXCEPT ![c] = "save"] /\ remote' = remote
      BY <2>6 DEF EndCreate
    <3>2. CASE o = c
      <4>1. local[Path(c)].by = c
        BY <3>1, <3>2 DEF TornOK
      <4>2. ~BuiltByOther(c)
        <5>1. ASSUME NEW q \in Call \ {c}, pc[q] = "creating" PROVE Path(q) # Path(c)
          BY <3>1, <3>2, <5>1, NoneMeetsMeanwhile DEF EnvInv
        <5>2. QED BY <5>1 DEF BuiltByOther
      <4>3. local' = [local EXCEPT ![Path(c)] = Complete(c)]
        BY <2>6, <4>1, <4>2, Zenon DEF EndCreate, Complete
      <4>4. QED BY <3>1, <3>2, <4>3 DEF SequenceOK
    <3>3. CASE o # c
      <4>1. PICK p : local' = [local EXCEPT ![Path(c)] = p]
        BY <2>6 DEF EndCreate
      <4>2. Path(c) = Path(o) => pc[o] \notin Running
        BY <3>1, <3>3, NoneMeetsMeanwhile DEF EnvInv
      <4>3. QED BY <3>1, <3>3, <4>1, <4>2 DEF SequenceOK
    <3>4. QED BY <3>2, <3>3
  <2>7. ASSUME NEW c \in Call, Publish(c) PROVE SequenceOK(o)'
    <3> DEFINE p == local[Path(c)]
    <3>1. /\ pc[c] = "publish" /\ pc' = [pc EXCEPT ![c] = "restore"] /\ local' = local
          /\ remote' = [remote EXCEPT ![Uri(p.by)] = p]
      BY <2>7 DEF Publish
    <3>2. p.by \in Call /\ Path(p.by) = Path(c)
      BY <3>1 DEF PackInv, LocalInv, Pack
    <3>3. CASE o = c
      <4>1. arg[o].overwrite => p = Complete(c) /\ p.by = c
        BY <3>1, <3>3 DEF SequenceOK, Complete
      <4>2. QED BY <3>1, <3>2, <3>3, <4>1 DEF SequenceOK
    <3>4. CASE o # c
      <4>1. pc[o] = "restore" => Uri(p.by) # Uri(o)
        <5>1. Uri(p.by) = Uri(o) => Meet(o, c)
          BY <3>2 DEF Meet
        <5>2. QED BY <3>1, <3>4, <5>1, NoneMeetsMeanwhile DEF EnvInv
      <4>2. QED BY <3>1, <3>4, <4>1 DEF SequenceOK
    <3>5. QED BY <3>3, <3>4
  <2>8. CASE UNCHANGED vars
    BY <2>8 DEF vars, SequenceOK
  <2>9. QED
    BY <2>3, <2>4, <2>5, <2>6, <2>7, <2>8 DEF Next, Advance
<1>3. QED
  BY <1>1, <1>2, TypeCorrect, EnvInvHolds, PackInvHolds, TornInvHolds, PTL DEF Spec

(* A call with overwrite returns with its own complete pack at its URI      *)
(* (utils.py:242).                                                          *)
THEOREM OverwritePublishesOwnPackHolds == Spec => OverwritePublishesOwnPack
<1>1. TypeOK /\ SequenceInv /\ [Next]_vars
        => [\A c \in Call :
              arg[c].overwrite /\ InSequence(c) /\ pc[c] # "returned"
                /\ pc'[c] = "returned"
              => remote'[Uri(c)] = [by |-> c, whole |-> TRUE]]_vars
  <2> SUFFICES ASSUME TypeOK, SequenceInv, Next, NEW c \in Call,
                      arg[c].overwrite, InSequence(c),
                      pc[c] # "returned", pc'[c] = "returned"
               PROVE  remote'[Uri(c)] = [by |-> c, whole |-> TRUE]
    OBVIOUS
  <2>1. RestoreOption(c)
    <3>1. ASSUME NEW o \in Call, Advance(o) PROVE RestoreOption(c)
      <4>1. o = c
        <5>1. \E to : pc' = [pc EXCEPT ![o] = to]
          BY <3>1 DEF Goto, Advance, CheckRemote, CheckLocal, BeginCreate,
                      EndCreate, SaveOption, SetOption, Publish, RestoreOption
        <5>2. QED BY <5>1 DEF TypeOK
      <4>2. ~CheckRemote(c) /\ ~CheckLocal(c)
        BY DEF TypeOK, Goto, CheckRemote, CheckLocal
      <4>3. QED
        BY <3>1, <4>1, <4>2 DEF TypeOK, Goto, Advance, BeginCreate, EndCreate,
                                SaveOption, SetOption, Publish
    <3>2. ASSUME NEW o \in Call PROVE ~Begin(o) /\ ~Raise(o)
      BY DEF TypeOK, Goto, Begin, Raise
    <3>3. QED BY <3>1, <3>2 DEF Next
  <2>2. pc[c] = "restore" /\ remote' = remote
    BY <2>1 DEF RestoreOption, Goto
  <2>3. QED BY <2>2 DEF SequenceInv, SequenceOK, Complete
<1>2. QED
  BY <1>1, TypeCorrect, SequenceInvHolds, PTL DEF Spec, OverwritePublishesOwnPack
=============================================================================
