------------------------- MODULE UpdateDeploymentProofs -------------------------
(***************************************************************************)
(* What UpdateDeployment promises, for any calls, parts, settings and      *)
(* configurations.                                                         *)
(***************************************************************************)
EXTENDS UpdateDeployment, TLAPS

LEMMA SettingsMembers ==
  \A f : f \in Settings <=> /\ f \in [Part -> UNION {Whole(p) : p \in Part}]
                            /\ \A p \in Part : f[p] \in [SettingOf[p] -> Value]
BY DEF Settings, Whole

(* Settings that are written over settings are settings.                    *)
Valued(some) ==
  \A p \in Part : \A s \in SettingOf[p] : s \in DOMAIN some[p] => some[p][s] \in Value

LEMMA OverIsSettings ==
  ASSUME NEW some, NEW all \in Settings, Valued(some)
  PROVE  Over(some, all) \in Settings
<1>1. \A p \in Part : Over(some, all)[p] \in [SettingOf[p] -> Value]
  BY SettingsMembers DEF Over, Valued
<1>2. Over(some, all) \in [Part -> UNION {Whole(p) : p \in Part}]
  BY <1>1 DEF Over, Whole
<1>3. QED BY <1>1, <1>2, SettingsMembers

LEMMA ConfigValues ==
  ASSUME NEW c \in Call, NEW p \in Part, ConfigOf[c][p] # None
  PROVE  \A s \in DOMAIN ConfigOf[c][p] : ConfigOf[c][p][s] \in Value
BY ConstantsAssumption DEF Some

LEMMA MergedOfPart ==
  ASSUME NEW c \in Call, NEW p \in Part
  PROVE  Merged(c)[p] = IF ConfigOf[c][p] = None THEN snapshot[c][p] ELSE ConfigOf[c][p]
BY DEF Merged

LEMMA MergedIsValued ==
  ASSUME snapshot \in [Call -> Settings]
  PROVE  \A c \in Call : Valued(Merged(c))
<1> SUFFICES ASSUME NEW c \in Call, NEW p \in Part, NEW s \in SettingOf[p],
                    s \in DOMAIN Merged(c)[p]
             PROVE  Merged(c)[p][s] \in Value
  BY DEF Valued
<1>1. snapshot[c][p][s] \in Value
  BY SettingsMembers
<1>2. QED BY <1>1, MergedOfPart, ConfigValues

LEMMA OutcomesAreSettings ==
  ASSUME snapshot \in [Call -> Settings], live \in Settings
  PROVE  \A c \in Call : Outcomes(c) \subseteq Settings
<1>1. \A c \in Call : Over(Merged(c), live) \in Settings
  BY OverIsSettings, MergedIsValued
<1>2. \A c \in Call : Over(Merged(c), Default) \in Settings
  BY OverIsSettings, MergedIsValued, ConstantsAssumption
<1>3. QED BY <1>1, <1>2 DEF Outcomes

(* Every variable of update_deployment keeps its type; what is read, sent   *)
(* and made are whole settings (deployment.py:495-515).                     *)
THEOREM TypeCorrect == Spec => []TypeOK
<1>1. Init => TypeOK
  <2>1. \A p \in Part : Initial[p] \in Some(p)
    <3>1. \A p \in Part : Initial[p] \in [SettingOf[p] -> Value]
      BY ConstantsAssumption, SettingsMembers
    <3>2. QED BY <3>1 DEF Some
  <2>2. QED BY <2>1, ConstantsAssumption DEF Init, TypeOK, Running, Ended
<1>2. TypeOK /\ [Next]_vars => TypeOK'
  <2> SUFFICES ASSUME TypeOK, [Next]_vars PROVE TypeOK'
    OBVIOUS
  <2> USE DEF TypeOK, Running, Ended, Goto, service, history, LogAndReturn
  <2>1. ASSUME NEW c \in Call, Read(c) PROVE TypeOK'
    <3>1. pending # None => Outcomes(pending) \subseteq Settings
      BY OutcomesAreSettings
    <3>2. QED BY <2>1, <3>1 DEF Read
  <2>2. ASSUME NEW c \in Call, Update(c) \/ ReplyLost(c) PROVE TypeOK'
    <3>1. stale' \subseteq Call \X Part
      BY <2>2 DEF Update, ReplyLost, Accept
    <3>2. QED BY <2>2, <3>1 DEF Update, ReplyLost, Accept
  <2>3. ASSUME NEW c \in Call, Refused(c) \/ PollFails(c) \/ Raise(c) PROVE TypeOK'
    BY <2>3 DEF Refused, PollFails, Raise
  <2>4. ASSUME NEW c \in Call, AwaitUpdate(c) PROVE TypeOK'
    BY <2>4 DEF AwaitUpdate
  <2>5. ASSUME NEW c \in Call, Settle(c) PROVE TypeOK'
    <3>1. live' \in Settings
      BY <2>5, OutcomesAreSettings DEF Settle
    <3>2. \A p \in Part : expected'[p] \in Some(p)
      BY <2>5, ConstantsAssumption DEF Settle
    <3>3. QED BY <2>5, <3>1, <3>2 DEF Settle
  <2>6. CASE DeleteDeployment
    BY <2>6 DEF DeleteDeployment
  <2>7. CASE UNCHANGED vars
    BY <2>7 DEF vars
  <2>8. QED
    BY <2>1, <2>2, <2>3, <2>4, <2>5, <2>6, <2>7 DEF Next
<1>3. QED
  BY <1>1, <1>2, PTL DEF Spec

-----------------------------------------------------------------------------
(* The service works on what a waiting, or ended, call has asked for.       *)
WorkOK(c) ==
  /\ work[c] = "accepted" <=> pending = c
  /\ pc[c] \in {"read", "update"} => work[c] = "none"

WorkInv == \A c \in Call : WorkOK(c)

(* What was asked for, and by which calls (deployment.py:512-523).          *)
THEOREM WorkInvHolds == Spec => []WorkInv
<1>1. Init => WorkInv
  BY ConstantsAssumption DEF Init, WorkInv, WorkOK, Running
<1>2. TypeOK /\ WorkInv /\ [Next]_vars => WorkInv'
  <2> SUFFICES ASSUME TypeOK, WorkInv, [Next]_vars, NEW o \in Call PROVE WorkOK(o)'
    BY DEF WorkInv
  <2>1. WorkOK(o)
    BY DEF WorkInv
  <2> USE <2>1, ConstantsAssumption
      DEF TypeOK, Running, Ended, Goto, service, LogAndReturn, WorkOK
  <2>2. ASSUME NEW c \in Call, Read(c) PROVE WorkOK(o)'
    BY <2>2 DEF Read
  <2>3. ASSUME NEW c \in Call, Update(c) \/ ReplyLost(c) PROVE WorkOK(o)'
    BY <2>3 DEF Update, ReplyLost, Accept
  <2>4. ASSUME NEW c \in Call, Refused(c) \/ PollFails(c) \/ Raise(c) PROVE WorkOK(o)'
    BY <2>4 DEF Refused, PollFails, Raise
  <2>5. ASSUME NEW c \in Call, AwaitUpdate(c) PROVE WorkOK(o)'
    BY <2>5 DEF AwaitUpdate
  <2>6. ASSUME NEW c \in Call, Settle(c) PROVE WorkOK(o)'
    BY <2>6 DEF Settle, WorkInv
  <2>7. CASE DeleteDeployment
    BY <2>7 DEF DeleteDeployment
  <2>8. CASE UNCHANGED vars
    BY <2>8 DEF vars
  <2>9. QED
    BY <2>2, <2>3, <2>4, <2>5, <2>6, <2>7, <2>8 DEF Next
<1>3. QED
  BY <1>1, <1>2, TypeCorrect, PTL DEF Spec

-----------------------------------------------------------------------------
(* What the settings of a call are after others were written over them.     *)
LEMMA OverOfSetting ==
  ASSUME NEW some, NEW all, NEW p \in Part, NEW s \in SettingOf[p]
  PROVE  Over(some, all)[p][s] = IF s \in DOMAIN some[p] THEN some[p][s] ELSE all[p][s]
BY DEF Over

(* The settings change only when the service makes an update, what a call   *)
(* has read only when it reads.                                             *)
Makes(c) ==
  /\ pending = c /\ pending' = None
  /\ live' \in Outcomes(c)
  /\ expected' = [p \in Part |->
       IF ConfigOf[c][p] = None THEN expected[p] ELSE ConfigOf[c][p]]
  /\ snapshot' = snapshot /\ stale' = stale

LEMMA WhatChanges ==
  ASSUME [Next]_vars
  PROVE  /\ \/ live' = live /\ expected' = expected
            \/ \E c \in Call : Makes(c)
         /\ \/ snapshot' = snapshot
            \/ \E c \in Call : Read(c) /\ UNCHANGED <<live, expected, pending, stale>>
<1>1. ASSUME NEW c \in Call, Settle(c)
      PROVE  /\ snapshot' = snapshot
             /\ (live' = live /\ expected' = expected) \/ Makes(c)
  BY <1>1 DEF Settle, Makes
<1>2. ASSUME NEW c \in Call, Read(c)
      PROVE  UNCHANGED <<live, expected, pending, stale>>
  BY <1>2 DEF Read, service, history
<1>3. ASSUME NEW c \in Call,
             \/ Update(c) \/ ReplyLost(c) \/ Refused(c) \/ AwaitUpdate(c)
             \/ PollFails(c) \/ Raise(c)
      PROVE  UNCHANGED <<live, expected, snapshot>>
  BY <1>3 DEF Update, ReplyLost, Refused, AwaitUpdate, PollFails, Raise, Accept,
              service, history
<1>4. DeleteDeployment \/ UNCHANGED vars => UNCHANGED <<live, expected, snapshot>>
  BY DEF DeleteDeployment, vars, service, history
<1>5. QED BY <1>1, <1>2, <1>3, <1>4 DEF Next

-----------------------------------------------------------------------------
(* No call that leaves a part out has sent back an outdated one.            *)
NothingStale(p) == \A c \in Call : <<c, p>> \in stale => ConfigOf[c][p] # None

(* Then the part is as the updates have named it, and what the service      *)
(* works on leaves it so.                                                   *)
LastInv ==
  \A p \in Part : NothingStale(p) =>
    /\ \A s \in DOMAIN expected[p] : live[p][s] = expected[p][s]
    /\ \A c \in Call : pending = c /\ ConfigOf[c][p] = None => snapshot[c][p] = live[p]

(* A part is as the last update that named it was made to have it           *)
(* (deployment.py:495, 508-514).                                            *)
THEOREM SettingsFromLastUpdateHolds == Spec => []SettingsFromLastUpdate
<1>1. Init => LastInv
  BY ConstantsAssumption DEF Init, LastInv
<1>2. TypeOK /\ WorkInv /\ LastInv /\ [Next]_vars => LastInv'
  <2> SUFFICES ASSUME TypeOK, WorkInv, LastInv, [Next]_vars,
                      NEW p \in Part, NothingStale(p)'
               PROVE  /\ \A s \in DOMAIN expected'[p] : live'[p][s] = expected'[p][s]
                      /\ \A c \in Call : pending' = c /\ ConfigOf[c][p] = None
                           => snapshot'[c][p] = live'[p]
    BY DEF LastInv
  <2>1. stale \subseteq stale'
    BY DEF Next, vars, Read, Update, ReplyLost, Refused, AwaitUpdate, PollFails, Raise,
           Settle, DeleteDeployment, Accept, service, history
  <2>2. NothingStale(p)
    BY <2>1 DEF NothingStale
  <2>3. /\ \A s \in DOMAIN expected[p] : live[p][s] = expected[p][s]
        /\ \A c \in Call : pending = c /\ ConfigOf[c][p] = None => snapshot[c][p] = live[p]
    BY <2>2 DEF LastInv
  <2>4. ASSUME NEW s \in DOMAIN expected'[p] PROVE live'[p][s] = expected'[p][s]
    <3>1. CASE live' = live /\ expected' = expected
      BY <2>3, <3>1
    <3>2. CASE \E c \in Call : Makes(c)
      <4>1. PICK c \in Call : Makes(c)
        BY <3>2
      <4>2. PICK base : live' = Over(Merged(c), base)
        BY <4>1 DEF Makes, Outcomes
      <4>3. CASE ConfigOf[c][p] = None
        <5>1. expected'[p] = expected[p] /\ s \in SettingOf[p]
          BY <4>1, <4>3 DEF Makes, TypeOK, Some
        <5>2. snapshot[c][p] = live[p] /\ DOMAIN live[p] = SettingOf[p]
          BY <2>3, <4>1, <4>3, SettingsMembers DEF Makes, TypeOK
        <5>3. live'[p][s] = live[p][s]
          BY <4>2, <4>3, <5>1, <5>2, MergedOfPart, OverOfSetting
        <5>4. QED BY <2>3, <5>1, <5>3
      <4>4. CASE ConfigOf[c][p] # None
        <5>1. expected'[p] = ConfigOf[c][p]
          BY <4>1, <4>4 DEF Makes
        <5>2. s \in SettingOf[p]
          BY <4>4, <5>1, ConstantsAssumption DEF Some
        <5>3. QED BY <4>2, <4>4, <5>1, <5>2, MergedOfPart, OverOfSetting
      <4>5. QED BY <4>3, <4>4
    <3>3. QED BY <3>1, <3>2, WhatChanges
  <2>5. ASSUME NEW c \in Call, pending' = c, ConfigOf[c][p] = None
        PROVE  snapshot'[c][p] = live'[p]
    <3>1. CASE pending = c
      <4>1. live' = live
        BY <2>5, <3>1, WhatChanges, ConstantsAssumption DEF Makes
      <4>2. snapshot'[c] = snapshot[c]
        <5>1. ASSUME NEW o \in Call, Read(o) PROVE o # c
          BY <3>1, <5>1 DEF Read, Goto, WorkInv, WorkOK
        <5>2. ASSUME NEW o \in Call, Read(o) PROVE snapshot'[c] = snapshot[c]
          BY <5>1, <5>2 DEF Read, TypeOK
        <5>3. QED BY <5>2, WhatChanges
      <4>3. QED BY <2>3, <2>5, <3>1, <4>1, <4>2
    <3>2. CASE pending # c
      <4>1. Accept(c) /\ snapshot' = snapshot
        BY <2>5, <3>2, ConstantsAssumption
        DEF Next, vars, Read, Update, ReplyLost, Refused, AwaitUpdate, PollFails,
            Raise, Settle, DeleteDeployment, Accept, service, history
      <4>2. live' = live /\ (snapshot[c][p] # live[p] => <<c, p>> \in stale')
        BY <4>1 DEF Accept
      <4>3. QED BY <2>5, <4>1, <4>2 DEF NothingStale
    <3>3. QED BY <3>1, <3>2
  <2>6. QED BY <2>4, <2>5
<1>3. LastInv => SettingsFromLastUpdate
  BY DEF LastInv, NothingStale, SettingsFromLastUpdate
<1>4. QED
  BY <1>1, <1>2, <1>3, TypeCorrect, WorkInvHolds, PTL DEF Spec
=============================================================================
