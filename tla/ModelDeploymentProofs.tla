------------------------- MODULE ModelDeploymentProofs -------------------------
(***************************************************************************)
(* Theorems about ModelDeployment, for any set of calls, versions and      *)
(* directories.                                                            *)
(***************************************************************************)
EXTENDS ModelDeployment, TLAPS

(* Type correctness: every step of create_deployment, of the service and of *)
(* the registry keeps every variable in its type.                           *)
THEOREM TypeCorrect == Spec => []TypeOK
<1>1. Init => TypeOK
  BY ConstantsAssumption DEF Init, TypeOK, Running, Ended
<1>2. TypeOK /\ [Next]_vars => TypeOK'
  <2> SUFFICES ASSUME TypeOK, [Next]_vars PROVE TypeOK'
    OBVIOUS
  <2> USE DEF TypeOK, Running, Ended, Goto, local, service, registry
  <2>1. ASSUME NEW c \in Call, Begin(c) PROVE TypeOK'
    <3>1. PICK u \in UriOf[c] : uri' = [uri EXCEPT ![c] = u]
      BY <2>1 DEF Begin
    <3>2. u \in Uri
      BY <3>1, ConstantsAssumption
    <3>3. pc' \in [Call -> Running \cup Ended \cup {"idle"}]
      BY <2>1 DEF Begin
    <3>4. uri' \in [Call -> Uri \cup {None}]
      BY <3>1, <3>2
    <3>5. QED BY <2>1, <3>3, <3>4 DEF Begin
  <2>2. ASSUME NEW c \in Call, ResolveVersion(c) PROVE TypeOK'
    BY <2>2 DEF ResolveVersion, Denoted, Uri
  <2>3. ASSUME NEW c \in Call, DownloadArtifact(c) PROVE TypeOK'
    BY <2>3 DEF DownloadArtifact, Denoted, Uri
  <2>4. ASSUME NEW c \in Call, PrepareEnvironment(c) PROVE TypeOK'
    BY <2>4 DEF PrepareEnvironment
  <2>5. ASSUME NEW c \in Call, OpenArchive(c) PROVE TypeOK'
    <3>1. {c} \cup {o \in Call : pc[o] = "zip" /\ ArchivePath(o) = ArchivePath(c)}
            \in SUBSET Call
      OBVIOUS
    <3>2. archive' \in [Cwd \X Version -> SUBSET Call]
      BY <2>5, <3>1 DEF OpenArchive
    <3>3. pc' \in [Call -> Running \cup Ended \cup {"idle"}]
      BY <2>5 DEF OpenArchive
    <3>4. QED BY <2>5, <3>2, <3>3 DEF OpenArchive
  <2>6. ASSUME NEW c \in Call, CloseArchive(c) PROVE TypeOK'
    BY <2>6 DEF CloseArchive
  <2>7. ASSUME NEW c \in Call, CreateModel(c) PROVE TypeOK'
    <3>1. ArchiveContent(c) \in Call \cup {None, Torn}
      <4>1. CASE \E o \in Call : archive[ArchivePath(c)] = {o} /\ pc[o] # "zip"
        <5>1. (CHOOSE o \in Call : archive[ArchivePath(c)] = {o}) \in Call
          BY <4>1
        <5>2. QED BY <4>1, <5>1 DEF ArchiveContent
      <4>2. CASE ~ \E o \in Call : archive[ArchivePath(c)] = {o} /\ pc[o] # "zip"
        BY <4>2 DEF ArchiveContent
      <4>3. QED BY <4>1, <4>2
    <3>2. catalog' \in [Call -> [state : {"none", "live", "deleted"},
                                 artifact : Call \cup {None, Torn}]]
      BY <2>7, <3>1 DEF CreateModel
    <3>3. pc' \in [Call -> Running \cup Ended \cup {"idle"}]
      BY <2>7 DEF CreateModel
    <3>4. QED BY <2>7, <3>2, <3>3 DEF CreateModel
  <2>8. ASSUME NEW c \in Call, SetModelTag(c) PROVE TypeOK'
    BY <2>8 DEF SetModelTag
  <2>9. ASSUME NEW c \in Call, Deploy(c) PROVE TypeOK'
    <3>1. pc' \in [Call -> Running \cup Ended \cup {"idle"}]
      <4>1. \E to \in {"rollback", "wait", "tagDeployment"} : 
              pc' = [pc EXCEPT ![c] = to]
        BY <2>9 DEF Deploy
      <4>2. QED BY <4>1
    <3>2. md' \in [Call -> Call \cup {None, Unnamed}]
      BY <2>9 DEF Deploy
    <3>3. /\ deployment' \in
              [Call -> {"none", "creating", "active", "failed", "deleted"}]
          /\ abandoned' \subseteq Call
      BY <2>9 DEF Deploy
    <3>4. QED BY <2>9, <3>1, <3>2, <3>3 DEF Deploy
  <2>10. ASSUME NEW c \in Call, AwaitDeployment(c) PROVE TypeOK'
    <3>1. pc' \in [Call -> Running \cup Ended \cup {"idle"}]
      <4>1. \E to \in {"rollback", "tagDeployment"} : pc' = [pc EXCEPT ![c] = to]
        BY <2>10 DEF AwaitDeployment, DeployRaises
      <4>2. QED BY <4>1
    <3>2. md' \in [Call -> Call \cup {None, Unnamed}]
      <4>1. \E m \in {md[c], c, Unnamed} : md' = [md EXCEPT ![c] = m]
        BY <2>10 DEF AwaitDeployment, DeployRaises
      <4>2. md[c] \in Call \cup {None, Unnamed}
        OBVIOUS
      <4>3. QED BY <4>1, <4>2
    <3>3. UNCHANGED <<uri, version, download, archive, service, registry>>
      BY <2>10 DEF AwaitDeployment, DeployRaises
    <3>4. QED BY <3>1, <3>2, <3>3
  <2>11. ASSUME NEW c \in Call, RollBack(c) PROVE TypeOK'
    <3>1. \E to \in {"returned", "raised", "tagDeployment"} : pc' = [pc EXCEPT ![c] = to]
      BY <2>11 DEF RollBack
    <3>2. pc' \in [Call -> Running \cup Ended \cup {"idle"}]
      BY <3>1
    <3>3. QED BY <2>11, <3>2 DEF RollBack
  <2>12. ASSUME NEW c \in Call, SetDeploymentTag(c) PROVE TypeOK'
    BY <2>12 DEF SetDeploymentTag
  <2>13. ASSUME NEW c \in Call, SetEndpointTag(c) PROVE TypeOK'
    <3>1. \E to \in {"returned", "raised"} : pc' = [pc EXCEPT ![c] = to]
      BY <2>13 DEF SetEndpointTag
    <3>2. pc' \in [Call -> Running \cup Ended \cup {"idle"}]
      BY <3>1
    <3>3. /\ tags' = [tags EXCEPT ![version[c]].endpoint = md[c]]
          /\ UNCHANGED <<local, archive, service, stage, moved>>
      BY <2>13 DEF SetEndpointTag
    <3>4. tags' \in [Version -> [model : Call \cup {None},
                                deployment : Call \cup {None, Unnamed},
                                endpoint : Call \cup {None, Unnamed}]]
      <4>1. tags' = [v \in Version |->
                       IF v = version[c] THEN [tags[v] EXCEPT !.endpoint = md[c]]
                       ELSE tags[v]]
        BY <3>3 DEF TypeOK
      <4>2. md[c] \in Call \cup {None, Unnamed}
        BY DEF TypeOK
      <4>3. \A v \in Version :
              tags[v] \in [model : Call \cup {None},
                          deployment : Call \cup {None, Unnamed},
                          endpoint : Call \cup {None, Unnamed}]
        BY DEF TypeOK
      <4>4. \A v \in Version :
              [tags[v] EXCEPT !.endpoint = md[c]] \in
                [model : Call \cup {None}, deployment : Call \cup {None, Unnamed},
                 endpoint : Call \cup {None, Unnamed}]
        BY <4>2, <4>3
      <4>5. QED BY <4>1, <4>3, <4>4
    <3>5. QED BY <3>2, <3>3, <3>4
  <2>14. ASSUME NEW c \in Call, PollRaises(c) PROVE TypeOK'
    BY <2>14 DEF PollRaises, DeployRaises
  <2>15. ASSUME NEW c \in Call, Raise(c) PROVE TypeOK'
    BY <2>15 DEF Raise
  <2>16. ASSUME NEW c \in Call, Settle(c) PROVE TypeOK'
    BY <2>16 DEF Settle
  <2>17. ASSUME NEW c \in Call, DeleteDeployment(c) PROVE TypeOK'
    BY <2>17 DEF DeleteDeployment
  <2>18. CASE MoveStage
    BY <2>18 DEF MoveStage
  <2>19. CASE UNCHANGED vars
    BY <2>19 DEF vars
  <2>20. QED
    BY <2>1, <2>2, <2>3, <2>4, <2>5, <2>6, <2>7, <2>8, <2>9, <2>10, <2>11,
       <2>12, <2>13, <2>14, <2>15, <2>16, <2>17, <2>18, <2>19
    DEF Next, Advance
<1>3. QED
  BY <1>1, <1>2, PTL DEF Spec

-----------------------------------------------------------------------------
(***************************************************************************)
(* The inductive invariant: what is known of a call, and of the model and  *)
(* deployment it creates, from where the call is.                          *)
(***************************************************************************)
BeforeCreate == {"idle", "resolve", "download", "environment", "archive",
                 "zip", "create"}

LocalOK(c) ==
  /\ IF pc[c] = "idle" THEN uri[c] = None ELSE uri[c] \in UriOf[c]
  /\ pc[c] \in {"idle", "resolve"} => version[c] = None /\ c \notin moved
  /\ pc[c] \in {"idle", "resolve", "download"} => download[c] = None
  /\ pc[c] \notin {"idle", "resolve", "raised"} => version[c] # None
  /\ pc[c] \notin {"idle", "resolve", "download", "raised"} => download[c] # None
  /\ version[c] # None /\ uri[c] \in Version => version[c] = uri[c]
  /\ download[c] # None => version[c] # None
  /\ uri[c] \in Version => c \notin moved
  /\ pc[c] = "download" /\ uri[c] = Stage /\ c \notin moved => version[c] = stage
  /\ download[c] # None /\ c \notin moved => download[c] = version[c]
  /\ md[c] \in {c, None, Unnamed}

ModelOK(c) ==
  /\ pc[c] \in BeforeCreate
       => catalog[c].state = "none" /\ catalog[c].artifact = None
  /\ Uploaded(c) => download[c] # None
  /\ pc[c] \in {"tagModel", "deploy", "wait", "rollback"}
       => catalog[c].state = "live"
  /\ pc[c] \in {"tagModel", "deploy", "wait", "rollback", "tagDeployment",
                "tagEndpoint", "returned"}
       => Uploaded(c)
  /\ pc[c] \in {"tagDeployment", "tagEndpoint", "returned"}
       => catalog[c].state # "none"

DeploymentOK(c) ==
  /\ pc[c] \in BeforeCreate \cup {"tagModel", "deploy"} => deployment[c] = "none"
  /\ pc[c] = "wait" => deployment[c] # "none"
  /\ pc[c] = "rollback" /\ c \notin abandoned
       => deployment[c] \notin {"creating", "active"}
  /\ pc[c] \in {"tagDeployment", "tagEndpoint", "returned"}
       => catalog[c].state = "deleted" \/ deployment[c] # "none"

(* The archive at a private path is the work of the one call that writes it. *)
ArchiveOK(c) ==
  pc[c] \in {"zip", "create"} /\ PathIsPrivate(c)
    => archive[ArchivePath(c)] = {c}

LocalInv == \A c \in Call : LocalOK(c)
ModelInv == \A c \in Call : ModelOK(c)
DeploymentInv == \A c \in Call : DeploymentOK(c)
ArchiveInv == \A c \in Call : ArchiveOK(c)

(* What a call holds fits where it is: the version and the download it has  *)
(* come from its URI, and its ModelDeployment object is its own.            *)
THEOREM LocalInvHolds == Spec => []LocalInv
<1>1. Init => LocalInv
  <2> SUFFICES ASSUME Init, NEW c \in Call PROVE LocalOK(c)
    BY DEF LocalInv
  <2>1. /\ pc[c] = "idle" /\ uri[c] = None /\ version[c] = None
        /\ download[c] = None /\ md[c] = None /\ deployment[c] = "none"
        /\ catalog[c] = [state |-> "none", artifact |-> None]
    BY DEF Init
  <2>2. c \notin moved
    BY DEF Init
  <2>3. QED BY <2>1, <2>2, ConstantsAssumption DEF LocalOK, Uri
<1>2. TypeOK /\ LocalInv /\ [Next]_vars => LocalInv'
  <2> SUFFICES ASSUME TypeOK, LocalInv, [Next]_vars,
                      NEW o \in Call
               PROVE  LocalOK(o)'
    BY DEF LocalInv
  <2> LocalOK(o)
    BY DEF LocalInv
  <2> USE DEF TypeOK, LocalOK, Goto, local, service, registry
  <2>1. ASSUME NEW c \in Call, Begin(c) PROVE LocalOK(o)'
    <3>1. CASE o = c
      <4>1. PICK u \in UriOf[c] : uri' = [uri EXCEPT ![c] = u]
        BY <2>1 DEF Begin
      <4>2. /\ pc[c] = "idle" /\ pc'[c] = "resolve" /\ uri'[c] = u
            /\ UNCHANGED <<version, download, md, moved, stage>>
        BY <2>1, <4>1 DEF Begin
      <4>3. version[c] = None /\ download[c] = None /\ c \notin moved
            /\ md[c] \in {c, None, Unnamed}
        BY <3>1, <4>2
      <4>4. QED BY <3>1, <4>2, <4>3
    <3>2. CASE o # c
      BY <2>1, <3>2 DEF Begin
    <3>3. QED BY <3>1, <3>2
  <2>2. ASSUME NEW c \in Call, ResolveVersion(c) PROVE LocalOK(o)'
    <3>1. CASE o = c
      <4>1. /\ uri[c] \in UriOf[c] /\ download[c] = None /\ md[c] \in {c, None, Unnamed}
            /\ uri[c] \in Version => c \notin moved
        BY <2>2, <3>1 DEF ResolveVersion
      <4>2. /\ pc'[c] = "download" /\ version'[c] = Denoted(uri[c])
            /\ UNCHANGED <<uri, download, md, moved, stage>>
        BY <2>2 DEF ResolveVersion
      <4>3. Denoted(uri[c]) # None
        BY <4>1, ConstantsAssumption DEF Denoted, Uri
      <4>4. /\ uri[c] \in Version => Denoted(uri[c]) = uri[c]
            /\ uri[c] = Stage => Denoted(uri[c]) = stage
        BY ConstantsAssumption DEF Denoted
      <4>5. QED BY <3>1, <4>1, <4>2, <4>3, <4>4
    <3>2. CASE o # c
      BY <2>2, <3>2 DEF ResolveVersion
    <3>3. QED BY <3>1, <3>2
  <2>3. ASSUME NEW c \in Call, DownloadArtifact(c) PROVE LocalOK(o)'
    <3>1. CASE o = c
      <4>1. /\ uri[c] \in UriOf[c] /\ version[c] # None
            /\ uri[c] \in Version => version[c] = uri[c] /\ c \notin moved
            /\ uri[c] = Stage /\ c \notin moved => version[c] = stage
            /\ md[c] \in {c, None, Unnamed}
        BY <2>3, <3>1 DEF DownloadArtifact
      <4>2. /\ pc'[c] = "environment" /\ download'[c] = Denoted(uri[c])
            /\ UNCHANGED <<uri, version, md, moved>>
        BY <2>3 DEF DownloadArtifact
      <4>3. Denoted(uri[c]) # None
        BY <4>1, ConstantsAssumption DEF Denoted, Uri
      <4>4. /\ uri[c] \in Version => Denoted(uri[c]) = uri[c]
            /\ uri[c] = Stage => Denoted(uri[c]) = stage
            /\ uri[c] \in Version \cup {Stage}
        BY <4>1, ConstantsAssumption DEF Denoted, Uri
      <4>5. QED BY <3>1, <4>1, <4>2, <4>3, <4>4
    <3>2. CASE o # c
      BY <2>3, <3>2 DEF DownloadArtifact
    <3>3. QED BY <3>1, <3>2
  <2>4. ASSUME NEW c \in Call, PrepareEnvironment(c) PROVE LocalOK(o)'
    BY <2>4 DEF PrepareEnvironment
  <2>5. ASSUME NEW c \in Call, OpenArchive(c) PROVE LocalOK(o)'
    BY <2>5 DEF OpenArchive
  <2>6. ASSUME NEW c \in Call, CloseArchive(c) PROVE LocalOK(o)'
    BY <2>6 DEF CloseArchive
  <2>7. ASSUME NEW c \in Call, CreateModel(c) PROVE LocalOK(o)'
    BY <2>7 DEF CreateModel
  <2>8. ASSUME NEW c \in Call, SetModelTag(c) PROVE LocalOK(o)'
    BY <2>8 DEF SetModelTag
  <2>9. ASSUME NEW c \in Call, Deploy(c) PROVE LocalOK(o)'
    BY <2>9 DEF Deploy
  <2>10. ASSUME NEW c \in Call, AwaitDeployment(c) PROVE LocalOK(o)'
    BY <2>10 DEF AwaitDeployment, DeployRaises, Failure
  <2>11. ASSUME NEW c \in Call, RollBack(c) PROVE LocalOK(o)'
    BY <2>11 DEF RollBack
  <2>12. ASSUME NEW c \in Call, SetDeploymentTag(c) PROVE LocalOK(o)'
    BY <2>12 DEF SetDeploymentTag
  <2>13. ASSUME NEW c \in Call, SetEndpointTag(c) PROVE LocalOK(o)'
    BY <2>13 DEF SetEndpointTag
  <2>14. ASSUME NEW c \in Call, PollRaises(c) PROVE LocalOK(o)'
    BY <2>14 DEF PollRaises, DeployRaises
  <2>15. ASSUME NEW c \in Call, Raise(c) PROVE LocalOK(o)'
    <3>1. CASE o = c
      <4>1. pc[c] # "idle" /\ pc'[c] = "raised"
            /\ UNCHANGED <<uri, version, download, md, moved, stage>>
        BY <2>15 DEF Raise, Running
      <4>2. QED BY <3>1, <4>1
    <3>2. CASE o # c
      BY <2>15, <3>2 DEF Raise
    <3>3. QED BY <3>1, <3>2
  <2>16. ASSUME NEW c \in Call, Settle(c) PROVE LocalOK(o)'
    BY <2>16 DEF Settle
  <2>17. ASSUME NEW c \in Call, DeleteDeployment(c) PROVE LocalOK(o)'
    BY <2>17 DEF DeleteDeployment
  <2>18. CASE MoveStage
    <3>1. /\ UNCHANGED <<pc, uri, version, download, md>>
          /\ moved' = moved \cup {c \in Call : pc[c] = "download" /\ uri[c] = Stage}
      BY <2>18 DEF MoveStage
    <3>2. o \in moved' => o \in moved \/ (pc[o] = "download" /\ uri[o] = Stage)
      BY <3>1
    <3>3. o \notin moved' =>
            o \notin moved /\ ~ (pc[o] = "download" /\ uri[o] = Stage)
      BY <3>1
    <3>4. QED BY <3>1, <3>2, <3>3, ConstantsAssumption
  <2>19. CASE UNCHANGED vars
    BY <2>19 DEF vars
  <2>20. QED
    BY <2>1, <2>2, <2>3, <2>4, <2>5, <2>6, <2>7, <2>8, <2>9, <2>10, <2>11,
       <2>12, <2>13, <2>14, <2>15, <2>16, <2>17, <2>18, <2>19
    DEF Next, Advance
<1>3. QED
  BY <1>1, <1>2, TypeCorrect, PTL DEF Spec

(* A model exists from create_model on, and is live until the roll-back of  *)
(* the very call that created it.                                           *)
THEOREM ModelInvHolds == Spec => []ModelInv
<1>1. Init => ModelInv
  <2> SUFFICES ASSUME Init, NEW c \in Call PROVE ModelOK(c)
    BY DEF ModelInv
  <2>1. /\ pc[c] = "idle" /\ uri[c] = None /\ version[c] = None
        /\ download[c] = None /\ md[c] = None /\ deployment[c] = "none"
        /\ catalog[c] = [state |-> "none", artifact |-> None]
    BY DEF Init
  <2>2. QED BY <2>1 DEF ModelOK, BeforeCreate, Uploaded
<1>2. TypeOK /\ LocalInv /\ ModelInv /\ [Next]_vars => ModelInv'
  <2> SUFFICES ASSUME TypeOK, LocalInv, ModelInv, [Next]_vars,
                      NEW o \in Call
               PROVE  ModelOK(o)'
    BY DEF ModelInv
  <2> ModelOK(o)
    BY DEF ModelInv
  <2> USE DEF TypeOK, ModelOK, BeforeCreate, Uploaded, Goto, local, service, registry
  <2>1. ASSUME NEW c \in Call, Begin(c) PROVE ModelOK(o)'
    BY <2>1 DEF Begin
  <2>2. ASSUME NEW c \in Call, ResolveVersion(c) PROVE ModelOK(o)'
    BY <2>2 DEF ResolveVersion, Denoted
  <2>3. ASSUME NEW c \in Call, DownloadArtifact(c) PROVE ModelOK(o)'
    BY <2>3 DEF DownloadArtifact, Denoted
  <2>4. ASSUME NEW c \in Call, PrepareEnvironment(c) PROVE ModelOK(o)'
    BY <2>4 DEF PrepareEnvironment
  <2>5. ASSUME NEW c \in Call, OpenArchive(c) PROVE ModelOK(o)'
    BY <2>5 DEF OpenArchive
  <2>6. ASSUME NEW c \in Call, CloseArchive(c) PROVE ModelOK(o)'
    BY <2>6 DEF CloseArchive
  <2>7. ASSUME NEW c \in Call, CreateModel(c) PROVE ModelOK(o)'
    <3>1. CASE o = c
      <4>1. /\ pc[c] = "create" /\ download[c] # None
            /\ pc'[c] \in {"tagModel", "raised"} /\ download' = download
            /\ catalog'[c].state = "live"
            /\ pc'[c] = "tagModel" => catalog'[c].artifact = ArchiveContent(c)
        BY <2>7 DEF CreateModel, LocalInv, LocalOK
      <4>2. ArchiveContent(c) # None
        BY ConstantsAssumption DEF ArchiveContent
      <4>3. QED BY <3>1, <4>1, <4>2
    <3>2. CASE o # c
      BY <2>7, <3>2 DEF CreateModel
    <3>3. QED BY <3>1, <3>2
  <2>8. ASSUME NEW c \in Call, SetModelTag(c) PROVE ModelOK(o)'
    BY <2>8 DEF SetModelTag
  <2>9. ASSUME NEW c \in Call, Deploy(c) PROVE ModelOK(o)'
    BY <2>9 DEF Deploy
  <2>10. ASSUME NEW c \in Call, AwaitDeployment(c) PROVE ModelOK(o)'
    BY <2>10 DEF AwaitDeployment, DeployRaises, Failure
  <2>11. ASSUME NEW c \in Call, RollBack(c) PROVE ModelOK(o)'
    BY <2>11 DEF RollBack
  <2>12. ASSUME NEW c \in Call, SetDeploymentTag(c) PROVE ModelOK(o)'
    BY <2>12 DEF SetDeploymentTag
  <2>13. ASSUME NEW c \in Call, SetEndpointTag(c) PROVE ModelOK(o)'
    BY <2>13 DEF SetEndpointTag
  <2>14. ASSUME NEW c \in Call, PollRaises(c) PROVE ModelOK(o)'
    BY <2>14 DEF PollRaises, DeployRaises
  <2>15. ASSUME NEW c \in Call, Raise(c) PROVE ModelOK(o)'
    BY <2>15 DEF Raise
  <2>16. ASSUME NEW c \in Call, Settle(c) PROVE ModelOK(o)'
    BY <2>16 DEF Settle
  <2>17. ASSUME NEW c \in Call, DeleteDeployment(c) PROVE ModelOK(o)'
    BY <2>17 DEF DeleteDeployment
  <2>18. CASE MoveStage
    BY <2>18 DEF MoveStage
  <2>19. CASE UNCHANGED vars
    BY <2>19 DEF vars
  <2>20. QED
    BY <2>1, <2>2, <2>3, <2>4, <2>5, <2>6, <2>7, <2>8, <2>9, <2>10, <2>11,
       <2>12, <2>13, <2>14, <2>15, <2>16, <2>17, <2>18, <2>19
    DEF Next, Advance
<1>3. QED
  BY <1>1, <1>2, TypeCorrect, LocalInvHolds, PTL DEF Spec

(* A call rolls back only a deployment that was never made or has failed,   *)
(* unless deploy() raised while it was being made.                          *)
THEOREM DeploymentInvHolds == Spec => []DeploymentInv
<1>1. Init => DeploymentInv
  <2> SUFFICES ASSUME Init, NEW c \in Call PROVE DeploymentOK(c)
    BY DEF DeploymentInv
  <2>1. /\ pc[c] = "idle" /\ uri[c] = None /\ version[c] = None
        /\ download[c] = None /\ md[c] = None /\ deployment[c] = "none"
        /\ catalog[c] = [state |-> "none", artifact |-> None]
    BY DEF Init
  <2>2. QED BY <2>1 DEF DeploymentOK, BeforeCreate
<1>2. TypeOK /\ ModelInv /\ DeploymentInv /\ [Next]_vars => DeploymentInv'
  <2> SUFFICES ASSUME TypeOK, ModelInv, DeploymentInv, [Next]_vars,
                      NEW o \in Call
               PROVE  DeploymentOK(o)'
    BY DEF DeploymentInv
  <2> DeploymentOK(o)
    BY DEF DeploymentInv
  <2> USE DEF TypeOK, DeploymentOK, BeforeCreate, Goto, local, service, registry
  <2>1. ASSUME NEW c \in Call, Begin(c) PROVE DeploymentOK(o)'
    BY <2>1 DEF Begin
  <2>2. ASSUME NEW c \in Call, ResolveVersion(c) PROVE DeploymentOK(o)'
    BY <2>2 DEF ResolveVersion, Denoted
  <2>3. ASSUME NEW c \in Call, DownloadArtifact(c) PROVE DeploymentOK(o)'
    BY <2>3 DEF DownloadArtifact, Denoted
  <2>4. ASSUME NEW c \in Call, PrepareEnvironment(c) PROVE DeploymentOK(o)'
    BY <2>4 DEF PrepareEnvironment
  <2>5. ASSUME NEW c \in Call, OpenArchive(c) PROVE DeploymentOK(o)'
    BY <2>5 DEF OpenArchive
  <2>6. ASSUME NEW c \in Call, CloseArchive(c) PROVE DeploymentOK(o)'
    BY <2>6 DEF CloseArchive
  <2>7. ASSUME NEW c \in Call, CreateModel(c) PROVE DeploymentOK(o)'
    BY <2>7 DEF CreateModel
  <2>8. ASSUME NEW c \in Call, SetModelTag(c) PROVE DeploymentOK(o)'
    BY <2>8 DEF SetModelTag
  <2>9. ASSUME NEW c \in Call, Deploy(c) PROVE DeploymentOK(o)'
    BY <2>9 DEF Deploy
  <2>10. ASSUME NEW c \in Call, AwaitDeployment(c) PROVE DeploymentOK(o)'
    BY <2>10 DEF AwaitDeployment, DeployRaises, Failure
  <2>11. ASSUME NEW c \in Call, RollBack(c) PROVE DeploymentOK(o)'
    BY <2>11 DEF RollBack
  <2>12. ASSUME NEW c \in Call, SetDeploymentTag(c) PROVE DeploymentOK(o)'
    BY <2>12 DEF SetDeploymentTag
  <2>13. ASSUME NEW c \in Call, SetEndpointTag(c) PROVE DeploymentOK(o)'
    BY <2>13 DEF SetEndpointTag
  <2>14. ASSUME NEW c \in Call, PollRaises(c) PROVE DeploymentOK(o)'
    BY <2>14 DEF PollRaises, DeployRaises
  <2>15. ASSUME NEW c \in Call, Raise(c) PROVE DeploymentOK(o)'
    BY <2>15 DEF Raise
  <2>16. ASSUME NEW c \in Call, Settle(c) PROVE DeploymentOK(o)'
    BY <2>16 DEF Settle
  <2>17. ASSUME NEW c \in Call, DeleteDeployment(c) PROVE DeploymentOK(o)'
    BY <2>17 DEF DeleteDeployment
  <2>18. CASE MoveStage
    BY <2>18 DEF MoveStage
  <2>19. CASE UNCHANGED vars
    BY <2>19 DEF vars
  <2>20. QED
    BY <2>1, <2>2, <2>3, <2>4, <2>5, <2>6, <2>7, <2>8, <2>9, <2>10, <2>11,
       <2>12, <2>13, <2>14, <2>15, <2>16, <2>17, <2>18, <2>19
    DEF Next, Advance
<1>3. QED
  BY <1>1, <1>2, TypeCorrect, ModelInvHolds, PTL DEF Spec

(* Privacy of an archive path does not come back once it is lost: a call    *)
(* looks up its version once.                                               *)
LEMMA PrivacyIsNotGained ==
  ASSUME TypeOK, LocalInv, [Next]_vars, NEW o \in Call, version[o] # None
  PROVE  /\ ArchivePath(o)' = ArchivePath(o)
         /\ PathIsPrivate(o)' => PathIsPrivate(o)
<1>1. CASE \E c \in Call : ResolveVersion(c)
  <2>1. PICK c \in Call : ResolveVersion(c)
    BY <1>1
  <2>2. /\ version' = [version EXCEPT ![c] = Denoted(uri[c])]
        /\ version[c] = None
    BY <2>1 DEF ResolveVersion, Goto, LocalInv, LocalOK
  <2>3. \A q \in Call \ {c} : ArchivePath(q)' = ArchivePath(q)
    BY <2>2 DEF TypeOK, ArchivePath
  <2>4. o # c /\ ArchivePath(o) # ArchivePath(c)
    BY <2>2 DEF ArchivePath
  <2>5. QED BY <2>3, <2>4 DEF PathIsPrivate, ArchivePath
<1>2. CASE UNCHANGED version
  <2>1. \A q \in Call : ArchivePath(q)' = ArchivePath(q)
    BY <1>2 DEF ArchivePath
  <2>2. QED BY <2>1 DEF PathIsPrivate, ArchivePath
<1>3. QED
  BY <1>1, <1>2
  DEF Next, Advance, vars, local, service, registry, Begin, DownloadArtifact,
      PrepareEnvironment, OpenArchive, CloseArchive, CreateModel, Deploy,
      SetModelTag, SetDeploymentTag, SetEndpointTag,
      AwaitDeployment, RollBack, PollRaises, DeployRaises, Raise, Settle,
      DeleteDeployment, MoveStage

(* Only make_archive brings a call to where it has an archive.              *)
LEMMA ZipStep ==
  ASSUME TypeOK, [Next]_vars, NEW o \in Call, pc'[o] \in {"zip", "create"}
  PROVE  pc[o] \in {"zip", "create"} \/ OpenArchive(o)
<1> DEFINE Elsewhere == {"resolve", "download", "environment", "archive",
             "tagModel", "deploy", "wait", "rollback", "tagDeployment",
             "tagEndpoint", "returned", "raised"}
<1>1. ASSUME NEW c \in Call, NEW to \in Elsewhere, pc' = [pc EXCEPT ![c] = to]
      PROVE  pc[o] \in {"zip", "create"}
  BY <1>1 DEF TypeOK
<1>2. ASSUME NEW c \in Call,
             \/ Begin(c) \/ ResolveVersion(c) \/ DownloadArtifact(c)
             \/ PrepareEnvironment(c) \/ SetModelTag(c) \/ SetDeploymentTag(c)
             \/ SetEndpointTag(c) \/ Raise(c)
      PROVE  pc[o] \in {"zip", "create"}
  <2>1. \E to \in Elsewhere : pc' = [pc EXCEPT ![c] = to]
    BY <1>2 DEF Begin, ResolveVersion, DownloadArtifact, PrepareEnvironment,
                SetModelTag, SetDeploymentTag, SetEndpointTag, Raise, Goto
  <2>2. QED BY <1>1, <2>1
<1>3. ASSUME NEW c \in Call,
             \/ CreateModel(c) \/ Deploy(c) \/ AwaitDeployment(c)
             \/ PollRaises(c) \/ RollBack(c)
      PROVE  pc[o] \in {"zip", "create"}
  <2>1. CASE CreateModel(c)
    BY <1>1, <2>1 DEF CreateModel, Goto
  <2>2. CASE Deploy(c)
    <3>1. \E to \in Elsewhere : pc' = [pc EXCEPT ![c] = to]
      BY <2>2 DEF Deploy, Goto
    <3>2. QED BY <1>1, <3>1
  <2>3. CASE AwaitDeployment(c) \/ PollRaises(c)
    BY <1>1, <2>3 DEF AwaitDeployment, PollRaises, DeployRaises, Goto
  <2>4. CASE RollBack(c)
    <3>1. \E to \in Elsewhere : pc' = [pc EXCEPT ![c] = to]
      BY <2>4 DEF RollBack, Goto
    <3>2. QED BY <1>1, <3>1
  <2>5. QED BY <1>3, <2>1, <2>2, <2>3, <2>4
<1>4. ASSUME NEW c \in Call, OpenArchive(c)
      PROVE  pc[o] \in {"zip", "create"} \/ OpenArchive(o)
  BY <1>4 DEF OpenArchive, Goto, TypeOK
<1>5. ASSUME NEW c \in Call, CloseArchive(c)
      PROVE  pc[o] \in {"zip", "create"}
  BY <1>5 DEF CloseArchive, Goto, TypeOK
<1>6. CASE UNCHANGED pc
  BY <1>6
<1>7. QED
  BY <1>2, <1>3, <1>4, <1>5, <1>6
  DEF Next, Advance, vars, Settle, DeleteDeployment, MoveStage

(* From make_archive to model.create() no other call disturbs the archive   *)
(* at a private path.                                                       *)
THEOREM ArchiveInvHolds == Spec => []ArchiveInv
<1>1. Init => ArchiveInv
  <2> SUFFICES ASSUME Init, NEW c \in Call PROVE ArchiveOK(c)
    BY DEF ArchiveInv
  <2>1. /\ pc[c] = "idle" /\ uri[c] = None /\ version[c] = None
        /\ download[c] = None /\ md[c] = None /\ deployment[c] = "none"
        /\ catalog[c] = [state |-> "none", artifact |-> None]
    BY DEF Init
  <2>2. QED BY <2>1 DEF ArchiveOK, ArchivePath
<1>2. TypeOK /\ LocalInv /\ ArchiveInv /\ [Next]_vars => ArchiveInv'
  <2> SUFFICES ASSUME TypeOK, LocalInv, ArchiveInv, [Next]_vars, NEW o \in Call,
                      pc'[o] \in {"zip", "create"}, PathIsPrivate(o)'
               PROVE  archive'[ArchivePath(o)'] = {o}
    BY DEF ArchiveInv, ArchiveOK
  <2>1. pc[o] \in {"archive", "zip", "create"}
    BY ZipStep DEF OpenArchive, Goto
  <2>2. version[o] \in Version
    BY <2>1, ConstantsAssumption DEF LocalInv, LocalOK, TypeOK, Uri
  <2>3. ArchivePath(o)' = ArchivePath(o) /\ PathIsPrivate(o)
    BY <2>2, PrivacyIsNotGained, ConstantsAssumption DEF Uri
  <2>4. /\ ArchivePath(o) \in Cwd \X Version
        /\ pc[o] \in {"zip", "create"} => archive[ArchivePath(o)] = {o}
    BY <2>2, <2>3, ConstantsAssumption DEF ArchivePath, ArchiveInv, ArchiveOK
  <2>5. CASE \E c \in Call : OpenArchive(c)
    <3>1. PICK c \in Call : OpenArchive(c)
      BY <2>5
    <3>2. /\ pc[c] = "archive" /\ pc' = [pc EXCEPT ![c] = "zip"]
          /\ archive' = [archive EXCEPT ![ArchivePath(c)] =
               {c} \cup {q \in Call : pc[q] = "zip" /\ ArchivePath(q) = ArchivePath(c)}]
      BY <3>1 DEF OpenArchive, Goto
    <3>3. CASE o = c
      <4>1. {q \in Call : pc[q] = "zip" /\ ArchivePath(q) = ArchivePath(c)} = {}
        BY <2>3, <3>2, <3>3 DEF PathIsPrivate, ArchivePath
      <4>2. QED BY <2>3, <2>4, <3>2, <3>3, <4>1 DEF TypeOK
    <3>4. CASE o # c
      <4>1. ArchivePath(c) # ArchivePath(o) /\ pc[o] \in {"zip", "create"}
        BY <2>3, <3>2, <3>4 DEF PathIsPrivate, ArchivePath, TypeOK
      <4>2. QED BY <2>3, <2>4, <3>2, <4>1 DEF TypeOK
    <3>5. QED BY <3>3, <3>4
  <2>6. CASE \E c \in Call : Raise(c)
    <3>1. PICK c \in Call : Raise(c)
      BY <2>6
    <3>2. o # c /\ pc[o] \in {"zip", "create"}
      BY <3>1 DEF Raise, TypeOK
    <3>3. ArchivePath(c) # ArchivePath(o)
      BY <2>3, <3>2 DEF PathIsPrivate, ArchivePath
    <3>4. QED BY <2>3, <2>4, <3>1, <3>2, <3>3 DEF Raise, TypeOK
  <2>7. CASE UNCHANGED archive /\ ~ \E c \in Call : OpenArchive(c)
    <3>1. pc[o] \in {"zip", "create"}
      BY <2>7, ZipStep
    <3>2. QED BY <2>3, <2>4, <2>7, <3>1
  <2>8. QED
    BY <2>5, <2>6, <2>7
    DEF Next, Advance, vars, Begin, ResolveVersion, DownloadArtifact,
        PrepareEnvironment, CloseArchive, CreateModel, Deploy, SetModelTag,
        SetDeploymentTag, SetEndpointTag, AwaitDeployment, RollBack, PollRaises,
        DeployRaises, Settle, DeleteDeployment, MoveStage
<1>3. QED
  BY <1>1, <1>2, TypeCorrect, LocalInvHolds, PTL DEF Spec

OwnOK(c) == Uploaded(c) /\ PathIsPrivate(c) => catalog[c].artifact = c

(* What model.create() uploads from a private path is the call's own        *)
(* archive, complete (deployment.py:180-181).                               *)
THEOREM ArtifactIsOwnHolds == Spec => []ArtifactIsOwn
<1>1. Init => ArtifactIsOwn
  <2> SUFFICES ASSUME Init, NEW c \in Call PROVE OwnOK(c)
    BY DEF ArtifactIsOwn, OwnOK
  <2>1. /\ pc[c] = "idle" /\ uri[c] = None /\ version[c] = None
        /\ download[c] = None /\ md[c] = None /\ deployment[c] = "none"
        /\ catalog[c] = [state |-> "none", artifact |-> None]
    BY DEF Init
  <2>2. QED BY <2>1 DEF OwnOK, Uploaded
<1>2. TypeOK /\ LocalInv /\ ModelInv /\ ArchiveInv /\ ArtifactIsOwn /\ [Next]_vars
        => ArtifactIsOwn'
  <2> SUFFICES ASSUME TypeOK, LocalInv, ModelInv, ArchiveInv, ArtifactIsOwn,
                      [Next]_vars, NEW o \in Call, Uploaded(o)', PathIsPrivate(o)'
               PROVE  catalog'[o].artifact = o
    BY DEF ArtifactIsOwn
  <2>1. CASE \E c \in Call : CreateModel(c)
    <3>1. PICK c \in Call : CreateModel(c)
      BY <2>1
    <3>2. UNCHANGED version
      BY <3>1 DEF CreateModel, local
    <3>3. PathIsPrivate(o)
      BY <3>2 DEF PathIsPrivate, ArchivePath
    <3>4. CASE o = c
      <4>1. archive[ArchivePath(c)] = {c} /\ pc[c] # "zip"
        BY <3>1, <3>3, <3>4 DEF CreateModel, Goto, ArchiveInv, ArchiveOK
      <4>2. ArchiveContent(c) = c
        <5>1. \E q \in Call : archive[ArchivePath(c)] = {q} /\ pc[q] # "zip"
          BY <4>1
        <5>2. (CHOOSE q \in Call : archive[ArchivePath(c)] = {q}) = c
          BY <4>1
        <5>3. QED BY <5>1, <5>2 DEF ArchiveContent
      <4>3. catalog'[c].artifact \in {ArchiveContent(c), None}
        BY <3>1 DEF CreateModel, TypeOK
      <4>4. QED BY <3>4, <4>2, <4>3 DEF Uploaded
    <3>5. CASE o # c
      BY <3>1, <3>3, <3>5 DEF CreateModel, TypeOK, ArtifactIsOwn, Uploaded
    <3>6. QED BY <3>4, <3>5
  <2>2. CASE UNCHANGED catalog \/ \E c \in Call : RollBack(c)
    <3>1. catalog'[o].artifact = catalog[o].artifact
      BY <2>2 DEF RollBack, TypeOK
    <3>2. Uploaded(o) /\ version[o] # None
      BY <3>1 DEF Uploaded, ModelInv, ModelOK, LocalInv, LocalOK
    <3>3. PathIsPrivate(o)
      BY <3>2, PrivacyIsNotGained
    <3>4. QED BY <3>1, <3>2, <3>3 DEF ArtifactIsOwn
  <2>3. QED
    BY <2>1, <2>2
    DEF Next, Advance, vars, service, Begin, ResolveVersion, DownloadArtifact,
        PrepareEnvironment, OpenArchive, CloseArchive, Deploy, SetModelTag,
        SetDeploymentTag, SetEndpointTag, AwaitDeployment, PollRaises,
        DeployRaises, Raise, Settle, DeleteDeployment, MoveStage
<1>3. QED
  BY <1>1, <1>2, TypeCorrect, LocalInvHolds, ModelInvHolds, ArchiveInvHolds, PTL
  DEF Spec

ServedOK(c) ==
  deployment[c] \in {"creating", "active"} /\ c \notin abandoned
    => catalog[c].state = "live"

(* No deployment that starts or serves loses its model, unless its call     *)
(* stopped waiting for it (deployment.py:432-436).                          *)
THEOREM ActiveDeploymentHasModelHolds == Spec => []ActiveDeploymentHasModel
<1>1. Init => ActiveDeploymentHasModel
  <2> SUFFICES ASSUME Init, NEW c \in Call PROVE ServedOK(c)
    BY DEF ActiveDeploymentHasModel, ServedOK
  <2>1. /\ pc[c] = "idle" /\ uri[c] = None /\ version[c] = None
        /\ download[c] = None /\ md[c] = None /\ deployment[c] = "none"
        /\ catalog[c] = [state |-> "none", artifact |-> None]
    BY DEF Init
  <2>2. QED BY <2>1 DEF ServedOK
<1>2. TypeOK /\ ModelInv /\ DeploymentInv /\ ActiveDeploymentHasModel
      /\ [Next]_vars
        => ActiveDeploymentHasModel'
  <2> SUFFICES ASSUME TypeOK, ModelInv, DeploymentInv,
                      ActiveDeploymentHasModel, [Next]_vars,
                      NEW o \in Call
               PROVE  ServedOK(o)'
    BY DEF ActiveDeploymentHasModel, ServedOK
  <2> ServedOK(o)
    BY DEF ActiveDeploymentHasModel, ServedOK
  <2> ModelOK(o) /\ DeploymentOK(o)
    BY DEF ModelInv, DeploymentInv
  <2> USE DEF TypeOK, ServedOK, ModelOK, DeploymentOK, Goto, local, service, registry
  <2>1. ASSUME NEW c \in Call, Begin(c) PROVE ServedOK(o)'
    BY <2>1 DEF Begin
  <2>2. ASSUME NEW c \in Call, ResolveVersion(c) PROVE ServedOK(o)'
    BY <2>2 DEF ResolveVersion, Denoted
  <2>3. ASSUME NEW c \in Call, DownloadArtifact(c) PROVE ServedOK(o)'
    BY <2>3 DEF DownloadArtifact, Denoted
  <2>4. ASSUME NEW c \in Call, PrepareEnvironment(c) PROVE ServedOK(o)'
    BY <2>4 DEF PrepareEnvironment
  <2>5. ASSUME NEW c \in Call, OpenArchive(c) PROVE ServedOK(o)'
    BY <2>5 DEF OpenArchive
  <2>6. ASSUME NEW c \in Call, CloseArchive(c) PROVE ServedOK(o)'
    BY <2>6 DEF CloseArchive
  <2>7. ASSUME NEW c \in Call, CreateModel(c) PROVE ServedOK(o)'
    BY <2>7 DEF CreateModel
  <2>8. ASSUME NEW c \in Call, SetModelTag(c) PROVE ServedOK(o)'
    BY <2>8 DEF SetModelTag
  <2>9. ASSUME NEW c \in Call, Deploy(c) PROVE ServedOK(o)'
    BY <2>9 DEF Deploy
  <2>10. ASSUME NEW c \in Call, AwaitDeployment(c) PROVE ServedOK(o)'
    BY <2>10 DEF AwaitDeployment, DeployRaises, Failure
  <2>11. ASSUME NEW c \in Call, RollBack(c) PROVE ServedOK(o)'
    BY <2>11 DEF RollBack
  <2>12. ASSUME NEW c \in Call, SetDeploymentTag(c) PROVE ServedOK(o)'
    BY <2>12 DEF SetDeploymentTag
  <2>13. ASSUME NEW c \in Call, SetEndpointTag(c) PROVE ServedOK(o)'
    BY <2>13 DEF SetEndpointTag
  <2>14. ASSUME NEW c \in Call, PollRaises(c) PROVE ServedOK(o)'
    BY <2>14 DEF PollRaises, DeployRaises
  <2>15. ASSUME NEW c \in Call, Raise(c) PROVE ServedOK(o)'
    BY <2>15 DEF Raise
  <2>16. ASSUME NEW c \in Call, Settle(c) PROVE ServedOK(o)'
    BY <2>16 DEF Settle
  <2>17. ASSUME NEW c \in Call, DeleteDeployment(c) PROVE ServedOK(o)'
    BY <2>17 DEF DeleteDeployment
  <2>18. CASE MoveStage
    BY <2>18 DEF MoveStage
  <2>19. CASE UNCHANGED vars
    BY <2>19 DEF vars
  <2>20. QED
    BY <2>1, <2>2, <2>3, <2>4, <2>5, <2>6, <2>7, <2>8, <2>9, <2>10, <2>11,
       <2>12, <2>13, <2>14, <2>15, <2>16, <2>17, <2>18, <2>19
    DEF Next, Advance
<1>3. QED
  BY <1>1, <1>2, TypeCorrect, ModelInvHolds, DeploymentInvHolds, PTL DEF Spec

(* A model uploaded from a private path, by a call whose stage did not move *)
(* between its two look-ups, is made from the version the call looked up.   *)
LEMMA MadeFromVersion ==
  ASSUME LocalInv, ModelInv, ArtifactIsOwn, NEW c \in Call,
         Uploaded(c), PathIsPrivate(c), c \notin moved
  PROVE  MadeFrom(c, version[c])
<1>1. catalog[c].artifact = c
  BY DEF ArtifactIsOwn
<1>2. download[c] = version[c]
  BY DEF LocalInv, LocalOK, ModelInv, ModelOK
<1>3. QED BY <1>1, <1>2 DEF MadeFrom

(* For a URI that names a version, what the catalog holds under a version   *)
(* is the download of that version (deployment.py:222-227).                 *)
THEOREM PinnedVersionUploadedHolds == Spec => []PinnedVersionUploaded
<1>1. LocalInv /\ ModelInv /\ ArtifactIsOwn => PinnedVersionUploaded
  <2> SUFFICES ASSUME LocalInv, ModelInv, ArtifactIsOwn, NEW c \in Call,
                      Uploaded(c), PathIsPrivate(c), uri[c] \in Version
               PROVE  MadeFrom(c, version[c])
    BY DEF PinnedVersionUploaded
  <2>1. c \notin moved
    BY DEF LocalInv, LocalOK
  <2>2. QED BY <2>1, MadeFromVersion
<1>2. QED
  BY <1>1, LocalInvHolds, ModelInvHolds, ArtifactIsOwnHolds, PTL

(* A call that returns deleted its model or had a deployment made from it   *)
(* (deployment.py:434-436).                                                 *)
THEOREM NoUndeployedModelLeftHolds == Spec => []NoUndeployedModelLeft
<1>1. DeploymentInv => NoUndeployedModelLeft
  BY DEF DeploymentInv, DeploymentOK, NoUndeployedModelLeft
<1>2. QED
  BY <1>1, DeploymentInvHolds, PTL

TagOK(v, c) ==
  c \in {tags[v].model, tags[v].deployment, tags[v].endpoint}
    => version[c] = v /\ Uploaded(c)

TagInv == \A v \in Version, c \in Call : TagOK(v, c)

(* The tags of a version name only calls that looked that version up and    *)
(* uploaded a model for it (deployment.py:397, 445-456).                    *)
THEOREM TagInvHolds == Spec => []TagInv
<1>1. Init => TagInv
  <2> SUFFICES ASSUME Init, NEW v \in Version, NEW c \in Call
               PROVE  TagOK(v, c)
    BY DEF TagInv
  <2>1. tags[v].model = None /\ tags[v].deployment = None /\ tags[v].endpoint = None
    BY DEF Init
  <2>2. QED BY <2>1, ConstantsAssumption DEF TagOK
<1>2. TypeOK /\ LocalInv /\ ModelInv /\ TagInv /\ [Next]_vars
        => TagInv'
  <2> SUFFICES ASSUME TypeOK, LocalInv, ModelInv, TagInv, [Next]_vars,
                      NEW v \in Version, NEW o \in Call
               PROVE  TagOK(v, o)'
    BY DEF TagInv
  <2> TagOK(v, o)
    BY DEF TagInv
  <2> LocalOK(o) /\ ModelOK(o)
    BY DEF LocalInv, ModelInv
  <2> USE DEF TypeOK, TagOK, Uploaded, Goto, local, service, registry
  <2>1. ASSUME NEW c \in Call, Begin(c) PROVE TagOK(v, o)'
    BY <2>1 DEF Begin
  <2>2. ASSUME NEW c \in Call, ResolveVersion(c) PROVE TagOK(v, o)'
    <3>1. CASE o = c
      <4>1. ~ Uploaded(o) /\ UNCHANGED <<tags, catalog>>
        BY <2>2, <3>1 DEF ResolveVersion, ModelOK, BeforeCreate
      <4>2. o \notin {tags[v].model, tags[v].deployment, tags[v].endpoint}
        BY <4>1
      <4>3. QED BY <4>1, <4>2
    <3>2. CASE o # c
      BY <2>2, <3>2 DEF ResolveVersion
    <3>3. QED BY <3>1, <3>2
  <2>3. ASSUME NEW c \in Call, DownloadArtifact(c) PROVE TagOK(v, o)'
    BY <2>3 DEF DownloadArtifact, Denoted
  <2>4. ASSUME NEW c \in Call, PrepareEnvironment(c) PROVE TagOK(v, o)'
    BY <2>4 DEF PrepareEnvironment
  <2>5. ASSUME NEW c \in Call, OpenArchive(c) PROVE TagOK(v, o)'
    BY <2>5 DEF OpenArchive
  <2>6. ASSUME NEW c \in Call, CloseArchive(c) PROVE TagOK(v, o)'
    BY <2>6 DEF CloseArchive
  <2>7. ASSUME NEW c \in Call, CreateModel(c) PROVE TagOK(v, o)'
    <3>1. CASE o = c
      <4>1. ~ Uploaded(c) /\ UNCHANGED tags
        BY <2>7, <3>1 DEF CreateModel, ModelOK, BeforeCreate
      <4>2. QED BY <3>1, <4>1
    <3>2. CASE o # c
      BY <2>7, <3>2 DEF CreateModel
    <3>3. QED BY <3>1, <3>2
  <2>8. ASSUME NEW c \in Call, SetModelTag(c) PROVE TagOK(v, o)'
    <3>1. /\ version[c] \in Version /\ Uploaded(c)
          /\ md[c] \in {c, None, Unnamed}
      BY <2>8 DEF SetModelTag, LocalInv, LocalOK, ModelInv, ModelOK
    <3>2. /\ UNCHANGED <<version, catalog>>
          /\ tags' = [tags EXCEPT ![version[c]].model = c]
      BY <2>8 DEF SetModelTag
    <3>3. CASE version[c] = v
      <4>1. /\ tags'[v].model = c
            /\ tags'[v].deployment = tags[v].deployment
            /\ tags'[v].endpoint = tags[v].endpoint
        BY <3>1, <3>2, <3>3
      <4>2. QED BY <3>1, <3>2, <3>3, <4>1, ConstantsAssumption
    <3>4. CASE version[c] # v
      <4>1. tags'[v] = tags[v]
        BY <3>1, <3>2, <3>4
      <4>2. QED BY <3>2, <4>1
    <3>5. QED BY <3>3, <3>4
  <2>9. ASSUME NEW c \in Call, Deploy(c) PROVE TagOK(v, o)'
    BY <2>9 DEF Deploy
  <2>10. ASSUME NEW c \in Call, AwaitDeployment(c) PROVE TagOK(v, o)'
    BY <2>10 DEF AwaitDeployment, DeployRaises, Failure
  <2>11. ASSUME NEW c \in Call, RollBack(c) PROVE TagOK(v, o)'
    BY <2>11 DEF RollBack
  <2>12. ASSUME NEW c \in Call, SetDeploymentTag(c) PROVE TagOK(v, o)'
    <3>1. /\ version[c] \in Version /\ Uploaded(c)
          /\ md[c] \in {c, None, Unnamed}
      BY <2>12 DEF SetDeploymentTag, LocalInv, LocalOK, ModelInv, ModelOK
    <3>2. /\ UNCHANGED <<version, catalog>>
          /\ tags' = [tags EXCEPT ![version[c]].deployment = md[c]]
      BY <2>12 DEF SetDeploymentTag
    <3>3. CASE version[c] = v
      <4>1. /\ tags'[v].deployment = md[c]
            /\ tags'[v].model = tags[v].model
            /\ tags'[v].endpoint = tags[v].endpoint
        BY <3>1, <3>2, <3>3
      <4>2. QED BY <3>1, <3>2, <3>3, <4>1, ConstantsAssumption
    <3>4. CASE version[c] # v
      <4>1. tags'[v] = tags[v]
        BY <3>1, <3>2, <3>4
      <4>2. QED BY <3>2, <4>1
    <3>5. QED BY <3>3, <3>4
  <2>13. ASSUME NEW c \in Call, SetEndpointTag(c) PROVE TagOK(v, o)'
    <3>1. /\ version[c] \in Version /\ Uploaded(c)
          /\ md[c] \in {c, None, Unnamed}
      BY <2>13 DEF SetEndpointTag, LocalInv, LocalOK, ModelInv, ModelOK
    <3>2. /\ UNCHANGED <<version, catalog>>
          /\ tags' = [tags EXCEPT ![version[c]].endpoint = md[c]]
      BY <2>13 DEF SetEndpointTag
    <3>3. CASE version[c] = v
      <4>1. /\ tags'[v].endpoint = md[c]
            /\ tags'[v].model = tags[v].model
            /\ tags'[v].deployment = tags[v].deployment
        BY <3>1, <3>2, <3>3
      <4>2. QED BY <3>1, <3>2, <3>3, <4>1, ConstantsAssumption
    <3>4. CASE version[c] # v
      <4>1. tags'[v] = tags[v]
        BY <3>1, <3>2, <3>4
      <4>2. QED BY <3>2, <4>1
    <3>5. QED BY <3>3, <3>4
  <2>14. ASSUME NEW c \in Call, PollRaises(c) PROVE TagOK(v, o)'
    BY <2>14 DEF PollRaises, DeployRaises
  <2>15. ASSUME NEW c \in Call, Raise(c) PROVE TagOK(v, o)'
    BY <2>15 DEF Raise
  <2>16. ASSUME NEW c \in Call, Settle(c) PROVE TagOK(v, o)'
    BY <2>16 DEF Settle
  <2>17. ASSUME NEW c \in Call, DeleteDeployment(c) PROVE TagOK(v, o)'
    BY <2>17 DEF DeleteDeployment
  <2>18. CASE MoveStage
    BY <2>18 DEF MoveStage
  <2>19. CASE UNCHANGED vars
    BY <2>19 DEF vars
  <2>20. QED
    BY <2>1, <2>2, <2>3, <2>4, <2>5, <2>6, <2>7, <2>8, <2>9, <2>10, <2>11,
       <2>12, <2>13, <2>14, <2>15, <2>16, <2>17, <2>18, <2>19
    DEF Next, Advance
<1>3. QED
  BY <1>1, <1>2, TypeCorrect, LocalInvHolds, ModelInvHolds, PTL DEF Spec

(* The OCIDs a version is tagged with are those of calls that looked it up; *)
(* their models consist of that version's files, unless the stage moved     *)
(* between the two look-ups of the call or the call shared its archive path *)
(* (deployment.py:222-227, 397, 445-456).                                   *)
THEOREM TagProvenanceHolds == Spec => []TagProvenance
<1>1. LocalInv /\ ModelInv /\ ArtifactIsOwn /\ TagInv => TagProvenance
  <2> SUFFICES ASSUME LocalInv, ModelInv, ArtifactIsOwn, TagInv,
                      NEW v \in Version, NEW c \in Call,
                      c \in {tags[v].model, tags[v].deployment, tags[v].endpoint}
               PROVE  /\ version[c] = v /\ Uploaded(c)
                      /\ c \notin moved /\ PathIsPrivate(c) => MadeFrom(c, v)
    BY DEF TagProvenance
  <2>1. version[c] = v /\ Uploaded(c)
    BY DEF TagInv, TagOK
  <2>2. QED BY <2>1, MadeFromVersion
<1>2. QED
  BY <1>1, LocalInvHolds, ModelInvHolds, ArtifactIsOwnHolds, TagInvHolds, PTL

(***************************************************************************)
(* A call that no other shares its version with finds the tags of the      *)
(* version unset, and from then on they are what it has written itself.     *)
(***************************************************************************)
NoTags == [model |-> None, deployment |-> None, endpoint |-> None]

FreshInv ==
  \A v \in Version : (\A c \in Call : version[c] # v) => tags[v] = NoTags

Sole(c) == \A o \in Call \ {c} : version[o] # version[c]

SoleOK(c) ==
  Sole(c) =>
    /\ pc[c] \in {"download", "environment", "archive", "zip", "create", "tagModel"}
         => tags[version[c]] = NoTags
    /\ pc[c] \in {"deploy", "wait", "rollback", "tagDeployment"}
         => tags[version[c]] = [model |-> c, deployment |-> None, endpoint |-> None]
    /\ pc[c] = "tagEndpoint"
         => tags[version[c]] = [model |-> c, deployment |-> md[c], endpoint |-> None]
    /\ pc[c] = "returned"
         => tags[version[c]] = [model |-> c, deployment |-> md[c], endpoint |-> md[c]]

SoleInv == \A c \in Call : SoleOK(c)

(* A version no call has looked up has no tags.                             *)
THEOREM FreshInvHolds == Spec => []FreshInv
<1>1. Init => FreshInv
  BY DEF Init, FreshInv, NoTags
<1>2. TypeOK /\ LocalInv /\ FreshInv /\ [Next]_vars => FreshInv'
  <2> SUFFICES ASSUME TypeOK, LocalInv, FreshInv, [Next]_vars,
                      NEW v \in Version, \A c \in Call : version'[c] # v
               PROVE  tags'[v] = NoTags
    BY DEF FreshInv
  <2>1. CASE \E c \in Call : ResolveVersion(c)
    <3>1. PICK c \in Call : ResolveVersion(c)
      BY <2>1
    <3>2. /\ version' = [version EXCEPT ![c] = Denoted(uri[c])] /\ tags' = tags
          /\ pc[c] = "resolve"
      BY <3>1 DEF ResolveVersion, registry, Goto
    <3>3. version[c] = None
      BY <3>2 DEF LocalInv, LocalOK
    <3>4. \A a \in Call : version[a] # v
      BY <3>2, <3>3, ConstantsAssumption DEF TypeOK, Uri
    <3>5. QED BY <3>2, <3>4 DEF FreshInv
  <2>2. CASE \E c \in Call : SetModelTag(c) \/ SetDeploymentTag(c) \/ SetEndpointTag(c)
    <3>1. PICK c \in Call : SetModelTag(c) \/ SetDeploymentTag(c) \/ SetEndpointTag(c)
      BY <2>2
    <3>2. /\ version' = version
          /\ \/ tags' = [tags EXCEPT ![version[c]].model = c]
             \/ tags' = [tags EXCEPT ![version[c]].deployment = md[c]]
             \/ tags' = [tags EXCEPT ![version[c]].endpoint = md[c]]
      BY <3>1 DEF SetModelTag, SetDeploymentTag, SetEndpointTag, local
    <3>3. version[c] # v
      BY <3>2
    <3>4. tags'[v] = tags[v]
      BY <3>2, <3>3 DEF TypeOK
    <3>5. QED BY <3>2, <3>4 DEF FreshInv
  <2>3. CASE UNCHANGED <<version, tags>>
    BY <2>3 DEF FreshInv
  <2>4. QED
    BY <2>1, <2>2, <2>3
    DEF Next, Advance, vars, local, service, registry, Begin, DownloadArtifact,
        PrepareEnvironment, OpenArchive, CloseArchive, CreateModel, Deploy,
        AwaitDeployment, RollBack, PollRaises, DeployRaises, Raise, Settle,
        DeleteDeployment, MoveStage
<1>3. QED
  BY <1>1, <1>2, TypeCorrect, LocalInvHolds, PTL DEF Spec

(* The tags of a version with one call are written by that call in order.   *)
THEOREM SoleInvHolds == Spec => []SoleInv
<1>1. Init => SoleInv
  BY DEF Init, SoleInv, SoleOK
<1>2. TypeOK /\ LocalInv /\ FreshInv /\ SoleInv /\ [Next]_vars => SoleInv'
  <2> SUFFICES ASSUME TypeOK, LocalInv, FreshInv, SoleInv, [Next]_vars,
                      NEW o \in Call
               PROVE  SoleOK(o)'
    BY DEF SoleInv
  <2> SoleOK(o)
    BY DEF SoleInv
  <2> USE DEF TypeOK, SoleOK, Goto, local, service, registry, NoTags
  <2>1. ASSUME NEW c \in Call, Begin(c) PROVE SoleOK(o)'
    BY <2>1 DEF Begin, Sole
  <2>2. ASSUME NEW c \in Call, ResolveVersion(c) PROVE SoleOK(o)'
    <3>1. /\ version' = [version EXCEPT ![c] = Denoted(uri[c])]
          /\ pc[c] = "resolve" /\ pc' = [pc EXCEPT ![c] = "download"]
          /\ UNCHANGED <<md, tags>>
      BY <2>2 DEF ResolveVersion
    <3>2. version[c] = None /\ uri[c] \in UriOf[c]
      BY <3>1 DEF LocalInv, LocalOK
    <3>3. Denoted(uri[c]) \in Version
      BY <3>2, ConstantsAssumption DEF Denoted, Uri
    <3>4. CASE o = c
      <4>1. Sole(c)' => \A a \in Call : version[a] # Denoted(uri[c])
        BY <3>1, <3>2, <3>3, ConstantsAssumption DEF Sole, Uri
      <4>2. Sole(c)' => tags[Denoted(uri[c])] = NoTags
        BY <3>3, <4>1 DEF FreshInv
      <4>3. version'[c] = Denoted(uri[c]) /\ pc'[c] = "download"
        BY <3>1
      <4>4. QED BY <3>1, <3>4, <4>2, <4>3
    <3>5. CASE o # c
      <4>1. version'[o] = version[o] /\ pc'[o] = pc[o]
        BY <3>1, <3>5
      <4>2. CASE version[o] = None
        <5>1. pc[o] \in {"idle", "resolve", "raised"}
          BY <4>2 DEF LocalInv, LocalOK
        <5>2. QED BY <4>1, <5>1
      <4>3. CASE version[o] # None
        <5>1. Sole(o)' => Sole(o)
          BY <3>1, <3>2, <4>1, <4>3 DEF Sole
        <5>2. QED BY <3>1, <4>1, <5>1
      <4>4. QED BY <4>2, <4>3
    <3>6. QED BY <3>4, <3>5
  <2>3. ASSUME NEW c \in Call, DownloadArtifact(c) PROVE SoleOK(o)'
    BY <2>3 DEF DownloadArtifact, Sole
  <2>4. ASSUME NEW c \in Call, PrepareEnvironment(c) PROVE SoleOK(o)'
    BY <2>4 DEF PrepareEnvironment, Sole
  <2>5. ASSUME NEW c \in Call, OpenArchive(c) PROVE SoleOK(o)'
    BY <2>5 DEF OpenArchive, Sole
  <2>6. ASSUME NEW c \in Call, CloseArchive(c) PROVE SoleOK(o)'
    BY <2>6 DEF CloseArchive, Sole
  <2>7. ASSUME NEW c \in Call, CreateModel(c) PROVE SoleOK(o)'
    BY <2>7 DEF CreateModel, Sole
  <2>8. ASSUME NEW c \in Call, SetModelTag(c) PROVE SoleOK(o)'
    <3>1. /\ tags' = [tags EXCEPT ![version[c]].model = c]
          /\ pc[c] = "tagModel" /\ pc' = [pc EXCEPT ![c] = "deploy"]
          /\ UNCHANGED <<version, md>>
      BY <2>8 DEF SetModelTag
    <3>2. version[c] \in Version
      BY <3>1 DEF LocalInv, LocalOK
    <3>3. Sole(o)' => Sole(o)
      BY <3>1 DEF Sole
    <3>4. CASE o = c
      <4>1. pc'[c] = "deploy"
        BY <3>1
      <4>2. tags'[version[c]] = [tags[version[c]] EXCEPT !.model = c]
        BY <3>1, <3>2
      <4>3. QED BY <3>1, <3>2, <3>3, <3>4, <4>1, <4>2
    <3>5. CASE o # c
      <4>1. pc'[o] = pc[o]
        BY <3>1, <3>5
      <4>2. Sole(o) => tags'[version[o]] = tags[version[o]]
        BY <3>1, <3>5 DEF Sole
      <4>3. QED BY <3>1, <3>3, <4>1, <4>2
    <3>6. QED BY <3>4, <3>5
  <2>9. ASSUME NEW c \in Call, Deploy(c) PROVE SoleOK(o)'
    BY <2>9 DEF Deploy, Sole
  <2>10. ASSUME NEW c \in Call, AwaitDeployment(c) PROVE SoleOK(o)'
    BY <2>10 DEF AwaitDeployment, DeployRaises, Failure, Sole
  <2>11. ASSUME NEW c \in Call, RollBack(c) PROVE SoleOK(o)'
    BY <2>11 DEF RollBack, Sole
  <2>12. ASSUME NEW c \in Call, SetDeploymentTag(c) PROVE SoleOK(o)'
    <3>1. /\ tags' = [tags EXCEPT ![version[c]].deployment = md[c]]
          /\ pc[c] = "tagDeployment" /\ pc' = [pc EXCEPT ![c] = "tagEndpoint"]
          /\ UNCHANGED <<version, md>>
      BY <2>12 DEF SetDeploymentTag
    <3>2. version[c] \in Version
      BY <3>1 DEF LocalInv, LocalOK
    <3>3. Sole(o)' => Sole(o)
      BY <3>1 DEF Sole
    <3>4. CASE o = c
      <4>1. pc'[c] = "tagEndpoint"
        BY <3>1
      <4>2. tags'[version[c]] = [tags[version[c]] EXCEPT !.deployment = md[c]]
        BY <3>1, <3>2
      <4>3. QED BY <3>1, <3>2, <3>3, <3>4, <4>1, <4>2
    <3>5. CASE o # c
      <4>1. pc'[o] = pc[o]
        BY <3>1, <3>5
      <4>2. Sole(o) => tags'[version[o]] = tags[version[o]]
        BY <3>1, <3>5 DEF Sole
      <4>3. QED BY <3>1, <3>3, <4>1, <4>2
    <3>6. QED BY <3>4, <3>5
  <2>13. ASSUME NEW c \in Call, SetEndpointTag(c) PROVE SoleOK(o)'
    <3>1. /\ tags' = [tags EXCEPT ![version[c]].endpoint = md[c]]
          /\ pc[c] = "tagEndpoint"
          /\ \E to \in Ended : pc' = [pc EXCEPT ![c] = to]
          /\ UNCHANGED <<version, md>>
      BY <2>13 DEF SetEndpointTag, Ended
    <3>2. version[c] \in Version
      BY <3>1 DEF LocalInv, LocalOK
    <3>3. Sole(o)' => Sole(o)
      BY <3>1 DEF Sole
    <3>4. CASE o = c
      <4>1. pc'[c] \in {"returned", "raised"}
        BY <3>1 DEF Ended
      <4>2. tags'[version[c]] = [tags[version[c]] EXCEPT !.endpoint = md[c]]
        BY <3>1, <3>2
      <4>3. QED BY <3>1, <3>2, <3>3, <3>4, <4>1, <4>2
    <3>5. CASE o # c
      <4>1. pc'[o] = pc[o]
        BY <3>1, <3>5
      <4>2. Sole(o) => tags'[version[o]] = tags[version[o]]
        BY <3>1, <3>5 DEF Sole
      <4>3. QED BY <3>1, <3>3, <4>1, <4>2
    <3>6. QED BY <3>4, <3>5
  <2>14. ASSUME NEW c \in Call, PollRaises(c) PROVE SoleOK(o)'
    BY <2>14 DEF PollRaises, DeployRaises, Sole
  <2>15. ASSUME NEW c \in Call, Raise(c) PROVE SoleOK(o)'
    BY <2>15 DEF Raise, Sole
  <2>16. ASSUME NEW c \in Call, Settle(c) PROVE SoleOK(o)'
    BY <2>16 DEF Settle, Sole
  <2>17. ASSUME NEW c \in Call, DeleteDeployment(c) PROVE SoleOK(o)'
    BY <2>17 DEF DeleteDeployment, Sole
  <2>18. CASE MoveStage
    BY <2>18 DEF MoveStage, Sole
  <2>19. CASE UNCHANGED vars
    BY <2>19 DEF vars, Sole
  <2>20. QED
    BY <2>1, <2>2, <2>3, <2>4, <2>5, <2>6, <2>7, <2>8, <2>9, <2>10, <2>11,
       <2>12, <2>13, <2>14, <2>15, <2>16, <2>17, <2>18, <2>19
    DEF Next, Advance
<1>3. QED
  BY <1>1, <1>2, TypeCorrect, LocalInvHolds, FreshInvHolds, PTL DEF Spec

(* The three tags of a version only one call deployed are that call's       *)
(* (deployment.py:397, 445-456).                                            *)
THEOREM TagsOfSoleCallHolds == Spec => []TagsOfSoleCall
<1>1. SoleInv => TagsOfSoleCall
  BY DEF SoleInv, SoleOK, Sole, TagsOfSoleCall
<1>2. QED
  BY <1>1, SoleInvHolds, PTL

-----------------------------------------------------------------------------
(***************************************************************************)
(* ModelDeployment implements module Deployment, for any set of calls,     *)
(* versions and directories.                                               *)
(***************************************************************************)
(* A call gives up only on a deployment it has asked for, and a call that   *)
(* could not even build the ModelDeployment object has asked for none.      *)
AskedOK(c) ==
  /\ c \in abandoned => deployment[c] # "none"
  /\ pc[c] = "rollback" /\ md[c] = None => deployment[c] = "none"
AskedInv == \A c \in Call : AskedOK(c)

(* What deploy() was asked for fits the object create_deployment holds and  *)
(* the deployments it gave up on (deployment.py:406-442).                   *)
THEOREM AskedInvHolds == Spec => []AskedInv
<1>1. Init => AskedInv
  BY DEF Init, AskedInv, AskedOK
<1>2. TypeOK /\ LocalInv /\ ModelInv /\ DeploymentInv /\ AskedInv /\ [Next]_vars
        => AskedInv'
  <2> SUFFICES ASSUME TypeOK, LocalInv, ModelInv, DeploymentInv, AskedInv,
                      [Next]_vars, NEW o \in Call
               PROVE  AskedOK(o)'
    BY DEF AskedInv
  <2> AskedOK(o)
    BY DEF AskedInv
  <2> USE DEF TypeOK, AskedOK, Goto, local, service, registry
  <2>1. ASSUME NEW c \in Call,
               \/ Begin(c) \/ ResolveVersion(c) \/ DownloadArtifact(c)
               \/ PrepareEnvironment(c) \/ OpenArchive(c) \/ CloseArchive(c)
        PROVE  AskedOK(o)'
    BY <2>1 DEF Begin, ResolveVersion, DownloadArtifact, PrepareEnvironment,
                OpenArchive, CloseArchive
  <2>2. ASSUME NEW c \in Call, CreateModel(c) PROVE AskedOK(o)'
    BY <2>2 DEF CreateModel
  <2>3. ASSUME NEW c \in Call,
               SetModelTag(c) \/ SetDeploymentTag(c) \/ SetEndpointTag(c)
        PROVE  AskedOK(o)'
    BY <2>3 DEF SetModelTag, SetDeploymentTag, SetEndpointTag
  <2>4. ASSUME NEW c \in Call, Deploy(c) PROVE AskedOK(o)'
    <3>1. pc[c] = "deploy" /\ deployment[c] = "none"
      BY <2>4 DEF Deploy, DeploymentInv, DeploymentOK
    <3>2. None # Unnamed /\ None \notin Call
      BY ConstantsAssumption
    <3>3. QED BY <2>4, <3>1, <3>2 DEF Deploy
  <2>5. ASSUME NEW c \in Call, AwaitDeployment(c) PROVE AskedOK(o)'
    <3>1. None # Unnamed /\ None \notin Call
      BY ConstantsAssumption
    <3>2. QED BY <2>5, <3>1 DEF AwaitDeployment, DeployRaises
  <2>6. ASSUME NEW c \in Call, PollRaises(c) PROVE AskedOK(o)'
    <3>1. None # Unnamed /\ None \notin Call
      BY ConstantsAssumption
    <3>2. pc[c] = "wait" /\ deployment[c] # "none"
      BY <2>6 DEF PollRaises, DeployRaises, DeploymentInv, DeploymentOK
    <3>3. QED BY <2>6, <3>1, <3>2 DEF PollRaises, DeployRaises
  <2>7. ASSUME NEW c \in Call, RollBack(c) PROVE AskedOK(o)'
    BY <2>7 DEF RollBack
  <2>8. ASSUME NEW c \in Call, Raise(c) PROVE AskedOK(o)'
    BY <2>8 DEF Raise
  <2>9. ASSUME NEW c \in Call, Settle(c) \/ DeleteDeployment(c)
        PROVE  AskedOK(o)'
    BY <2>9 DEF Settle, DeleteDeployment
  <2>10. CASE MoveStage \/ UNCHANGED vars
    BY <2>10 DEF MoveStage, vars
  <2>11. QED
    BY <2>1, <2>2, <2>3, <2>4, <2>5, <2>6, <2>7, <2>8, <2>9, <2>10
    DEF Next, Advance
<1>3. QED
  BY <1>1, <1>2, TypeCorrect, LocalInvHolds, ModelInvHolds, DeploymentInvHolds,
     PTL DEF Spec

-----------------------------------------------------------------------------
(* A step that changes what there is of one call only, and as one of the    *)
(* actions of Deployment would.                                             *)
OthersStay(c) ==
  \A o \in Call \ {c} : LifeOf(o)' = LifeOf(o) /\ ResultOf(o)' = ResultOf(o)

StaysAsIs(c) == LifeOf(c)' = LifeOf(c) /\ ResultOf(c)' = ResultOf(c)
ActsOn(c) ==
  /\ ResultOf(c) = "open" /\ ResultOf(c)' \in {"open", "raised"}
  /\ <<LifeOf(c), LifeOf(c)'>> \in Promise!CallMoves
Returns(c) ==
  /\ ResultOf(c) = "open" /\ ResultOf(c)' = "returned"
  /\ LifeOf(c)' = LifeOf(c) /\ LifeOf(c) \notin {"absent", "stored"}
Withdraws(c) ==
  /\ ResultOf(c) = "open" /\ ResultOf(c)' = "returned"
  /\ LifeOf(c) = "stored" /\ LifeOf(c)' = "withdrawn"
Raises(c) ==
  /\ ResultOf(c) = "open" /\ ResultOf(c)' = "raised"
  /\ LifeOf(c)' = LifeOf(c)
Serves(c) ==
  /\ ResultOf(c)' = ResultOf(c)
  /\ <<LifeOf(c), LifeOf(c)'>> \in Promise!ServiceMoves

(* Such a step is a step of Deployment, or leaves its variables alone.      *)
LEMMA MappedStep ==
  ASSUME NEW c \in Call, OthersStay(c),
         \/ StaysAsIs(c) \/ ActsOn(c) \/ Returns(c) \/ Withdraws(c)
         \/ Raises(c) \/ Serves(c)
  PROVE  [Promise!Next]_(Promise!vars)
<1> DEFINE life == [o \in Call |-> LifeOf(o)]
           result == [o \in Call |-> ResultOf(o)]
<1>1. /\ life' = [life EXCEPT ![c] = LifeOf(c)']
      /\ result' = [result EXCEPT ![c] = ResultOf(c)']
  BY DEF OthersStay
<1>2. LifeOf(c)' = LifeOf(c) => life' = life
  BY <1>1
<1>3. ResultOf(c)' = ResultOf(c) => result' = result
  BY <1>1
<1>4. life[c] = LifeOf(c) /\ result[c] = ResultOf(c)
  OBVIOUS
<1> HIDE DEF life, result
<1>5. CASE StaysAsIs(c)
  <2>1. life' = life /\ result' = result
    BY <1>2, <1>3, <1>5 DEF StaysAsIs
  <2>2. QED BY <2>1 DEF Promise!vars, life, result
<1>6. CASE ActsOn(c)
  <2>1. LifeOf(c)' \in Promise!Life
    BY <1>6 DEF ActsOn, Promise!CallMoves, Promise!Life
  <2>2. result' \in {result, [result EXCEPT ![c] = "raised"]}
    BY <1>1, <1>3, <1>4, <1>6 DEF ActsOn
  <2>3. Promise!Act(c)
    BY <1>1, <1>4, <1>6, <2>1, <2>2
    DEF ActsOn, Promise!Act, Promise!Move, life, result
  <2>4. QED BY <2>3 DEF Promise!Next
<1>7. CASE Returns(c)
  <2>1. Promise!Return(c)
    BY <1>1, <1>2, <1>4, <1>7 DEF Returns, Promise!Return, life, result
  <2>2. QED BY <2>1 DEF Promise!Next
<1>8. CASE Withdraws(c)
  <2>1. Promise!WithdrawAndReturn(c)
    BY <1>1, <1>4, <1>8
    DEF Withdraws, Promise!WithdrawAndReturn, Promise!Move, life, result
  <2>2. QED BY <2>1 DEF Promise!Next
<1>9. CASE Raises(c)
  <2>1. Promise!Raise(c)
    BY <1>1, <1>2, <1>4, <1>9 DEF Raises, Promise!Raise, life, result
  <2>2. QED BY <2>1 DEF Promise!Next
<1>10. CASE Serves(c)
  <2>1. LifeOf(c)' \in Promise!Life
    BY <1>10 DEF Serves, Promise!ServiceMoves, Promise!Life
  <2>2. Promise!Serve(c)
    BY <1>1, <1>3, <1>4, <1>10, <2>1
    DEF Serves, Promise!Serve, Promise!Move, life, result
  <2>3. QED BY <2>2 DEF Promise!Next
<1>11. QED BY <1>5, <1>6, <1>7, <1>8, <1>9, <1>10

(* What create_deployment, the service and other clients do to one call's   *)
(* model and deployment, and the call's end, is what Deployment allows: at  *)
(* most one deployment is made of a model, none loses its model while it    *)
(* starts or serves but one that was given up, no call returns with a model *)
(* nothing was deployed from, and a call that has ended changes nothing     *)
(* (deployment.py:397, 432-436, 442).                                       *)
THEOREM Implementation == Spec => ImplementsDeployment
<1>1. Init => Promise!Init
  <2> SUFFICES ASSUME Init PROVE Promise!Init
    OBVIOUS
  <2>1. ASSUME NEW c \in Call PROVE LifeOf(c) = "absent" /\ ResultOf(c) = "open"
    BY DEF Init, LifeOf, ResultOf, Ended
  <2>2. /\ [c \in Call |-> LifeOf(c)] = [c \in Call |-> "absent"]
        /\ [c \in Call |-> ResultOf(c)] = [c \in Call |-> "open"]
    BY <2>1
  <2>3. QED BY <2>2, Zenon DEF Promise!Init
<1>2. TypeOK /\ LocalInv /\ ModelInv /\ DeploymentInv /\ AskedInv /\ [Next]_vars
        => [Promise!Next]_(Promise!vars)
  <2> SUFFICES ASSUME TypeOK, LocalInv, ModelInv, DeploymentInv, AskedInv,
                      [Next]_vars
               PROVE  [Promise!Next]_(Promise!vars)
    OBVIOUS
  <2> USE DEF TypeOK, Goto, local, service, registry, OthersStay, Running, Ended
  <2>1. ASSUME NEW c \in Call,
               \/ Begin(c) \/ ResolveVersion(c) \/ DownloadArtifact(c)
               \/ PrepareEnvironment(c) \/ OpenArchive(c) \/ CloseArchive(c)
               \/ SetModelTag(c) \/ SetDeploymentTag(c)
        PROVE  [Promise!Next]_(Promise!vars)
    <3>1. /\ UNCHANGED <<catalog, deployment, abandoned>>
          /\ \E to \in Running : pc' = [pc EXCEPT ![c] = to]
          /\ pc[c] \notin Ended
      BY <2>1 DEF Begin, ResolveVersion, DownloadArtifact, PrepareEnvironment,
                  OpenArchive, CloseArchive, SetModelTag, SetDeploymentTag
    <3>2. OthersStay(c) /\ StaysAsIs(c)
      BY <3>1 DEF StaysAsIs, LifeOf, ResultOf
    <3>3. QED BY <3>2, MappedStep
  <2>2. ASSUME NEW c \in Call, CreateModel(c) PROVE [Promise!Next]_(Promise!vars)
    <3>1. pc[c] = "create" /\ pc'[c] \in {"tagModel", "raised"}
      BY <2>2 DEF CreateModel
    <3>2. catalog[c].state = "none" /\ deployment[c] = "none" /\ c \notin abandoned
      BY <3>1 DEF ModelInv, ModelOK, DeploymentInv, DeploymentOK, BeforeCreate,
                  AskedInv, AskedOK
    <3>3. catalog'[c].state = "live" /\ UNCHANGED <<deployment, abandoned>>
      BY <2>2 DEF CreateModel
    <3>4. LifeOf(c) = "absent" /\ LifeOf(c)' = "stored"
      BY <3>2, <3>3 DEF LifeOf
    <3>5. ResultOf(c) = "open" /\ ResultOf(c)' \in {"open", "raised"}
      BY <3>1 DEF ResultOf
    <3>6. OthersStay(c)
      BY <2>2 DEF CreateModel, LifeOf, ResultOf
    <3>7. ActsOn(c)
      BY <3>4, <3>5 DEF ActsOn, Promise!CallMoves
    <3>8. QED BY <3>6, <3>7, MappedStep
  <2>3. ASSUME NEW c \in Call, Deploy(c) PROVE [Promise!Next]_(Promise!vars)
    <3>1. /\ pc[c] = "deploy" /\ pc'[c] \in Running
          /\ UNCHANGED catalog
          /\ \/ UNCHANGED <<deployment, abandoned>>
             \/ deployment'[c] = "creating" /\ abandoned' = abandoned \cup {c}
             \/ deployment'[c] = "creating" /\ UNCHANGED abandoned
      BY <2>3 DEF Deploy
    <3>2. catalog[c].state = "live" /\ deployment[c] = "none" /\ c \notin abandoned
      BY <3>1 DEF ModelInv, ModelOK, DeploymentInv, DeploymentOK,
                  AskedInv, AskedOK
    <3>3. LifeOf(c) = "stored" /\ LifeOf(c)' \in {"stored", "given_up", "starting"}
      BY <3>1, <3>2 DEF LifeOf
    <3>4. ResultOf(c) = "open" /\ ResultOf(c)' = "open"
      BY <3>1 DEF ResultOf
    <3>5. OthersStay(c)
      BY <2>3 DEF Deploy, LifeOf, ResultOf
    <3>6. StaysAsIs(c) \/ ActsOn(c)
      BY <3>3, <3>4 DEF StaysAsIs, ActsOn, Promise!CallMoves
    <3>7. QED BY <3>5, <3>6, MappedStep
  <2>4. ASSUME NEW c \in Call, AwaitDeployment(c)
        PROVE  [Promise!Next]_(Promise!vars)
    <3>1. /\ UNCHANGED <<catalog, deployment, abandoned>>
          /\ \E to \in Running : pc' = [pc EXCEPT ![c] = to]
          /\ pc[c] \notin Ended
      BY <2>4 DEF AwaitDeployment, DeployRaises
    <3>2. OthersStay(c) /\ StaysAsIs(c)
      BY <3>1 DEF StaysAsIs, LifeOf, ResultOf
    <3>3. QED BY <3>2, MappedStep
  <2>5. ASSUME NEW c \in Call, PollRaises(c) PROVE [Promise!Next]_(Promise!vars)
    <3>1. /\ pc[c] = "wait" /\ pc'[c] = "rollback"
          /\ abandoned' = abandoned \cup {c}
          /\ UNCHANGED <<catalog, deployment>>
      BY <2>5 DEF PollRaises, DeployRaises
    <3>2. catalog[c].state = "live" /\ deployment[c] # "none"
      BY <3>1 DEF ModelInv, ModelOK, DeploymentInv, DeploymentOK
    <3>3. /\ LifeOf(c) \in {"starting", "serving", "down", "given_up"}
          /\ LifeOf(c)' = "given_up"
      BY <3>1, <3>2 DEF LifeOf
    <3>4. ResultOf(c) = "open" /\ ResultOf(c)' = "open"
      BY <3>1 DEF ResultOf
    <3>5. OthersStay(c)
      BY <2>5, <3>1 DEF PollRaises, DeployRaises, LifeOf, ResultOf
    <3>6. StaysAsIs(c) \/ ActsOn(c)
      BY <3>3, <3>4 DEF StaysAsIs, ActsOn, Promise!CallMoves
    <3>7. QED BY <3>5, <3>6, MappedStep
  <2>6. ASSUME NEW c \in Call, RollBack(c) PROVE [Promise!Next]_(Promise!vars)
    <3>1. /\ pc[c] = "rollback"
          /\ pc'[c] \in {"raised", IF md[c] = None THEN "returned" ELSE "tagDeployment"}
          /\ catalog'[c].state = "deleted"
          /\ UNCHANGED <<deployment, abandoned>>
      BY <2>6 DEF RollBack
    <3>2. /\ catalog[c].state = "live"
          /\ c \notin abandoned => deployment[c] \in {"none", "failed", "deleted"}
          /\ md[c] = None => deployment[c] = "none" /\ c \notin abandoned
      BY <3>1 DEF ModelInv, ModelOK, DeploymentInv, DeploymentOK, AskedInv, AskedOK
    <3>3. \/ /\ LifeOf(c) \in {"stored", "down"} /\ LifeOf(c)' = "withdrawn"
             /\ md[c] = None => LifeOf(c) = "stored"
          \/ LifeOf(c) = "given_up" /\ LifeOf(c)' = "given_up" /\ md[c] # None
      BY <3>1, <3>2 DEF LifeOf
    <3>4. /\ ResultOf(c) = "open"
          /\ ResultOf(c)' \in {"raised", IF md[c] = None THEN "returned" ELSE "open"}
      BY <3>1 DEF ResultOf
    <3>5. OthersStay(c)
      BY <2>6 DEF RollBack, LifeOf, ResultOf
    <3>6. Withdraws(c) \/ ActsOn(c) \/ StaysAsIs(c) \/ Raises(c)
      BY <3>3, <3>4 DEF Withdraws, StaysAsIs, ActsOn, Raises, Promise!CallMoves
    <3>7. QED BY <3>5, <3>6, MappedStep
  <2>7. ASSUME NEW c \in Call, SetEndpointTag(c)
        PROVE  [Promise!Next]_(Promise!vars)
    <3>1. /\ pc[c] = "tagEndpoint" /\ pc'[c] \in {"returned", "raised"}
          /\ UNCHANGED <<catalog, deployment, abandoned>>
      BY <2>7 DEF SetEndpointTag
    <3>2. /\ catalog[c].state # "none"
          /\ catalog[c].state = "deleted" \/ deployment[c] # "none"
      BY <3>1 DEF ModelInv, ModelOK, DeploymentInv, DeploymentOK
    <3>3. LifeOf(c)' = LifeOf(c) /\ LifeOf(c) \notin {"absent", "stored"}
      BY <3>1, <3>2 DEF LifeOf
    <3>4. Returns(c) \/ Raises(c)
      BY <3>1, <3>3 DEF Returns, Raises, ResultOf
    <3>5. OthersStay(c)
      BY <2>7, <3>1 DEF SetEndpointTag, LifeOf, ResultOf
    <3>6. QED BY <3>4, <3>5, MappedStep
  <2>8. ASSUME NEW c \in Call, Raise(c) PROVE [Promise!Next]_(Promise!vars)
    <3>1. /\ pc[c] \in Running /\ pc' = [pc EXCEPT ![c] = "raised"]
          /\ UNCHANGED <<catalog, deployment, abandoned>>
      BY <2>8 DEF Raise
    <3>2. OthersStay(c) /\ Raises(c)
      BY <3>1 DEF Raises, LifeOf, ResultOf
    <3>3. QED BY <3>2, MappedStep
  <2>9. ASSUME NEW c \in Call, Settle(c) PROVE [Promise!Next]_(Promise!vars)
    <3>1. /\ deployment[c] = "creating" /\ deployment'[c] \in {"active", "failed"}
          /\ UNCHANGED <<pc, catalog, abandoned>>
      BY <2>9 DEF Settle
    <3>2. \/ LifeOf(c)' = LifeOf(c)
          \/ LifeOf(c) = "starting" /\ LifeOf(c)' \in {"serving", "down"}
      BY <3>1 DEF LifeOf
    <3>3. ResultOf(c)' = ResultOf(c)
      BY <3>1 DEF ResultOf
    <3>4. StaysAsIs(c) \/ Serves(c)
      BY <3>2, <3>3 DEF StaysAsIs, Serves, Promise!ServiceMoves
    <3>5. OthersStay(c)
      BY <2>9 DEF Settle, LifeOf, ResultOf
    <3>6. QED BY <3>4, <3>5, MappedStep
  <2>10. ASSUME NEW c \in Call, DeleteDeployment(c)
         PROVE  [Promise!Next]_(Promise!vars)
    <3>1. /\ deployment[c] \in {"active", "failed"} /\ deployment'[c] = "deleted"
          /\ UNCHANGED <<pc, catalog, abandoned>>
      BY <2>10 DEF DeleteDeployment
    <3>2. \/ LifeOf(c)' = LifeOf(c)
          \/ LifeOf(c) = "serving" /\ LifeOf(c)' = "down"
      BY <3>1 DEF LifeOf
    <3>3. ResultOf(c)' = ResultOf(c)
      BY <3>1 DEF ResultOf
    <3>4. StaysAsIs(c) \/ Serves(c)
      BY <3>2, <3>3 DEF StaysAsIs, Serves, Promise!ServiceMoves
    <3>5. OthersStay(c)
      BY <2>10 DEF DeleteDeployment, LifeOf, ResultOf
    <3>6. QED BY <3>4, <3>5, MappedStep
  <2>11. CASE MoveStage \/ UNCHANGED vars
    <3>1. UNCHANGED <<pc, catalog, deployment, abandoned>>
      BY <2>11 DEF MoveStage, vars
    <3>2. \A c \in Call : StaysAsIs(c)
      BY <3>1 DEF StaysAsIs, LifeOf, ResultOf
    <3>3. QED BY <3>2 DEF StaysAsIs, Promise!vars
  <2>12. QED
    BY <2>1, <2>2, <2>3, <2>4, <2>5, <2>6, <2>7, <2>8, <2>9, <2>10, <2>11
    DEF Next, Advance
<1>3. QED
  BY <1>1, <1>2, TypeCorrect, LocalInvHolds, ModelInvHolds, DeploymentInvHolds,
     AskedInvHolds, PTL DEF Spec, ImplementsDeployment, Promise!Spec
=============================================================================
