--------------------------- MODULE MCUpdateDeployment ---------------------------
(* An instance of UpdateDeployment for TLC.                                 *)
EXTENDS UpdateDeployment, TLC
CONSTANTS c1, c2, c3, spec, name, shape, replicas, logId, displayName, old, new, newer, default

(* One call scales, one changes the shape and the name, one only the name.  *)
(* Nobody names the log, so an update of the specification may lose it.     *)
TwoParts == spec :> {shape, replicas, logId} @@ name :> {displayName}
ThreeConfigs ==
  c1 :> (spec :> (replicas :> new) @@ name :> None) @@
  c2 :> (spec :> (replicas :> newer @@ shape :> new) @@ name :> (displayName :> newer)) @@
  c3 :> (spec :> None @@ name :> (displayName :> new))
AllDefault == [p \in Part |-> [s \in SettingOf[p] |-> default]]
AllOld == [p \in Part |-> [s \in SettingOf[p] |-> old]]

=============================================================================
