----------------------------- MODULE KwatchState -----------------------------
(***************************************************************************)
(* What the two ConfigMaps of kwatch promise their readers, whatever       *)
(* writes to them at once and wherever kwatch is killed: each change that  *)
(* takes effect is one operation on the current content.                   *)
(***************************************************************************)
EXTENDS Naturals

CONSTANTS Boot, Version, Unset

VARIABLES
  clusterID, firstRun, \* set once, by the boot that found them unset
  version,             \* the kwatch that was last started
  notified,            \* the release that was last announced
  legacy,              \* the baseline where older kwatches kept it, 0 = none
  baseline             \* the baseline in its own ConfigMap, 0 = none

vars == <<clusterID, firstRun, version, notified, legacy, baseline>>

Init ==
  /\ clusterID \in Boot \cup {0, Unset} /\ firstRun \in Boot \cup {0, Unset}
  /\ version \in Version \cup {Unset} /\ notified \in Version \cup {Unset}
  /\ legacy \in Nat /\ baseline \in Nat

Initialize(b, v) ==
  /\ clusterID' = IF clusterID = Unset THEN b ELSE clusterID
  /\ firstRun' = IF firstRun = Unset THEN b ELSE firstRun
  /\ version' = v
  /\ UNCHANGED <<notified, legacy, baseline>>

Announced(v) ==
  /\ notified' = v
  /\ UNCHANGED <<clusterID, firstRun, version, legacy, baseline>>

Save ==
  /\ baseline' \in Nat \ {0}
  /\ UNCHANGED <<clusterID, firstRun, version, notified, legacy>>

(* The old copy goes once there is a new one.                              *)
Clear ==
  /\ baseline # 0
  /\ legacy' = 0
  /\ UNCHANGED <<clusterID, firstRun, version, notified, baseline>>

Next ==
  \/ \E b \in Boot, v \in Version : Initialize(b, v)
  \/ \E v \in Version : Announced(v)
  \/ Save
  \/ Clear

Spec == Init /\ [][Next]_vars
=============================================================================
