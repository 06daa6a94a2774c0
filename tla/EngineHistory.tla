--------------------------- MODULE EngineHistory ---------------------------
(***************************************************************************)
(* The engine with a history variable for a question its own state does    *)
(* not answer: which pages the operator got in the last storm window.      *)
(***************************************************************************)
EXTENDS Engine

VARIABLE paged   \* the keys paged as new in the last StormWindow, with their age

hvars == <<vars, paged>>

(* The pages of one call about keys that were not in the table.            *)
NewPages == {[key |-> k, age |-> 0] : k \in {j \in Key : Told("Create", j) /\ ~ Exists(j)}}

StillRemembered == {[c EXCEPT !.age = @ + 1] : c \in {d \in paged : d.age + 1 < StormWindow}}

Paging == paged' = paged \cup NewPages
Aging  == paged' = StillRemembered

HInit == Init /\ paged = {}

HNext ==
  \/ Call /\ Paging
  \/ Tick /\ Aging

HSpec == HInit /\ [][HNext]_hvars

HFairSpec ==
  /\ HSpec
  /\ WF_hvars(Tick /\ Aging)
  /\ WF_hvars(cleanup /\ Paging)
  /\ WF_hvars(checkLifecycle /\ Paging)

(***************************************************************************)
(* Of the incidents whose key is new to the table, fewer than              *)
(* storm.threshold are reported one by one in any storm.windowMinutes; the *)
(* rest are left to the digest.  A resolved incident that fails again is   *)
(* reported without a look at the storm, and is not counted here.          *)
(***************************************************************************)
NewPagesBounded == Cardinality(paged) < StormThreshold
=============================================================================
