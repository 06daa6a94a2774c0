---------------------------- MODULE EngineAlerts ----------------------------
(***************************************************************************)
(* The engine implements AlertStream: what the operator has been told of a *)
(* key is a function of the incident and the digest buffer.                *)
(***************************************************************************)
EXTENDS Engine

told ==
  [k \in Key |->
     IF ~ Open(state[k]) THEN "silent"
     ELSE IF ~ state[k].digested
     THEN IF state[k].status = "pending" THEN "held" ELSE "firing"
     ELSE IF k \in digestBuf THEN "buffered"
     ELSE "summarised"]

Alerts == INSTANCE AlertStream WITH Key <- Key, told <- told, sent <- sent

(***************************************************************************)
(* Per incident key the operator reads a well-formed story: a page or a    *)
(* digest entry, then updates, then one resolved; never a second page for  *)
(* an incident still open, a resolve of something never told, or an update *)
(* out of nowhere.  An incident just vanishes in one case only: on hold,   *)
(* when cleanup comes before checkLifecycle.                               *)
(***************************************************************************)
ImplementsAlertStream == Alerts!Spec
=============================================================================
