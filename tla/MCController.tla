---------------------------- MODULE MCController ----------------------------
(* Two objects at a time: the pair in which one kind silences another, and *)
(* pairs that have each of the other kinds once.                           *)
EXTENDS Controller, TLC

CONSTANTS o1, o2

MCKinds == {o1 :> "node" @@ o2 :> "daemonset", o1 :> "deployment" @@ o2 :> "hpa",
            o1 :> "job" @@ o2 :> "cronjob"}
=============================================================================
