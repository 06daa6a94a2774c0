----------------------------- MODULE Broadcast -----------------------------
(***************************************************************************)
(* What the delivery of alerts promises to the people behind the           *)
(* providers: all are told the same story.  There is one order of jobs,    *)
(* and each provider is told a part of it without going back.  A provider  *)
(* may miss jobs: it may be down, routed away or too slow for its channel. *)
(* It may be told the same job several times in a row, when it carries a   *)
(* request out and the answer is lost.                                     *)
(***************************************************************************)
EXTENDS Naturals, Sequences

CONSTANTS Entries, Job

VARIABLES order, got

Init == order = <<>> /\ got = [p \in 1 .. Entries |-> <<>>]

(* A new job, told after all the others.                                   *)
Publish(job) ==
  /\ \A i \in DOMAIN order : order[i] # job
  /\ order' = Append(order, job)
  /\ UNCHANGED got

(* Nothing told to p so far comes after the i-th job of the story.         *)
Ahead(p, i) ==
  got[p] = <<>> \/ \E k \in 1 .. i : order[k] = got[p][Len(got[p])]

Tell(p, i) ==
  /\ Ahead(p, i)
  /\ got' = [got EXCEPT ![p] = Append(@, order[i])]
  /\ UNCHANGED order

Next ==
  \/ \E job \in Job : Publish(job)
  \/ \E p \in 1 .. Entries : \E i \in DOMAIN order : Tell(p, i)

Spec == Init /\ [][Next]_<<order, got>>
=============================================================================
