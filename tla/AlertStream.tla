----------------------------- MODULE AlertStream -----------------------------
(***************************************************************************)
(* What kwatch promises about the stream of notifications of one incident  *)
(* key, told from the operator's side of the alert channel:                *)
(*                                                                         *)
(*   silent      nothing is open                                           *)
(*   buffered    a storm hid the create, the digest still owes it          *)
(*   summarised  a digest counted it, no message of its own was sent       *)
(*   firing      the operator has been paged and not yet been told it ended *)
(*   held        so is this one, but it has been reported well since       *)
(*                                                                         *)
(* The engine's code has no such variable; Engine implements this module   *)
(* through a function of its incident table.                               *)
(***************************************************************************)
CONSTANT Key

VARIABLES told, sent

Action == {"Create", "Update", "Resolved", "Digest", "DigestFlush"}
Notification == [action : Action, keys : SUBSET Key]

Says(action, k) == [action |-> action, keys |-> {k}] \in sent'

Flushed(k) == \E n \in sent' : n.action = "DigestFlush" /\ k \in n.keys

Quiet(k) == \A action \in {"Create", "Update", "Resolved", "Digest"} : ~ Says(action, k)

Only(action, k) ==
  /\ Says(action, k)
  /\ \A other \in {"Create", "Update", "Resolved", "Digest"} \ {action} : ~ Says(other, k)

(* A page opens a silent key; a storm may hide it in the digest instead.   *)
FromSilent(k) ==
  \/ Only("Create", k) /\ told'[k] = "firing"
  \/ Only("Digest", k) /\ told'[k] = "buffered"
  \/ Quiet(k) /\ told'[k] = "silent"

(* A hidden incident surfaces through an Update, or ends unheard; it is    *)
(* summarised by the flush that carries its key.                           *)
FromHidden(k) ==
  \/ Only("Update", k) /\ told'[k] = "firing"
  \/ Quiet(k) /\ told'[k] = "silent"
  \/ Quiet(k) /\ told'[k] = IF Flushed(k) THEN "summarised" ELSE told[k]

(* A firing incident ends with exactly one Resolved, and not otherwise.    *)
FromFiring(k) ==
  \/ Only("Update", k) /\ told'[k] = "firing"
  \/ Only("Resolved", k) /\ told'[k] = "silent"
  \/ Quiet(k) /\ told'[k] \in {"firing", "held"}

(* One on hold may also be forgotten before its Resolved is due.           *)
FromHeld(k) ==
  \/ Only("Update", k) /\ told'[k] = "firing"
  \/ Only("Resolved", k) /\ told'[k] = "silent"
  \/ Quiet(k) /\ told'[k] \in {"firing", "held", "silent"}

Step(k) ==
  \/ told[k] = "silent" /\ FromSilent(k)
  \/ told[k] \in {"buffered", "summarised"} /\ FromHidden(k)
  \/ told[k] = "firing" /\ FromFiring(k)
  \/ told[k] = "held" /\ FromHeld(k)

Init == told = [k \in Key |-> "silent"] /\ sent = {}

Next == sent' \subseteq Notification /\ \A k \in Key : Step(k)

Spec == Init /\ [][Next]_<<told, sent>>
=============================================================================
