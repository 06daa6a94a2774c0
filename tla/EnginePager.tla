----------------------------- MODULE EnginePager -----------------------------
(***************************************************************************)
(* The engine together with a provider that keeps alerts of its own:       *)
(* PagerDuty, Opsgenie and Zenduty (the EventDeliveryProviders).  An       *)
(* alert is identified by the incident's ID, a checksum of its key; it is  *)
(* opened by any event that is not a resolve and closed by a resolve only. *)
(*                                                                         *)
(* Whatever Process returns, and whatever LifecycleHook is called with,    *)
(* goes to NotifyIncident unless it is ActionSkip (handler.report,         *)
(* PvcMonitor.reportSignal, main).  Delivery is immediate and succeeds     *)
(* here, so what goes wrong below goes wrong with perfect providers.       *)
(***************************************************************************)
EXTENDS Engine

CONSTANT DigestAlert   \* stands for the alerts the digest summaries open

VARIABLE pager         \* the alerts open at the provider

pagerVars == <<vars, pager>>

BugEventAction(action) == "trigger"   \* a resolve is sent like the rest

(* event_action, or which of Opsgenie's and Zenduty's two calls is made.   *)
EventAction(action) == IF action = "Resolved" THEN "resolve" ELSE "trigger"

(* incidentToEvent: the alert of an incident, of a digest one of its own.  *)
DedupKey(n) == IF n.action = "DigestFlush" THEN {DigestAlert} ELSE n.keys

Sends(what) ==
  UNION {DedupKey(n) : n \in {m \in sent' : EventAction(m.action) = what}}

SendEvent == pager' = (pager \cup Sends("trigger")) \ Sends("resolve")

PagerInit == Init /\ pager = {}
PagerNext == Next /\ SendEvent
PagerSpec == PagerInit /\ [][PagerNext]_pagerVars

(***************************************************************************)
(* Without storms and hold-down, the alerts open at the provider are       *)
(* exactly the open incidents: nobody is paged for something that is over, *)
(* and no incident goes without its alert, through repeats, resolves,      *)
(* re-creations and expiry.                                                *)
(***************************************************************************)
PagerExact == pager = {k \in Key : Open(state[k])}

=============================================================================
