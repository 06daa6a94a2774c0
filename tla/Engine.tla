------------------------------- MODULE Engine -------------------------------
(***************************************************************************)
(* The correlation engine of kwatch (internal/correlation/engine.go): the  *)
(* table that turns raw failure events into incidents and decides, for     *)
(* every call, which notifications the operator gets.                      *)
(*                                                                         *)
(* Every exported method runs under one mutex (e.mu), so each is one       *)
(* atomic action here; what it hands to the alert manager, either as       *)
(* Process's return value or through LifecycleHook after the unlock, is    *)
(* the variable "sent".                                                    *)
(*                                                                         *)
(* Time.  The code stores timestamps and only ever compares their distance *)
(* to e.now() with a configured duration.  The model stores the distance:  *)
(* an AGE that Tick increases and that stops one past the duration it is   *)
(* compared with.  "now.After(t.Add(d))" is then "age > d" and the state   *)
(* space is finite without bounding time.                                  *)
(***************************************************************************)
EXTENDS Integers, FiniteSets, Sequences

CONSTANTS
  Key,               \* incident keys: "namespace:owner:reason:"
  Pod,               \* names an event may carry in PodName ("" when it has none)
  Node,              \* node names
  Namespace,         \* namespaces of the cluster; "" is the cluster scope
  Identity,          \* Key -> what the key's events say of resource, namespace, owner
  Event,             \* the events the detectors may report
  PersistedBaseline, \* the baselines NewEngine may find in the ConfigMap
  LiveBaseline,      \* the baselines buildSeenSet may compute from the listers
  Window,            \* correlation.window
  HoldDown,          \* correlation.resolveHoldDown, 0 = off
  Inhibit,           \* inhibition.nodeSuppressesPods
  EscalationEnabled, \* correlation.escalation.enabled
  Tiers,             \* correlation.escalation.tiers
  StormEnabled,      \* storm.enabled
  StormThreshold,    \* storm.threshold
  StormWindow,       \* storm.windowMinutes
  DigestInterval,    \* storm.digestIntervalMinutes
  RenotifyInterval,  \* severity -> renotify interval, 0 = never
  RenotifyMax,       \* correlation.renotify.maxPerIncident
  BaselineTTL,       \* how long a baseline entry silences its pod
  MaxBaseline        \* correlation.maxBaseline

Severity == 0 .. 3          \* severityRank: normal, medium, high, critical
High     == 2
Critical == 3
NoStatus == -1              \* the event carries no container status (cs == nil)
Unseen   == -1              \* the pod has no baseline entry under the key
PodName  == Pod \cup {""}

Baseline == [Key -> [PodName -> Unseen .. BaselineTTL]]

ASSUME KeyAssumption ==
  /\ IsFiniteSet(Key)
  /\ "" \notin Namespace /\ "" \notin Node
  /\ Identity \in [Key -> [resource  : STRING,
                           namespace : Namespace \cup {""},
                           name      : STRING]]
  /\ \A k \in Key : Identity[k].resource = "node" =>
        Identity[k].name \in Node /\ Identity[k].namespace = ""

(***************************************************************************)
(* A node's events name the node both as owner and as NodeName             *)
(* (handler.emitNodeAlert).                                                *)
(***************************************************************************)
ASSUME EventAssumption ==
  /\ Event \subseteq [key : Key, pod : PodName, node : Node \cup {""},
                      severity : Severity, restarts : {NoStatus} \cup Nat]
  /\ \A e \in Event : Identity[e.key].resource = "node" =>
        e.node = Identity[e.key].name

(***************************************************************************)
(* What config.LoadConfig and ValidateConfig let through; NewEngine and    *)
(* checkLifecycle replace the remaining zero values by defaults.           *)
(***************************************************************************)
ASSUME ConfigAssumption ==
  /\ Window \in Nat \ {0} /\ HoldDown \in Nat /\ HoldDown <= Window
  /\ Inhibit \in BOOLEAN /\ EscalationEnabled \in BOOLEAN /\ StormEnabled \in BOOLEAN
  /\ Tiers \in Seq(Nat)
  /\ StormThreshold \in Nat \ {0} /\ StormWindow \in Nat \ {0} /\ DigestInterval \in Nat
  /\ RenotifyInterval \in [Severity -> Nat] /\ RenotifyMax \in Nat \ {0}
  /\ BaselineTTL \in Nat \ {0} /\ MaxBaseline \in Nat \ {0}
  /\ PersistedBaseline \subseteq Baseline /\ LiveBaseline \subseteq Baseline

(***************************************************************************)
(* Definitions named Bug... are mistakes this code could have made, each   *)
(* next to the definition it would replace.  Nothing uses them: they show  *)
(* that the properties below can fail.                                     *)
(***************************************************************************)

VARIABLES
  state,               \* key -> incident
  namespaceIndex,      \* the keys filed under their (non-empty) namespace
  seen,                \* the baseline: key -> pod -> age of the entry
  activeNodeIncidents, \* the nodes whose pods are inhibited
  lastContainerIndex,  \* namespace, pod -> restart count of the last status
  recentCreates,       \* the creates the storm detector remembers, with their age
  stormLeft,           \* time until stormUntil
  digestBuf,           \* keys whose creation the next digest will report
  sinceFlush,          \* age of lastDigestFlush
  seeded,              \* buildSeenSet is done and the workers run
  sent,                \* the notifications the last call handed to the alert manager
  snapshot             \* whether the last call handed OnBaselineChange a baseline

vars == <<state, namespaceIndex, seen, activeNodeIncidents, lastContainerIndex,
          recentCreates, stormLeft, digestBuf, sinceFlush, seeded, sent, snapshot>>

stormVars == <<recentCreates, stormLeft, digestBuf, sinceFlush>>

(***************************************************************************)
(* Incidents.  "absent" stands for a key without an entry in e.state.      *)
(* Hint, logs, counters and the other text of an incident are left out.    *)
(***************************************************************************)
Status == {"absent", "active", "pending", "resolved"}
Sig    == [phase : {"none", "firing", "resolved"}, severity : Severity]
NoSig  == [phase |-> "none", severity |-> 0]

RenotifyCap(s) == IF RenotifyInterval[s] = 0 THEN 0 ELSE RenotifyInterval[s] + 1

Incident ==
  [status         : Status,
   severity       : Severity,
   notifiedSig    : Sig,          \* NotifiedSig: what the operator was last told
   digested       : BOOLEAN,      \* Digested: created inside a digest
   resources      : SUBSET Pod,
   restarts       : Nat,          \* RestartCount
   idle           : 0 .. Window + 1,    \* age of LastSeen
   held           : 0 .. HoldDown + 1,  \* age of the transition to pending (ResolveAt)
   sinceNotified  : Nat,          \* age of LastNotifiedAt
   renotifyCount  : 0 .. RenotifyMax,
   suppressedPods : BOOLEAN]      \* SuppressedPods > 0

NoIncident ==
  [status |-> "absent", severity |-> 0, notifiedSig |-> NoSig, digested |-> FALSE,
   resources |-> {}, restarts |-> 0, idle |-> 0, held |-> 0, sinceNotified |-> 0,
   renotifyCount |-> 0, suppressedPods |-> FALSE]

Exists(k) == state[k].status # "absent"
Open(inc) == inc.status \in {"active", "pending"}
IsNode(k) == Identity[k].resource = "node"

OpenNodes(st) == {Identity[k].name : k \in {j \in Key : IsNode(j) /\ Open(st[j])}}

Action == {"Create", "Update", "Resolved", "Digest", "DigestFlush"}
Notification == [action : Action, keys : SUBSET Key]

Notify(action, k) == [action |-> action, keys |-> {k}]

TypeOK ==
  /\ state \in [Key -> Incident]
  /\ namespaceIndex \subseteq Key
  /\ seen \in Baseline
  /\ activeNodeIncidents \subseteq Node
  /\ lastContainerIndex \in [Namespace \cup {""} -> [Pod -> {NoStatus} \cup Nat]]
  /\ recentCreates \subseteq [key : Key, age : 0 .. StormWindow]
  /\ stormLeft \in 0 .. StormWindow
  /\ digestBuf \subseteq Key
  /\ sinceFlush \in 0 .. DigestInterval + 1
  /\ seeded \in BOOLEAN
  /\ sent \subseteq Notification
  /\ snapshot \in BOOLEAN

-----------------------------------------------------------------------------
(* Severity and the notification edge.                                     *)

notifSig(inc) ==
  [phase |-> IF inc.status = "resolved" THEN "resolved" ELSE "firing",
   severity |-> inc.severity]

BugEdgeDigestForgotten(inc) ==   \* a resolve of what only a digest counted
  CASE notifSig(inc) = inc.notifiedSig -> "Skip"
    [] OTHER -> IF inc.status = "resolved" THEN "Resolved"
                ELSE IF inc.notifiedSig = NoSig THEN "Create" ELSE "Update"

edgeAction(inc) ==
  CASE inc.digested /\ inc.status = "resolved" -> "Skip"
    [] notifSig(inc) = inc.notifiedSig         -> "Skip"
    [] OTHER -> IF inc.status = "resolved" THEN "Resolved"
                ELSE IF inc.notifiedSig = NoSig THEN "Create" ELSE "Update"

BugAnnouncedOnce(inc) ==      \* the signature is stored with the Create only
  IF inc.notifiedSig # NoSig THEN inc
  ELSE [inc EXCEPT !.notifiedSig = notifSig(inc), !.sinceNotified = 0, !.digested = FALSE]

Announced(inc) ==
  IF notifSig(inc) = inc.notifiedSig /\ ~ (inc.digested /\ inc.status = "resolved")
  THEN inc
  ELSE [inc EXCEPT !.notifiedSig = notifSig(inc),
                   !.sinceNotified = 0,
                   !.digested = @ /\ inc.status = "resolved"]

EdgeOf(k, inc) ==
  IF edgeAction(inc) = "Skip" THEN {} ELSE {Notify(edgeAction(inc), k)}

(* The last tier whose threshold lies in (prev, new], or 0.                *)
crossedTier(prev, new) ==
  LET hit == {i \in DOMAIN Tiers : prev < Tiers[i] /\ new >= Tiers[i]}
  IN  IF hit = {} THEN 0 ELSE CHOOSE i \in hit : \A j \in hit : j <= i

severityForTier(tier, current) ==
  LET sev == IF tier = 1 THEN High ELSE Critical
  IN  IF current > sev THEN current ELSE sev

(* Enricher.Enrich: severity never goes down on an existing incident.      *)
Enrich(inc, sev) == [inc EXCEPT !.severity = IF sev >= @ THEN sev ELSE @]

(***************************************************************************)
(* The severity Process passes to the enricher: the event's own, unless    *)
(* the restart count crosses an escalation tier.                           *)
(***************************************************************************)
EventSeverity(e, prevRestarts, current) ==
  IF EscalationEnabled /\ e.restarts # NoStatus /\ crossedTier(prevRestarts, e.restarts) > 0
  THEN severityForTier(crossedTier(prevRestarts, e.restarts), current)
  ELSE e.severity

newIncident(e) ==
  Enrich([NoIncident EXCEPT
            !.status = "active",
            !.resources = {e.pod} \ {""},
            !.restarts = IF e.restarts = NoStatus THEN 0 ELSE e.restarts],
         EventSeverity(e, -1, 0))

(* What every event on an existing incident does to it.                    *)
Touched(inc, e) ==
  [inc EXCEPT !.status = "active", !.idle = 0, !.held = 0,
              !.resources = @ \cup ({e.pod} \ {""}),
              !.restarts = IF e.restarts = NoStatus THEN @ ELSE e.restarts]

-----------------------------------------------------------------------------
(* The baseline of failures that were there before kwatch.                 *)

isBaselined(k, p) == seen[k][p] # Unseen /\ seen[k][p] < BaselineTTL

Forget(base, K) ==      \* delete(e.seen, key) for the keys in K
  [k \in Key |-> IF k \in K THEN [p \in PodName |-> Unseen] ELSE base[k]]

Entries(base) == {x \in Key \X PodName : base[x[1]][x[2]] # Unseen}

Fresh(base) ==          \* the entries younger than the TTL
  [k \in Key |-> [p \in PodName |-> IF base[k][p] < BaselineTTL THEN base[k][p] ELSE Unseen]]

evictToLimit(base) ==
  LET all == Entries(base)
      old(x) == base[x[1]][x[2]]
  IN  IF Cardinality(all) <= MaxBaseline THEN {base}
      ELSE {[k \in Key |-> [p \in PodName |-> IF <<k, p>> \in kept THEN base[k][p] ELSE Unseen]] :
              kept \in {S \in SUBSET all : /\ Cardinality(S) = MaxBaseline
                                           /\ \A x \in S, y \in all \ S : old(x) <= old(y)}}

SeenAfter(base) == evictToLimit(Fresh(base))

(***************************************************************************)
(* buildSeenSet hands the engine what the listers show as broken, or does  *)
(* not call it when nothing is; either way the workers start afterwards.   *)
(***************************************************************************)
SetSeen(base) ==
  /\ ~ seeded
  /\ seeded' = TRUE
  /\ IF Entries(base) = {}
     THEN UNCHANGED seen /\ snapshot' = FALSE
     ELSE seen' \in SeenAfter(base) /\ snapshot' = TRUE
  /\ sent' = {}
  /\ UNCHANGED <<state, namespaceIndex, activeNodeIncidents, lastContainerIndex, stormVars>>

(* A pod was seen healthy: its entries under its own namespace go.         *)
ClearSeenForPod(ns, p) ==
  LET own == {k \in Key : Identity[k].namespace = ns}
  IN  /\ seeded
      /\ seen' = [k \in Key |-> IF k \in own THEN [seen[k] EXCEPT ![p] = Unseen] ELSE seen[k]]
      /\ snapshot' = \E k \in own : seen[k][p] # Unseen
      /\ sent' = {}
      /\ UNCHANGED <<state, namespaceIndex, activeNodeIncidents, lastContainerIndex,
                     stormVars, seeded>>

-----------------------------------------------------------------------------
(* Process: one failure event.                                             *)

(* Only the PVC monitor runs before the controller has seeded the baseline. *)
Reported(e) == seeded \/ Identity[e.key].resource = "pvc"

BugInhibitedByActive(e) ==    \* a node on hold no longer inhibits
  /\ Inhibit
  /\ Identity[e.key].resource = "pod"
  /\ \E k \in Key : /\ IsNode(k) /\ Identity[k].name = e.node
                    /\ state[k].status = "active"

Inhibited(e) ==
  /\ Inhibit
  /\ Identity[e.key].resource = "pod"
  /\ e.node # ""
  /\ e.node \in activeNodeIncidents

ProcessBaselined(e) ==
  /\ isBaselined(e.key, e.pod)
  /\ sent' = {} /\ snapshot' = FALSE
  /\ UNCHANGED <<state, namespaceIndex, seen, activeNodeIncidents, lastContainerIndex,
                 stormVars, seeded>>

(* isBaselined drops the entry it finds expired, and nothing else.         *)
BugDropKey(e) == Forget(seen, {e.key})

DropExpired(e) == [seen EXCEPT ![e.key][e.pod] = Unseen]

(***************************************************************************)
(* What Process does before it looks at the incident table: the lookup     *)
(* drops an expired baseline entry (without telling OnBaselineChange), a   *)
(* node event raises the node's inhibition flag.                           *)
(***************************************************************************)
Unbaselined(e) ==
  /\ ~ isBaselined(e.key, e.pod)
  /\ seen' = DropExpired(e)
  /\ activeNodeIncidents' = activeNodeIncidents \cup (IF IsNode(e.key) THEN {e.node} ELSE {})
  /\ snapshot' = FALSE
  /\ UNCHANGED seeded

(***************************************************************************)
(* findNodeIncident returns any incident of the node, a resolved one       *)
(* included: whichever the map iteration meets first.                      *)
(***************************************************************************)
ProcessInhibited(e) ==
  LET onNode == {k \in Key : IsNode(k) /\ Identity[k].name = e.node /\ Exists(k)}
  IN  /\ Inhibited(e)
      /\ Unbaselined(e)
      /\ IF onNode = {} THEN UNCHANGED state
         ELSE \E k \in onNode : state' = [state EXCEPT ![k].suppressedPods = TRUE]
      /\ sent' = {}
      /\ UNCHANGED <<namespaceIndex, lastContainerIndex, stormVars>>

(* The incidents GetIncidentsByNamespace finds under their namespace.      *)
indexIncidentByNamespace(k) ==
  namespaceIndex \cup (IF Identity[k].namespace = "" THEN {} ELSE {k})

(* Past both gates the event becomes incident inc under its key.           *)
Admit(e, inc) ==
  /\ ~ Inhibited(e)
  /\ Unbaselined(e)
  /\ state' = [state EXCEPT ![e.key] = inc]
  /\ namespaceIndex' = indexIncidentByNamespace(e.key)
  /\ lastContainerIndex' =
        IF e.pod = "" \/ e.restarts = NoStatus THEN lastContainerIndex
        ELSE [lastContainerIndex EXCEPT ![Identity[e.key].namespace][e.pod] = e.restarts]

AdmitAndTell(e, inc) ==
  /\ Admit(e, Announced(inc))
  /\ sent' = EdgeOf(e.key, inc)

(* A resolved incident is replaced; this path does not look for a storm.   *)
ProcessRecreate(e) ==
  /\ state[e.key].status = "resolved"
  /\ AdmitAndTell(e, newIncident(e))
  /\ UNCHANGED stormVars

(* The scheduled resolve is revoked; restart tiers are not looked at.      *)
ProcessRevive(e) ==
  /\ state[e.key].status = "pending"
  /\ AdmitAndTell(e, Enrich(Touched(state[e.key], e), e.severity))
  /\ UNCHANGED stormVars

ProcessRepeat(e) ==
  LET inc == state[e.key]
  IN  /\ inc.status = "active"
      /\ AdmitAndTell(e, Enrich(Touched(inc, e), EventSeverity(e, inc.restarts, inc.severity)))
      /\ UNCHANGED stormVars

(* The creates the detector still counts once this one is recorded.        *)
Recent(e) ==
  {c \in recentCreates \cup {[key |-> e.key, age |-> 0]} : c.age < StormWindow}

BugStormingLate(e) ==         \* the create that reaches the threshold slips through
  StormEnabled /\ (stormLeft > 0 \/ Cardinality(Recent(e)) > StormThreshold)

Storming(e) == StormEnabled /\ (stormLeft > 0 \/ Cardinality(Recent(e)) >= StormThreshold)

ProcessNew(e) ==
  /\ ~ Exists(e.key)
  /\ ~ Storming(e)
  /\ AdmitAndTell(e, newIncident(e))
  /\ recentCreates' = IF StormEnabled THEN Recent(e) ELSE recentCreates
  /\ UNCHANGED <<stormLeft, digestBuf, sinceFlush>>

ProcessDigested(e) ==
  LET inc == newIncident(e)
  IN  /\ ~ Exists(e.key)
      /\ Storming(e)
      /\ Admit(e, [inc EXCEPT !.digested = TRUE, !.notifiedSig = notifSig(inc)])
      /\ sent' = {Notify("Digest", e.key)}
      /\ recentCreates' = Recent(e)
      /\ stormLeft' = StormWindow
      /\ digestBuf' = digestBuf \cup {e.key}
      /\ UNCHANGED sinceFlush

Process(e) ==
  /\ Reported(e)
  /\ \/ ProcessBaselined(e)
     \/ ProcessInhibited(e)
     \/ ProcessRecreate(e)
     \/ ProcessRevive(e)
     \/ ProcessRepeat(e)
     \/ ProcessNew(e)
     \/ ProcessDigested(e)

-----------------------------------------------------------------------------
(* Resolution.                                                             *)

(***************************************************************************)
(* Settle(inc) is the incident after a recovery report: on hold when a     *)
(* hold-down is configured, resolved (and the operator told) otherwise.    *)
(***************************************************************************)
OnHold(inc)   == [inc EXCEPT !.status = "pending", !.held = 0]
Resolved(inc) == [inc EXCEPT !.status = "resolved", !.held = 0]
Settle(inc)   == IF HoldDown > 0 THEN OnHold(inc) ELSE Announced(Resolved(inc))

ResolvedEdges(K) == UNION {EdgeOf(k, Resolved(state[k])) : k \in K}

(***************************************************************************)
(* refreshNodeInhibition for each node incident in K: the flag goes down   *)
(* when the table st no longer holds an open incident of that node.        *)
(***************************************************************************)
BugRefreshUnchecked(K, st) == \* other open incidents of the node are not looked at
  activeNodeIncidents \ {Identity[k].name : k \in {j \in K : IsNode(j)}}

refreshNodeInhibition(K, st) ==
  activeNodeIncidents \ ({Identity[k].name : k \in {j \in K : IsNode(j)}} \ OpenNodes(st))

MarkResolved(k) ==
  LET done == HoldDown = 0
      next == [state EXCEPT ![k] = Settle(@)]
  IN  /\ seeded
      /\ state[k].status = "active"
      /\ state' = next
      /\ seen' = IF done THEN Forget(seen, {k}) ELSE seen
      /\ activeNodeIncidents' =
            IF done THEN refreshNodeInhibition({k}, next) ELSE activeNodeIncidents
      /\ sent' = IF done THEN ResolvedEdges({k}) ELSE {}
      /\ snapshot' = done
      /\ UNCHANGED <<namespaceIndex, lastContainerIndex, stormVars, seeded>>

(* A recovery of something without an active incident changes nothing.     *)
MarkResolvedIdle(k) ==
  /\ seeded
  /\ state[k].status # "active"
  /\ sent' = {} /\ snapshot' = FALSE
  /\ UNCHANGED <<state, namespaceIndex, seen, activeNodeIncidents, lastContainerIndex,
                 stormVars, seeded>>

(***************************************************************************)
(* RemovePod takes the pod out of every incident of its namespace and      *)
(* settles those left empty, then drops the pod's baseline entries.        *)
(***************************************************************************)
RemovePod(ns, p) ==
  LET hit     == {k \in Key : Identity[k].namespace = ns /\ p \in state[k].resources}
      emptied == {k \in hit : state[k].resources = {p} /\ state[k].status = "active"}
      closed  == IF HoldDown = 0 THEN emptied ELSE {}
      without(inc) == [inc EXCEPT !.resources = @ \ {p}]
      kept    == Forget(seen, closed)
  IN  /\ seeded
      /\ state' = [k \in Key |->
            CASE k \in emptied -> Settle(without(state[k]))
              [] k \in hit \ emptied -> without(state[k])
              [] OTHER -> state[k]]
      /\ seen' = [k \in Key |-> [kept[k] EXCEPT ![p] = Unseen]]
      /\ lastContainerIndex' = [lastContainerIndex EXCEPT ![ns][p] = NoStatus]
      /\ sent' = ResolvedEdges(closed)
      /\ snapshot' = (closed # {} \/ \E k \in Key : kept[k][p] # Unseen)
      /\ UNCHANGED <<namespaceIndex, activeNodeIncidents, stormVars, seeded>>

(* The object of that resource and name is healthy or gone.                *)
ResolveByResource(resource, name) ==
  LET hit    == {k \in Key : /\ Identity[k].resource = resource
                             /\ Identity[k].name = name
                             /\ state[k].status = "active"}
      closed == IF HoldDown = 0 THEN hit ELSE {}
      next   == [k \in Key |-> IF k \in hit THEN Settle(state[k]) ELSE state[k]]
  IN  /\ seeded \/ resource = "pvc"
      /\ state' = next
      /\ seen' = Forget(seen, closed)
      /\ activeNodeIncidents' = refreshNodeInhibition(closed, next)
      /\ sent' = ResolvedEdges(closed)
      /\ snapshot' = (closed # {})
      /\ UNCHANGED <<namespaceIndex, lastContainerIndex, stormVars, seeded>>

-----------------------------------------------------------------------------
(* The two tickers of StartCleanup.                                        *)

removeIncidentFromNamespaceIndex(K) == namespaceIndex \ K

(* Incidents without an event for a whole window leave the table.          *)
Expired == {k \in Key : Exists(k) /\ state[k].idle > Window}

cleanup ==
  LET next == [k \in Key |-> IF k \in Expired THEN NoIncident ELSE state[k]]
  IN  /\ state' = next
      /\ sent' = ResolvedEdges({k \in Expired : state[k].status = "active"})
      /\ seen' = Forget(seen, Expired)
      /\ namespaceIndex' = removeIncidentFromNamespaceIndex(Expired)
      /\ activeNodeIncidents' = refreshNodeInhibition(Expired, next)
      /\ snapshot' = FALSE
      /\ UNCHANGED <<lastContainerIndex, stormVars, seeded>>

BugMaturedEarly == {k \in Key : state[k].status = "pending" /\ state[k].held >= HoldDown}

(* Pending incidents whose hold-down has run out.                          *)
Matured == {k \in Key : state[k].status = "pending" /\ state[k].held > HoldDown}

BugDueForever ==              \* the renotify budget is not looked at
  {k \in Key : LET inc == state[k]
                   interval == RenotifyInterval[inc.severity]
               IN  /\ inc.status = "active" /\ ~ inc.digested
                   /\ interval > 0 /\ inc.sinceNotified > interval}

(* Incidents the operator saw that are due for a reminder.                 *)
DueAgain ==
  {k \in Key : LET inc == state[k]
                   interval == RenotifyInterval[inc.severity]
               IN  /\ inc.status = "active" /\ ~ inc.digested
                   /\ inc.renotifyCount < RenotifyMax
                   /\ interval > 0 /\ inc.sinceNotified > interval}

BugFlushAfterStorm ==         \* the digest waits for the storm to end
  StormEnabled /\ digestBuf # {} /\ sinceFlush > DigestInterval /\ stormLeft = 0

FlushDue == StormEnabled /\ digestBuf # {} /\ sinceFlush > DigestInterval

checkLifecycle ==
  LET next == [k \in Key |->
        CASE k \in Matured  -> Announced(Resolved(state[k]))
          [] k \in DueAgain -> [state[k] EXCEPT !.renotifyCount = @ + 1, !.sinceNotified = 0]
          [] OTHER          -> state[k]]
  IN  /\ state' = next
      /\ seen' = Forget(seen, Matured)
      /\ activeNodeIncidents' = refreshNodeInhibition(Matured, next)
      /\ sent' = ResolvedEdges(Matured)
                 \cup {Notify("Update", k) : k \in DueAgain}
                 \cup (IF FlushDue THEN {[action |-> "DigestFlush", keys |-> digestBuf]} ELSE {})
      /\ digestBuf' = IF FlushDue THEN {} ELSE digestBuf
      /\ sinceFlush' = IF FlushDue THEN 0 ELSE sinceFlush
      /\ snapshot' = (Matured # {})
      /\ UNCHANGED <<namespaceIndex, lastContainerIndex, recentCreates, stormLeft, seeded>>

-----------------------------------------------------------------------------
(* Time.                                                                   *)

Older(age, cap) == IF age < cap THEN age + 1 ELSE age

Aged(inc) ==
  IF inc.status = "absent" THEN inc
  ELSE [inc EXCEPT !.idle = Older(@, Window + 1),
                   !.held = IF inc.status = "pending" THEN Older(@, HoldDown + 1) ELSE @,
                   !.sinceNotified = Older(@, RenotifyCap(inc.severity))]

Tick ==
  /\ state' = [k \in Key |-> Aged(state[k])]
  /\ seen' = [k \in Key |-> [p \in PodName |->
                IF seen[k][p] = Unseen THEN Unseen ELSE Older(seen[k][p], BaselineTTL)]]
  /\ recentCreates' = {[c EXCEPT !.age = Older(@, StormWindow)] : c \in recentCreates}
  /\ stormLeft' = IF stormLeft > 0 THEN stormLeft - 1 ELSE 0
  /\ sinceFlush' = Older(sinceFlush, DigestInterval + 1)
  /\ sent' = {} /\ snapshot' = FALSE
  /\ UNCHANGED <<namespaceIndex, activeNodeIncidents, lastContainerIndex, digestBuf, seeded>>

-----------------------------------------------------------------------------
(***************************************************************************)
(* NewEngine: empty tables and the persisted baseline, less what the TTL   *)
(* and the limit take away.  Without a ConfigMap there is no snapshot.     *)
(***************************************************************************)
Init ==
  /\ state = [k \in Key |-> NoIncident]
  /\ namespaceIndex = {}
  /\ \E base \in PersistedBaseline :
       seen \in SeenAfter(base) /\ snapshot \in {TRUE, Entries(base) # {}}
  /\ activeNodeIncidents = {}
  /\ lastContainerIndex = [ns \in Namespace \cup {""} |-> [p \in Pod |-> NoStatus]]
  /\ recentCreates = {}
  /\ stormLeft = 0
  /\ digestBuf = {}
  /\ sinceFlush = DigestInterval + 1
  /\ seeded = FALSE
  /\ sent = {}

(***************************************************************************)
(* Who calls what: MarkResolved is the node and HPA handlers' report of    *)
(* one healthy condition, ResolveByResource every other monitor's; pods    *)
(* leave by RemovePod.                                                     *)
(***************************************************************************)
Conditions == {k \in Key : Identity[k].resource \in {"node", "horizontalpodautoscaler"}}
Monitored  == {k \in Key : Identity[k].resource # "pod"}

Call ==
  \/ \E base \in LiveBaseline : SetSeen(base)
  \/ \E e \in Event : Process(e)
  \/ \E k \in Conditions : MarkResolved(k) \/ MarkResolvedIdle(k)
  \/ \E ns \in Namespace, p \in Pod : RemovePod(ns, p) \/ ClearSeenForPod(ns, p)
  \/ \E k \in Monitored : ResolveByResource(Identity[k].resource, Identity[k].name)
  \/ cleanup
  \/ checkLifecycle

Next == Call \/ Tick

Spec == Init /\ [][Next]_vars

(* StartCleanup's goroutine serves both tickers for as long as kwatch runs. *)
FairSpec == Spec /\ WF_vars(Tick) /\ WF_vars(cleanup) /\ WF_vars(checkLifecycle)

-----------------------------------------------------------------------------
(* Invariants.                                                             *)

(***************************************************************************)
(* A node inhibits its pods exactly while it has an open incident: through *)
(* the hold-down, with several conditions failing at once, and whichever   *)
(* of the five ways an incident ends it takes.                             *)
(***************************************************************************)
NodeInhibition == activeNodeIncidents = OpenNodes(state)

(* The namespace index lists exactly the incidents of the table that have  *)
(* a namespace, so the per-namespace API never shows a forgotten one.      *)
NamespaceIndexed ==
  namespaceIndex = {k \in Key : Exists(k) /\ Identity[k].namespace # ""}

(* Both caches of the table agree with it after every operation.           *)
CachesExact == NodeInhibition /\ NamespaceIndexed

(* The signature kept as "last told" is the incident's own: no change of   *)
(* phase or severity, on any path, goes past edgeAction.                   *)
OperatorUpToDate ==
  \A k \in Key : Exists(k) => state[k].notifiedSig = notifSig(state[k])

(* A pending incident has had no event since it went on hold.              *)
HoldIsQuiet ==
  \A k \in Key : state[k].status = "pending" =>
     HoldDown > 0 /\ state[k].held <= state[k].idle

-----------------------------------------------------------------------------
(* Action properties.                                                      *)

Told(action, k) == Notify(action, k) \in sent'

(* With a hold-down, nobody reads "resolved" about something that was seen *)
(* failing less than the hold-down ago.                                    *)
ResolvedIsQuiet ==
  [][\A k \in Key : HoldDown > 0 /\ Told("Resolved", k) => state[k].idle > HoldDown]_vars

(* Severity is sticky for the life of an incident.                         *)
SeverityMonotone ==
  [][\A k \in Key : Open(state[k]) /\ Open(state'[k]) =>
        state'[k].severity >= state[k].severity]_vars

(* No pod is reported while its node has an open incident: an incident of  *)
(* key k becomes visible only through an event whose node is healthy.      *)
PodQuietDuringNodeOutage ==
  [][\A k \in Key :
        /\ Inhibit
        /\ Identity[k].resource = "pod"
        /\ Told("Create", k) \/ Told("Digest", k)
        => \E e \in Event : e.key = k /\ e.node \notin OpenNodes(state)]_vars

(***************************************************************************)
(* How an entry can go other than by its pod: the whole baseline is        *)
(* replaced, or the incident of its key is settled or ages out.            *)
(***************************************************************************)
ReleasedWithKey(k) ==
  \/ seeded' # seeded
  \/ state'[k].status \in {"resolved", "absent"} /\ Exists(k)

SeenHealthy(k, p) == \E ns \in Namespace : ns = Identity[k].namespace /\ ClearSeenForPod(ns, p)

(***************************************************************************)
(* A live baseline entry goes with its key, or because a pod of its name   *)
(* was removed, or its own pod was seen healthy: never because of a pod of *)
(* another name, nor of a healthy pod of another namespace.                *)
(***************************************************************************)
BaselineReleasedByName ==
  [][\A k \in Key, p \in PodName :
        /\ isBaselined(k, p) /\ seen'[k][p] = Unseen
        => \/ ReleasedWithKey(k)
           \/ p \in Pod /\ (SeenHealthy(k, p) \/ \E ns \in Namespace : RemovePod(ns, p))]_vars

(***************************************************************************)
(* "Release per-pod baseline slots for this pod" (RemovePod): the removal  *)
(* of a pod releases that pod's entries, and no pod's of the same name in  *)
(* another namespace.                                                      *)
(***************************************************************************)
RemovalReleasesItsPod ==
  [][\A k \in Key, p \in Pod, ns \in Namespace :
        /\ RemovePod(ns, p)
        /\ isBaselined(k, p) /\ seen'[k][p] = Unseen
        => Identity[k].namespace = ns]_vars

-----------------------------------------------------------------------------
(* Liveness, under FairSpec.                                               *)

(* Every create held back by a storm is summarised to the operator.        *)
DigestReported == \A k \in Key : (k \in digestBuf) ~> (k \notin digestBuf)

=============================================================================
