---------------------------- MODULE EngineProofs ----------------------------
(***************************************************************************)
(* The correlation engine, for every cluster, configuration and set of     *)
(* events: its invariants first; then that it implements AlertStream, what *)
(* a pager shows, which follows from that, and how many pages a storm is.  *)
(***************************************************************************)
EXTENDS EngineAlerts, EnginePager, EngineHistory, FiniteSetTheorems, TLAPS

-----------------------------------------------------------------------------
(* The incident operators return incidents.                                *)

LEMMA ConstantTypes ==
  /\ Severity = 0 .. 3 /\ 0 \in Severity
  /\ NoSig \in Sig
  /\ NoIncident \in Incident
  BY ConfigAssumption DEF Severity, NoSig, Sig, NoIncident, Incident, Status

(* The assumptions in the small pieces the provers are given.              *)
LEMMA Durations ==
  /\ Window \in Nat /\ HoldDown \in Nat /\ HoldDown <= Window
  /\ 0 \in 0 .. Window + 1 /\ 0 \in 0 .. HoldDown + 1
  /\ 0 \in 0 .. StormWindow /\ StormWindow \in 0 .. StormWindow
  /\ 0 \in 0 .. DigestInterval + 1 /\ DigestInterval + 1 \in 0 .. DigestInterval + 1
  /\ StormWindow \in Nat /\ DigestInterval \in Nat /\ BaselineTTL \in Nat \ {0}
  /\ RenotifyInterval \in [Severity -> Nat] /\ RenotifyMax \in Nat
  BY ConfigAssumption

LEMMA EventType ==
  ASSUME NEW e \in Event
  PROVE  /\ e.key \in Key /\ e.pod \in PodName /\ e.severity \in Severity
         /\ e.restarts \in {NoStatus} \cup Nat
         /\ {e.pod} \ {""} \subseteq Pod
         /\ IsNode(e.key) => e.node = Identity[e.key].name /\ e.node \in Node
  BY EventAssumption, KeyAssumption DEF PodName, IsNode

LEMMA NotifSigType ==
  ASSUME NEW inc \in Incident
  PROVE  notifSig(inc) \in Sig
  BY DEF notifSig, Sig, Incident

LEMMA AnnouncedType ==
  ASSUME NEW inc \in Incident
  PROVE  /\ Announced(inc) \in Incident
         /\ Announced(inc).status = inc.status
  BY NotifSigType DEF Announced, Incident

LEMMA EdgeType ==
  ASSUME NEW inc \in Incident, NEW k \in Key
  PROVE  EdgeOf(k, inc) \subseteq Notification
  <1>1. edgeAction(inc) # "Skip" => edgeAction(inc) \in Action
    BY DEF edgeAction, Action
  <1>2. QED
    BY <1>1 DEF EdgeOf, Notify, Notification

LEMMA EnrichType ==
  ASSUME NEW inc \in Incident, NEW sev \in Severity
  PROVE  /\ Enrich(inc, sev) \in Incident
         /\ Enrich(inc, sev).status = inc.status
  BY DEF Enrich, Incident

LEMMA TierType ==
  ASSUME NEW tier, NEW current \in Severity
  PROVE  severityForTier(tier, current) \in Severity
  BY DEF severityForTier, Severity, High, Critical

LEMMA EventSeverityType ==
  ASSUME NEW e \in Event, NEW prev, NEW current \in Severity
  PROVE  EventSeverity(e, prev, current) \in Severity
  BY TierType, EventAssumption DEF EventSeverity

LEMMA NewIncidentType ==
  ASSUME NEW e \in Event
  PROVE  /\ newIncident(e) \in Incident
         /\ newIncident(e).status = "active"
  <1> DEFINE base == [NoIncident EXCEPT
                        !.status = "active",
                        !.resources = {e.pod} \ {""},
                        !.restarts = IF e.restarts = NoStatus THEN 0 ELSE e.restarts]
  <1>1. base \in Incident /\ base.status = "active"
    <2>1. {e.pod} \ {""} \in SUBSET Pod
      BY EventType
    <2>2. (IF e.restarts = NoStatus THEN 0 ELSE e.restarts) \in Nat
      BY EventType DEF NoStatus
    <2>3. QED
      BY ConstantTypes, <2>1, <2>2 DEF NoIncident, Incident, Status
  <1>2. EventSeverity(e, -1, 0) \in Severity
    BY EventSeverityType, ConstantTypes
  <1> HIDE DEF base
  <1>3. Enrich(base, EventSeverity(e, -1, 0)) \in Incident
        /\ Enrich(base, EventSeverity(e, -1, 0)).status = "active"
    BY <1>1, <1>2, EnrichType
  <1>4. QED
    BY <1>3 DEF newIncident, base

LEMMA TouchedType ==
  ASSUME NEW inc \in Incident, NEW e \in Event
  PROVE  /\ Touched(inc, e) \in Incident
         /\ Touched(inc, e).status = "active"
  <1>1. inc.resources \cup ({e.pod} \ {""}) \in SUBSET Pod
    BY EventType DEF Incident
  <1>2. (IF e.restarts = NoStatus THEN inc.restarts ELSE e.restarts) \in Nat
    BY EventType DEF Incident, NoStatus
  <1>3. QED
    BY <1>1, <1>2, Durations DEF Touched, Incident, Status

LEMMA SettleType ==
  ASSUME NEW inc \in Incident
  PROVE  /\ OnHold(inc) \in Incident /\ OnHold(inc).status = "pending"
         /\ Resolved(inc) \in Incident /\ Resolved(inc).status = "resolved"
         /\ Settle(inc) \in Incident
         /\ Settle(inc).status = IF HoldDown > 0 THEN "pending" ELSE "resolved"
  <1>1. OnHold(inc) \in Incident /\ OnHold(inc).status = "pending"
    BY Durations DEF OnHold, Incident, Status
  <1>2. Resolved(inc) \in Incident /\ Resolved(inc).status = "resolved"
    BY Durations DEF Resolved, Incident, Status
  <1>3. QED
    BY <1>1, <1>2, AnnouncedType DEF Settle

LEMMA OlderType ==
  ASSUME NEW cap \in Nat, NEW age \in Nat
  PROVE  /\ Older(age, cap) \in Nat
         /\ age \in 0 .. cap => Older(age, cap) \in 0 .. cap
         /\ Older(age, cap) >= age
  BY DEF Older

LEMMA AgedType ==
  ASSUME NEW inc \in Incident
  PROVE  /\ Aged(inc) \in Incident
         /\ Aged(inc).status = inc.status
  <1>1. RenotifyCap(inc.severity) \in Nat
    BY Durations DEF RenotifyCap, Incident
  <1>2. Older(inc.sinceNotified, RenotifyCap(inc.severity)) \in Nat
    BY <1>1, OlderType DEF Incident
  <1>3. Older(inc.idle, Window + 1) \in 0 .. Window + 1
    BY OlderType, Durations DEF Incident
  <1>4. Older(inc.held, HoldDown + 1) \in 0 .. HoldDown + 1
    BY OlderType, Durations DEF Incident
  <1>5. QED
    BY <1>2, <1>3, <1>4 DEF Aged, Incident

-----------------------------------------------------------------------------
(* The baseline operators return baselines.                                *)

LEMMA UnseenType == Unseen \in Unseen .. BaselineTTL /\ "" \in PodName
  BY Durations DEF Unseen, PodName

LEMMA ForgetType ==
  ASSUME NEW base \in Baseline, NEW K
  PROVE  Forget(base, K) \in Baseline
  BY UnseenType DEF Forget, Baseline

LEMMA ForgetPodType ==
  ASSUME NEW base \in Baseline, NEW K, NEW p
  PROVE  [k \in Key |-> IF k \in K THEN [base[k] EXCEPT ![p] = Unseen] ELSE base[k]] \in Baseline
  BY UnseenType DEF Baseline

LEMMA SeenAfterType ==
  ASSUME NEW base \in Baseline, NEW s \in SeenAfter(base)
  PROVE  s \in Baseline
  <1>1. Fresh(base) \in Baseline
    BY UnseenType DEF Fresh, Baseline
  <1>2. ASSUME NEW b \in Baseline, NEW S
        PROVE  [k \in Key |-> [p \in PodName |-> IF <<k, p>> \in S THEN b[k][p] ELSE Unseen]]
                 \in Baseline
    BY UnseenType DEF Baseline
  <1>3. QED
    BY <1>1, <1>2 DEF SeenAfter, evictToLimit

LEMMA RefreshType ==
  ASSUME TypeOK, NEW K, NEW st
  PROVE  refreshNodeInhibition(K, st) \subseteq Node
  BY DEF refreshNodeInhibition, TypeOK

LEMMA ResolvedEdgesType ==
  ASSUME TypeOK, NEW K \in SUBSET Key
  PROVE  ResolvedEdges(K) \subseteq Notification
  <1>1. \A k \in K : EdgeOf(k, Resolved(state[k])) \subseteq Notification
    BY SettleType, EdgeType DEF TypeOK
  <1>2. QED
    BY <1>1 DEF ResolvedEdges

LEMMA NotifyType ==
  ASSUME NEW action \in Action, NEW k \in Key
  PROVE  Notify(action, k) \in Notification
  BY DEF Notify, Notification

-----------------------------------------------------------------------------
(* Type correctness.                                                       *)

LEMMA UnbaselinedType ==
  ASSUME TypeOK, NEW e \in Event, Unbaselined(e)
  PROVE  seen' \in Baseline /\ activeNodeIncidents' \subseteq Node
         /\ snapshot' \in BOOLEAN /\ seeded' \in BOOLEAN
  <1>1. seen' \in Baseline
    BY UnseenType, EventType DEF Unbaselined, DropExpired, TypeOK, Baseline
  <1>2. activeNodeIncidents' \subseteq Node
    BY EventType DEF Unbaselined, TypeOK
  <1>3. QED
    BY <1>1, <1>2 DEF Unbaselined, TypeOK

LEMMA AdmitType ==
  ASSUME TypeOK, NEW e \in Event, NEW inc \in Incident, Admit(e, inc)
  PROVE  /\ state' \in [Key -> Incident]
         /\ namespaceIndex' \subseteq Key
         /\ seen' \in Baseline /\ activeNodeIncidents' \subseteq Node
         /\ snapshot' \in BOOLEAN /\ seeded' \in BOOLEAN
         /\ lastContainerIndex' \in [Namespace \cup {""} -> [Pod -> {NoStatus} \cup Nat]]
  <1>1. state' \in [Key -> Incident] /\ namespaceIndex' \subseteq Key
    BY EventType DEF Admit, indexIncidentByNamespace, TypeOK
  <1>2. lastContainerIndex' \in [Namespace \cup {""} -> [Pod -> {NoStatus} \cup Nat]]
    BY EventType DEF Admit, TypeOK
  <1>3. QED
    BY <1>1, <1>2, UnbaselinedType DEF Admit

LEMMA RecentType ==
  ASSUME TypeOK, NEW e \in Event
  PROVE  Recent(e) \subseteq [key : Key, age : 0 .. StormWindow]
  <1>1. [key |-> e.key, age |-> 0] \in [key : Key, age : 0 .. StormWindow]
    BY EventType, Durations
  <1>2. QED
    BY <1>1 DEF Recent, TypeOK

LEMMA ProcessTypeOK ==
  ASSUME TypeOK, NEW e \in Event, Process(e)
  PROVE  TypeOK'
  <1> USE EventType
  <1>0. {} \subseteq Notification
    OBVIOUS
  <1>1. CASE ProcessBaselined(e)
    BY <1>1, <1>0 DEF ProcessBaselined, stormVars, TypeOK
  <1>2. CASE ProcessInhibited(e)
    <2>1. state' \in [Key -> Incident]
      <3>1. ASSUME NEW k \in Key
            PROVE  [state EXCEPT ![k].suppressedPods = TRUE] \in [Key -> Incident]
        <4>0. state[k] \in Incident
          BY DEF TypeOK
        <4>1. [state[k] EXCEPT !.suppressedPods = TRUE] \in Incident
          BY <4>0 DEF Incident
        <4>2. QED
          BY <4>1 DEF TypeOK
      <3>2. QED
        BY <1>2, <3>1 DEF ProcessInhibited, TypeOK
    <2>2. QED
      BY <1>2, <2>1, <1>0, UnbaselinedType DEF ProcessInhibited, stormVars, TypeOK
  <1>3. ASSUME NEW inc \in Incident, AdmitAndTell(e, inc)
        PROVE  /\ sent' \subseteq Notification
               /\ Admit(e, Announced(inc)) /\ Announced(inc) \in Incident
    BY <1>3, AnnouncedType, EdgeType DEF AdmitAndTell
  <1>4. CASE ProcessRecreate(e)
    BY <1>4, <1>3, NewIncidentType, AdmitType DEF ProcessRecreate, stormVars, TypeOK
  <1>5. CASE ProcessRevive(e)
    <2>1. Enrich(Touched(state[e.key], e), e.severity) \in Incident
      BY TouchedType, EnrichType DEF TypeOK
    <2>2. QED
      BY <1>5, <1>3, <2>1, AdmitType DEF ProcessRevive, stormVars, TypeOK
  <1>6. CASE ProcessRepeat(e)
    <2> DEFINE inc == state[e.key]
               sev == EventSeverity(e, inc.restarts, inc.severity)
    <2>1. inc \in Incident /\ sev \in Severity
      BY EventSeverityType DEF TypeOK, Incident
    <2>2. Enrich(Touched(inc, e), sev) \in Incident
      BY <2>1, TouchedType, EnrichType
    <2>3. QED
      BY <1>6, <1>3, <2>2, AdmitType DEF ProcessRepeat, stormVars, TypeOK
  <1>7. CASE ProcessNew(e)
    BY <1>7, <1>3, NewIncidentType, AdmitType, RecentType DEF ProcessNew, TypeOK
  <1>8. CASE ProcessDigested(e)
    <2> DEFINE inc == newIncident(e)
               dig == [inc EXCEPT !.digested = TRUE, !.notifiedSig = notifSig(inc)]
    <2>1. dig \in Incident
      <3>1. inc \in Incident /\ notifSig(inc) \in Sig
        BY NewIncidentType, NotifSigType
      <3>2. QED
        BY <3>1 DEF Incident
    <2>2. Notify("Digest", e.key) \in Notification
      BY NotifyType DEF Action
    <2>3. StormWindow \in 0 .. StormWindow
      BY Durations
    <2>4. Admit(e, dig)
      BY <1>8 DEF ProcessDigested
    <2> HIDE DEF dig
    <2>5. QED
      BY <1>8, <2>1, <2>2, <2>3, <2>4, AdmitType, RecentType DEF ProcessDigested, TypeOK
  <1>9. QED
    BY <1>1, <1>2, <1>4, <1>5, <1>6, <1>7, <1>8 DEF Process

LEMMA ResolveTypeOK ==
  ASSUME TypeOK,
         \/ \E k \in Conditions : MarkResolved(k) \/ MarkResolvedIdle(k)
         \/ \E ns \in Namespace, p \in Pod : RemovePod(ns, p)
         \/ \E k \in Monitored : ResolveByResource(Identity[k].resource, Identity[k].name)
  PROVE  TypeOK'
  <1>0. \A k \in Key : state[k] \in Incident /\ Settle(state[k]) \in Incident
    BY SettleType DEF TypeOK
  <1>1. ASSUME NEW k \in Key, MarkResolved(k)
        PROVE  TypeOK'
    <2>1. state' \in [Key -> Incident]
      BY <1>0, <1>1 DEF MarkResolved, TypeOK
    <2>2. seen' \in Baseline
      BY <1>1, ForgetType DEF MarkResolved, TypeOK
    <2>3. activeNodeIncidents' \subseteq Node
      BY <1>1, RefreshType DEF MarkResolved, TypeOK
    <2>4. sent' \subseteq Notification
      BY <1>1, ResolvedEdgesType DEF MarkResolved
    <2>5. snapshot' \in BOOLEAN
      BY <1>1 DEF MarkResolved
    <2>6. QED
      BY <1>1, <2>1, <2>2, <2>3, <2>4, <2>5 DEF MarkResolved, stormVars, TypeOK
  <1>2. ASSUME NEW k \in Key, MarkResolvedIdle(k)
        PROVE  TypeOK'
    BY <1>2 DEF MarkResolvedIdle, stormVars, TypeOK
  <1>3. ASSUME NEW ns \in Namespace, NEW p \in Pod, RemovePod(ns, p)
        PROVE  TypeOK'
    <2> DEFINE without(inc) == [inc EXCEPT !.resources = @ \ {p}]
               hit     == {k \in Key : Identity[k].namespace = ns /\ p \in state[k].resources}
               emptied == {k \in hit : state[k].resources = {p} /\ state[k].status = "active"}
               closed  == IF HoldDown = 0 THEN emptied ELSE {}
    <2>1. ASSUME NEW inc \in Incident
          PROVE  without(inc) \in Incident
      BY DEF Incident
    <2>2. state' = [k \in Key |->
            CASE k \in emptied -> Settle(without(state[k]))
              [] k \in hit \ emptied -> without(state[k])
              [] OTHER -> state[k]]
      BY <1>3 DEF RemovePod
    <2>3. \A k \in Key : Settle(without(state[k])) \in Incident
      BY <1>0, <2>1, SettleType
    <2>4. state' \in [Key -> Incident]
      BY <1>0, <2>1, <2>2, <2>3
    <2>5. seen' \in Baseline
      <3>1. seen' = [k \in Key |-> [Forget(seen, closed)[k] EXCEPT ![p] = Unseen]]
        BY <1>3 DEF RemovePod
      <3>2. Forget(seen, closed) \in Baseline
        BY ForgetType DEF TypeOK
      <3>3. QED
        BY <3>1, <3>2, UnseenType DEF Baseline
    <2>6. lastContainerIndex' \in [Namespace \cup {""} -> [Pod -> {NoStatus} \cup Nat]]
      BY <1>3 DEF RemovePod, TypeOK
    <2>7. sent' \subseteq Notification
      <3>1. sent' = ResolvedEdges(closed) /\ closed \in SUBSET Key
        BY <1>3 DEF RemovePod
      <3>2. QED
        BY <3>1, ResolvedEdgesType
    <2>8. snapshot' \in BOOLEAN
      BY <1>3 DEF RemovePod
    <2>9. QED
      BY <1>3, <2>4, <2>5, <2>6, <2>7, <2>8 DEF RemovePod, stormVars, TypeOK
  <1>4. ASSUME NEW r, NEW n, ResolveByResource(r, n)
        PROVE  TypeOK'
    <2>1. state' \in [Key -> Incident]
      BY <1>0, <1>4 DEF ResolveByResource
    <2>2. seen' \in Baseline
      BY <1>4, ForgetType DEF ResolveByResource, TypeOK
    <2>3. activeNodeIncidents' \subseteq Node
      BY <1>4, RefreshType DEF ResolveByResource
    <2>4. sent' \subseteq Notification
      BY <1>4, ResolvedEdgesType DEF ResolveByResource
    <2>5. snapshot' \in BOOLEAN
      BY <1>4 DEF ResolveByResource
    <2>6. QED
      BY <1>4, <2>1, <2>2, <2>3, <2>4, <2>5 DEF ResolveByResource, stormVars, TypeOK
  <1>5. QED
    BY <1>1, <1>2, <1>3, <1>4 DEF Conditions, Monitored

LEMMA SeedTypeOK ==
  ASSUME TypeOK,
         \/ \E base \in LiveBaseline : SetSeen(base)
         \/ \E ns \in Namespace, p \in Pod : ClearSeenForPod(ns, p)
  PROVE  TypeOK'
  <1>1. ASSUME NEW base \in LiveBaseline, SetSeen(base)
        PROVE  TypeOK'
    <2>1. base \in Baseline
      BY ConfigAssumption
    <2>2. seen' \in Baseline
      BY <1>1, <2>1, SeenAfterType DEF SetSeen, TypeOK
    <2>3. QED
      BY <1>1, <2>2 DEF SetSeen, stormVars, TypeOK
  <1>2. ASSUME NEW ns \in Namespace, NEW p \in Pod, ClearSeenForPod(ns, p)
        PROVE  TypeOK'
    <2>1. seen' \in Baseline
      <3>1. seen \in Baseline
        BY DEF TypeOK
      <3> DEFINE own == {k \in Key : Identity[k].namespace = ns}
      <3>2. seen' = [k \in Key |-> IF k \in own THEN [seen[k] EXCEPT ![p] = Unseen]
                                               ELSE seen[k]]
        BY <1>2 DEF ClearSeenForPod
      <3> HIDE DEF own
      <3>3. QED
        BY <3>1, <3>2, ForgetPodType
    <2>2. snapshot' \in BOOLEAN
      BY <1>2 DEF ClearSeenForPod
    <2>3. QED
      BY <1>2, <2>1, <2>2 DEF ClearSeenForPod, stormVars, TypeOK
  <1>3. QED
    BY <1>1, <1>2

LEMMA CleanupTypeOK ==
  ASSUME TypeOK, cleanup
  PROVE  TypeOK'
  <1>1. state' \in [Key -> Incident]
    BY ConstantTypes DEF cleanup, TypeOK
  <1>2. seen' \in Baseline
    BY ForgetType DEF cleanup, TypeOK
  <1>3. activeNodeIncidents' \subseteq Node
    BY RefreshType DEF cleanup
  <1>4. sent' \subseteq Notification
    BY ResolvedEdgesType DEF cleanup, Expired
  <1>5. QED
    BY <1>1, <1>2, <1>3, <1>4
    DEF cleanup, removeIncidentFromNamespaceIndex, stormVars, TypeOK

LEMMA LifecycleTypeOK ==
  ASSUME TypeOK, checkLifecycle
  PROVE  TypeOK'
  <1>0. \A k \in Key : state[k] \in Incident
    BY DEF TypeOK
  <1>1. ASSUME NEW k \in Key
        PROVE  Announced(Resolved(state[k])) \in Incident
    BY <1>0, SettleType, AnnouncedType
  <1>2. ASSUME NEW k \in DueAgain
        PROVE  [state[k] EXCEPT !.renotifyCount = @ + 1, !.sinceNotified = 0] \in Incident
    <2>1. state[k] \in Incident /\ state[k].renotifyCount < RenotifyMax
      BY <1>0 DEF DueAgain
    <2>2. state[k].renotifyCount + 1 \in 0 .. RenotifyMax
      BY <2>1, Durations DEF Incident
    <2>3. 0 \in Nat
      OBVIOUS
    <2>4. QED
      BY <2>1, <2>2, <2>3 DEF Incident
  <1>3. state' \in [Key -> Incident]
    BY <1>0, <1>1, <1>2 DEF checkLifecycle
  <1>4. seen' \in Baseline
    BY ForgetType DEF checkLifecycle, TypeOK
  <1>5. activeNodeIncidents' \subseteq Node
    BY RefreshType DEF checkLifecycle
  <1>6. sent' \subseteq Notification
    <2>1. ResolvedEdges(Matured) \subseteq Notification
      BY ResolvedEdgesType DEF Matured
    <2>2. \A k \in DueAgain : Notify("Update", k) \in Notification
      BY NotifyType DEF DueAgain, Action
    <2>3. [action |-> "DigestFlush", keys |-> digestBuf] \in Notification
      BY DEF Notification, Action, TypeOK
    <2>4. QED
      BY <2>1, <2>2, <2>3 DEF checkLifecycle
  <1>7. snapshot' \in BOOLEAN
    BY DEF checkLifecycle
  <1>8. sinceFlush' \in 0 .. DigestInterval + 1 /\ digestBuf' \subseteq Key
    BY Durations DEF checkLifecycle, TypeOK
  <1>9. QED
    BY <1>3, <1>4, <1>5, <1>6, <1>7, <1>8 DEF checkLifecycle, TypeOK

LEMMA TickTypeOK ==
  ASSUME TypeOK, Tick
  PROVE  TypeOK'
  <1>1. state' \in [Key -> Incident]
    BY AgedType DEF Tick, TypeOK
  <1>2. seen' \in Baseline
    <2>1. \A k \in Key, p \in PodName :
            seen[k][p] # Unseen => Older(seen[k][p], BaselineTTL) \in Unseen .. BaselineTTL
      <3>1. ASSUME NEW k \in Key, NEW p \in PodName, seen[k][p] # Unseen
            PROVE  seen[k][p] \in 0 .. BaselineTTL
        <4>1. seen[k][p] \in Unseen .. BaselineTTL
          BY DEF TypeOK, Baseline
        <4>2. QED
          BY <3>1, <4>1, Durations DEF Unseen
      <3>2. QED
        BY <3>1, Durations DEF Older, Unseen
    <2>2. QED
      BY <2>1, UnseenType DEF Tick, Baseline
  <1>3. recentCreates' \subseteq [key : Key, age : 0 .. StormWindow]
    <2>1. ASSUME NEW c \in recentCreates
          PROVE  [c EXCEPT !.age = Older(@, StormWindow)] \in [key : Key, age : 0 .. StormWindow]
      <3>1. c \in [key : Key, age : 0 .. StormWindow] /\ c.age \in 0 .. StormWindow
        BY DEF TypeOK
      <3>2. Older(c.age, StormWindow) \in 0 .. StormWindow
        BY <3>1, OlderType, Durations
      <3> DEFINE older == Older(c.age, StormWindow)
      <3> HIDE DEF older
      <3>3. [c EXCEPT !.age = older] \in [key : Key, age : 0 .. StormWindow]
        BY <3>1, <3>2 DEF older
      <3>4. QED
        BY <3>3 DEF older
    <2>2. QED
      BY <2>1 DEF Tick
  <1>4. stormLeft' \in 0 .. StormWindow
    <2>1. stormLeft \in 0 .. StormWindow /\ StormWindow \in Nat
      BY Durations DEF TypeOK
    <2>2. stormLeft' = IF stormLeft > 0 THEN stormLeft - 1 ELSE 0
      BY DEF Tick
    <2>3. QED
      BY <2>1, <2>2
  <1>5. sinceFlush' \in 0 .. DigestInterval + 1
    <2>1. sinceFlush \in 0 .. DigestInterval + 1
      BY DEF TypeOK
    <2>2. DigestInterval + 1 \in Nat /\ sinceFlush \in Nat
      BY <2>1, Durations
    <2>3. sinceFlush' = Older(sinceFlush, DigestInterval + 1)
      BY DEF Tick
    <2>4. QED
      BY <2>1, <2>2, <2>3, OlderType
  <1>6. QED
    BY <1>1, <1>2, <1>3, <1>4, <1>5 DEF Tick, TypeOK

LEMMA InitTypeOK == Init => TypeOK
  <1> SUFFICES ASSUME Init PROVE TypeOK
    OBVIOUS
  <1>1. seen \in Baseline
    BY SeenAfterType, ConfigAssumption DEF Init
  <1>2. QED
    BY <1>1, ConstantTypes, Durations DEF Init, TypeOK

(***************************************************************************)
(* Every step of the engine keeps every variable in its type: in           *)
(* particular the renotify budget is never exceeded and every notification *)
(* handed to the alert manager is one of the five kinds.                   *)
(***************************************************************************)
THEOREM TypeCorrect == Spec => []TypeOK
  <1>1. TypeOK /\ [Next]_vars => TypeOK'
    <2> SUFFICES ASSUME TypeOK, [Next]_vars PROVE TypeOK'
      OBVIOUS
    <2>1. CASE \E e \in Event : Process(e)
      BY <2>1, ProcessTypeOK
    <2>2. CASE cleanup
      BY <2>2, CleanupTypeOK
    <2>3. CASE checkLifecycle
      BY <2>3, LifecycleTypeOK
    <2>4. CASE Tick
      BY <2>4, TickTypeOK
    <2>5. CASE UNCHANGED vars
      BY <2>5 DEF vars, TypeOK
    <2>6. QED
      BY <2>1, <2>2, <2>3, <2>4, <2>5, ResolveTypeOK, SeedTypeOK DEF Next, Call
  <1>2. QED
    BY <1>1, InitTypeOK, PTL DEF Spec

-----------------------------------------------------------------------------
(* Node inhibition.  Only the set of open node incidents matters; each     *)
(* action either keeps it, adds the node of one event, or closes a set of  *)
(* incidents and refreshes the flags of their nodes.                       *)

LEMMA SameOpen ==
  ASSUME NEW st, NEW sv,
         \A k \in Key : IsNode(k) => (Open(st[k]) <=> Open(sv[k]))
  PROVE  OpenNodes(st) = OpenNodes(sv)
  BY DEF OpenNodes

LEMMA OpenedOne ==
  ASSUME NEW st \in [Key -> Incident], NEW k \in Key, NEW inc, Open(inc)
  PROVE  OpenNodes([st EXCEPT ![k] = inc])
           = OpenNodes(st) \cup (IF IsNode(k) THEN {Identity[k].name} ELSE {})
  <1> DEFINE su == [st EXCEPT ![k] = inc]
  <1>1. su[k] = inc /\ \A j \in Key : j # k => su[j] = st[j]
    OBVIOUS
  <1> HIDE DEF su
  <1>2. OpenNodes(su) = OpenNodes(st) \cup (IF IsNode(k) THEN {Identity[k].name} ELSE {})
    BY <1>1 DEF OpenNodes
  <1>3. QED
    BY <1>2 DEF su

LEMMA Refreshed ==
  ASSUME NodeInhibition, NEW K \in SUBSET Key, NEW st,
         \A k \in Key \ K : Open(st[k]) <=> Open(state[k]),
         \A k \in K : ~ Open(st[k])
  PROVE  refreshNodeInhibition(K, st) = OpenNodes(st)
  <1>1. ASSUME NEW n \in OpenNodes(st)
        PROVE  n \in refreshNodeInhibition(K, st)
    BY <1>1 DEF OpenNodes, NodeInhibition, refreshNodeInhibition
  <1>2. ASSUME NEW n \in refreshNodeInhibition(K, st)
        PROVE  n \in OpenNodes(st)
    <2>1. PICK k \in Key : IsNode(k) /\ Open(state[k]) /\ n = Identity[k].name
      BY <1>2 DEF refreshNodeInhibition, NodeInhibition, OpenNodes
    <2>2. CASE k \in K
      BY <1>2, <2>1, <2>2 DEF refreshNodeInhibition
    <2>3. CASE k \notin K
      BY <2>1, <2>3 DEF OpenNodes
    <2>4. QED
      BY <2>2, <2>3
  <1>3. QED
    BY <1>1, <1>2

LEMMA AdmitInhibition ==
  ASSUME TypeOK, NodeInhibition, NEW e \in Event, NEW inc, Open(inc), Admit(e, inc)
  PROVE  NodeInhibition'
  <1>1. state' = [state EXCEPT ![e.key] = inc] /\ state \in [Key -> Incident]
    BY DEF Admit, TypeOK
  <1>2. OpenNodes(state')
          = OpenNodes(state) \cup (IF IsNode(e.key) THEN {Identity[e.key].name} ELSE {})
    BY <1>1, OpenedOne, EventType
  <1>3. activeNodeIncidents'
          = activeNodeIncidents \cup (IF IsNode(e.key) THEN {Identity[e.key].name} ELSE {})
    BY EventType DEF Admit, Unbaselined
  <1>4. QED
    BY <1>2, <1>3 DEF NodeInhibition

(* What AdmitAndTell stores is open whenever the incident it is given is.  *)
LEMMA AnnouncedOpen ==
  ASSUME NEW inc \in Incident, inc.status = "active"
  PROVE  Open(Announced(inc))
  BY AnnouncedType DEF Open

LEMMA ProcessedActive ==
  ASSUME TypeOK, NEW e \in Event
  PROVE  /\ newIncident(e) \in Incident /\ newIncident(e).status = "active"
         /\ \A sev \in Severity :
              LET inc == Enrich(Touched(state[e.key], e), sev)
              IN  inc \in Incident /\ inc.status = "active"
         /\ EventSeverity(e, state[e.key].restarts, state[e.key].severity) \in Severity
         /\ e.severity \in Severity
  <1>1. state[e.key] \in Incident
    BY EventType DEF TypeOK
  <1>2. \A sev \in Severity :
              LET inc == Enrich(Touched(state[e.key], e), sev)
              IN  inc \in Incident /\ inc.status = "active"
    BY <1>1, TouchedType, EnrichType
  <1>3. EventSeverity(e, state[e.key].restarts, state[e.key].severity) \in Severity
    BY <1>1, EventSeverityType DEF Incident
  <1>4. QED
    BY <1>2, <1>3, NewIncidentType, EventType

LEMMA ProcessInhibition ==
  ASSUME TypeOK, NodeInhibition, NEW e \in Event, Process(e)
  PROVE  NodeInhibition'
  <1>1. CASE ProcessBaselined(e)
    BY <1>1 DEF ProcessBaselined, NodeInhibition
  <1>2. CASE ProcessInhibited(e)
    <2>1. ~ IsNode(e.key)
      BY <1>2 DEF ProcessInhibited, Inhibited, IsNode
    <2>2. activeNodeIncidents' = activeNodeIncidents
      BY <1>2, <2>1 DEF ProcessInhibited, Unbaselined
    <2>3. \A k \in Key : Open(state'[k]) <=> Open(state[k])
      <3>1. state \in [Key -> Incident]
        BY DEF TypeOK
      <3>2. CASE state' = state
        BY <3>2
      <3>3. ASSUME NEW n \in Key, state' = [state EXCEPT ![n].suppressedPods = TRUE]
            PROVE  \A k \in Key : Open(state'[k]) <=> Open(state[k])
        <4>1. state[n] \in Incident
          BY <3>1
        <4>2. state'[n].status = state[n].status
          BY <3>1, <3>3, <4>1 DEF Incident
        <4>3. \A k \in Key : k # n => state'[k] = state[k]
          BY <3>1, <3>3
        <4>4. QED
          BY <4>2, <4>3 DEF Open
      <3>4. QED
        BY <1>2, <3>2, <3>3 DEF ProcessInhibited
    <2>4. OpenNodes(state') = OpenNodes(state)
      BY <2>3, SameOpen
    <2>5. QED
      BY <2>2, <2>4 DEF NodeInhibition
  <1>3. ASSUME NEW inc \in Incident, inc.status = "active", AdmitAndTell(e, inc)
        PROVE  NodeInhibition'
    BY <1>3, AnnouncedOpen, AdmitInhibition DEF AdmitAndTell
  <1>4. CASE ProcessRecreate(e)
    BY <1>4, <1>3, ProcessedActive DEF ProcessRecreate
  <1>5. CASE ProcessRevive(e)
    BY <1>5, <1>3, ProcessedActive DEF ProcessRevive
  <1>6. CASE ProcessRepeat(e)
    BY <1>6, <1>3, ProcessedActive DEF ProcessRepeat
  <1>7. CASE ProcessNew(e)
    BY <1>7, <1>3, ProcessedActive DEF ProcessNew
  <1>8. CASE ProcessDigested(e)
    <2> DEFINE inc == newIncident(e)
               dig == [inc EXCEPT !.digested = TRUE, !.notifiedSig = notifSig(inc)]
    <2>1. Open(dig)
      BY ProcessedActive DEF Open, Incident
    <2>2. Admit(e, dig)
      BY <1>8 DEF ProcessDigested
    <2> HIDE DEF dig
    <2>3. QED
      BY <2>1, <2>2, AdmitInhibition
  <1>9. QED
    BY <1>1, <1>2, <1>4, <1>5, <1>6, <1>7, <1>8 DEF Process

LEMMA ResolveInhibition ==
  ASSUME TypeOK, NodeInhibition,
         \/ \E k \in Conditions : MarkResolved(k) \/ MarkResolvedIdle(k)
         \/ \E ns \in Namespace, p \in Pod : RemovePod(ns, p)
         \/ \E k \in Monitored : ResolveByResource(Identity[k].resource, Identity[k].name)
  PROVE  NodeInhibition'
  <1>0. /\ state \in [Key -> Incident]
        /\ HoldDown \in Nat
        /\ \A inc \in Incident :
             Settle(inc).status = IF HoldDown > 0 THEN "pending" ELSE "resolved"
    BY SettleType, Durations DEF TypeOK
  <1>1. ASSUME NEW k \in Key, MarkResolved(k)
        PROVE  NodeInhibition'
    <2>1. /\ \A j \in Key : j # k => state'[j] = state[j]
          /\ state'[k].status = IF HoldDown > 0 THEN "pending" ELSE "resolved"
          /\ state[k].status = "active"
      BY <1>0, <1>1 DEF MarkResolved
    <2>2. CASE HoldDown = 0
      <3>1. activeNodeIncidents' = refreshNodeInhibition({k}, state')
        BY <1>1, <2>2 DEF MarkResolved
      <3>2. /\ \A j \in Key \ {k} : Open(state'[j]) <=> Open(state[j])
            /\ \A j \in {k} : ~ Open(state'[j])
        BY <2>1, <2>2 DEF Open
      <3>3. QED
        BY <3>1, <3>2, Refreshed DEF NodeInhibition
    <2>3. CASE HoldDown # 0
      <3>1. activeNodeIncidents' = activeNodeIncidents
        BY <1>1, <2>3 DEF MarkResolved
      <3>2. \A j \in Key : Open(state'[j]) <=> Open(state[j])
        BY <1>0, <2>1, <2>3 DEF Open
      <3>3. QED
        BY <3>1, <3>2, SameOpen DEF NodeInhibition
    <2>4. QED
      BY <2>2, <2>3
  <1>2. ASSUME NEW k \in Key, MarkResolvedIdle(k)
        PROVE  NodeInhibition'
    BY <1>2 DEF MarkResolvedIdle, NodeInhibition
  <1>3. ASSUME NEW ns \in Namespace, NEW p \in Pod, RemovePod(ns, p)
        PROVE  NodeInhibition'
    <2>1. \A k \in Key : IsNode(k) => Identity[k].namespace # ns
      BY KeyAssumption DEF IsNode
    <2>2. \A k \in Key : IsNode(k) => state'[k] = state[k]
      BY <1>3, <2>1 DEF RemovePod
    <2>3. activeNodeIncidents' = activeNodeIncidents
      BY <1>3 DEF RemovePod
    <2>4. QED
      BY <2>2, <2>3, SameOpen DEF NodeInhibition
  <1>4. ASSUME NEW r, NEW n, ResolveByResource(r, n)
        PROVE  NodeInhibition'
    <2> DEFINE hit == {k \in Key : /\ Identity[k].resource = r
                                   /\ Identity[k].name = n
                                   /\ state[k].status = "active"}
               closed == IF HoldDown = 0 THEN hit ELSE {}
    <2>1. /\ state' = [k \in Key |-> IF k \in hit THEN Settle(state[k]) ELSE state[k]]
          /\ activeNodeIncidents' = refreshNodeInhibition(closed, state')
      BY <1>4 DEF ResolveByResource
    <2>2. \A k \in Key \ closed : Open(state'[k]) <=> Open(state[k])
      BY <1>0, <2>1 DEF Open
    <2>3. \A k \in closed : ~ Open(state'[k])
      BY <1>0, <2>1 DEF Open
    <2>4. closed \in SUBSET Key
      OBVIOUS
    <2> HIDE DEF closed
    <2>5. QED
      BY <2>1, <2>2, <2>3, <2>4, Refreshed DEF NodeInhibition
  <1>5. QED
    BY <1>1, <1>2, <1>3, <1>4 DEF Conditions, Monitored

LEMMA CleanupInhibition ==
  ASSUME TypeOK, NodeInhibition, cleanup
  PROVE  NodeInhibition'
  <1>1. /\ state' = [k \in Key |-> IF k \in Expired THEN NoIncident ELSE state[k]]
        /\ activeNodeIncidents' = refreshNodeInhibition(Expired, state')
        /\ Expired \in SUBSET Key
    BY DEF cleanup, Expired
  <1>2. \A k \in Key \ Expired : Open(state'[k]) <=> Open(state[k])
    BY <1>1
  <1>3. \A k \in Expired : ~ Open(state'[k])
    BY <1>1 DEF Open, NoIncident
  <1>4. QED
    BY <1>1, <1>2, <1>3, Refreshed DEF NodeInhibition

LEMMA LifecycleInhibition ==
  ASSUME TypeOK, NodeInhibition, checkLifecycle
  PROVE  NodeInhibition'
  <1>1. /\ \A k \in Matured : state'[k] = Announced(Resolved(state[k]))
        /\ \A k \in DueAgain \ Matured :
             state'[k] = [state[k] EXCEPT !.renotifyCount = @ + 1, !.sinceNotified = 0]
        /\ \A k \in Key \ (Matured \cup DueAgain) : state'[k] = state[k]
        /\ activeNodeIncidents' = refreshNodeInhibition(Matured, state')
        /\ Matured \in SUBSET Key
    BY DEF checkLifecycle, Matured, DueAgain
  <1>2. \A k \in Key \ Matured : Open(state'[k]) <=> Open(state[k])
    <2>1. ASSUME NEW k \in Key \ Matured
          PROVE  state'[k].status = state[k].status
      <3>1. state[k] \in Incident
        BY DEF TypeOK
      <3>2. QED
        BY <1>1, <3>1 DEF Incident
    <2>2. QED
      BY <2>1 DEF Open
  <1>3. \A k \in Matured : ~ Open(state'[k])
    <2>1. ASSUME NEW k \in Matured
          PROVE  state'[k].status = "resolved"
      <3>1. state[k] \in Incident
        BY <1>1 DEF TypeOK
      <3>2. Resolved(state[k]) \in Incident /\ Resolved(state[k]).status = "resolved"
        BY <3>1, SettleType
      <3>3. Announced(Resolved(state[k])).status = "resolved"
        BY <3>2, AnnouncedType
      <3>4. QED
        BY <1>1, <3>3
    <2>2. QED
      BY <2>1 DEF Open
  <1>4. QED
    BY <1>1, <1>2, <1>3, Refreshed DEF NodeInhibition

LEMMA TickInhibition ==
  ASSUME TypeOK, NodeInhibition, Tick
  PROVE  NodeInhibition'
  <1>1. \A k \in Key : state'[k].status = state[k].status
    BY AgedType DEF Tick, TypeOK
  <1>2. activeNodeIncidents' = activeNodeIncidents
    BY DEF Tick
  <1>3. \A k \in Key : Open(state'[k]) <=> Open(state[k])
    BY <1>1 DEF Open
  <1>4. QED
    BY <1>2, <1>3, SameOpen DEF NodeInhibition

LEMMA InitInhibition == Init => NodeInhibition
  <1> SUFFICES ASSUME Init PROVE NodeInhibition
    OBVIOUS
  <1>1. \A k \in Key : ~ Open(state[k])
    BY DEF Init, Open, NoIncident
  <1>2. QED
    BY <1>1 DEF Init, NodeInhibition, OpenNodes

(***************************************************************************)
(* A node's pods are inhibited exactly while the node has an open          *)
(* incident, for any number of nodes and conditions per node, whether or   *)
(* not a hold-down is configured and however the incidents end (reported   *)
(* healthy, hold-down elapsed, aged out of the table).                     *)
(***************************************************************************)
THEOREM InhibitionExact == Spec => []NodeInhibition
  <1>1. TypeOK /\ NodeInhibition /\ [Next]_vars => NodeInhibition'
    <2> SUFFICES ASSUME TypeOK, NodeInhibition, [Next]_vars PROVE NodeInhibition'
      OBVIOUS
    <2>1. CASE \E e \in Event : Process(e)
      BY <2>1, ProcessInhibition
    <2>2. CASE \/ \E base \in LiveBaseline : SetSeen(base)
               \/ \E ns \in Namespace, p \in Pod : ClearSeenForPod(ns, p)
               \/ UNCHANGED vars
      BY <2>2 DEF SetSeen, ClearSeenForPod, vars, NodeInhibition
    <2>3. QED
      BY <2>1, <2>2, ResolveInhibition, CleanupInhibition, LifecycleInhibition,
         TickInhibition DEF Next, Call
  <1>2. QED
    BY <1>1, TypeCorrect, InitInhibition, PTL DEF Spec

-----------------------------------------------------------------------------
(***************************************************************************)
(* The life cycle of one incident.  IncidentStep(o, n) says what one call  *)
(* of the engine may make of an incident o; the invariants about single    *)
(* incidents follow from it without looking at the calls again.            *)
(***************************************************************************)

SameView(o, n) ==
  n.status = o.status /\ n.severity = o.severity /\ n.notifiedSig = o.notifiedSig

Kept(o, n)    == SameView(o, n) /\ n.idle = o.idle /\ n.held = o.held
Failing(o, n) == /\ n.status = "active"
                 /\ n.notifiedSig = notifSig(n)
                 /\ Open(o) => n.severity >= o.severity
Held(o, n)    == /\ HoldDown > 0 /\ o.status = "active" /\ n.status = "pending"
                 /\ n.held = 0 /\ n.idle = o.idle
                 /\ n.severity = o.severity /\ n.notifiedSig = o.notifiedSig
Ended(o, n)   == /\ Open(o) /\ n.status = "resolved"
                 /\ n.notifiedSig = notifSig(n)
Gone(o, n)    == o.idle > Window /\ n = NoIncident

(* Without an event and without cleanup an incident neither appears nor    *)
(* leaves the table.                                                       *)
CalmStep(o, n) == Kept(o, n) \/ n = Aged(o) \/ Held(o, n) \/ Ended(o, n)

IncidentStep(o, n) == CalmStep(o, n) \/ Failing(o, n) \/ Gone(o, n)

LEMMA AnnouncedSig ==
  ASSUME NEW inc \in Incident
  PROVE  /\ Announced(inc).notifiedSig = notifSig(Announced(inc))
         /\ Announced(inc).severity = inc.severity
  BY DEF Announced, notifSig, Incident

LEMMA EndedStep ==
  ASSUME NEW inc \in Incident, Open(inc)
  PROVE  Ended(inc, Announced(Resolved(inc)))
  <1>1. Resolved(inc) \in Incident /\ Resolved(inc).status = "resolved"
    BY SettleType
  <1>2. QED
    BY <1>1, AnnouncedType, AnnouncedSig DEF Ended

LEMMA SettleStep ==
  ASSUME NEW inc \in Incident, inc.status = "active"
  PROVE  Held(inc, Settle(inc)) \/ Ended(inc, Settle(inc))
  <1>1. CASE HoldDown > 0
    BY <1>1 DEF Settle, OnHold, Held, Incident
  <1>2. CASE ~ (HoldDown > 0)
    BY <1>2, EndedStep DEF Settle, Open
  <1>3. QED
    BY <1>1, <1>2

LEMMA FailingStep ==
  ASSUME NEW old \in Incident, NEW inc \in Incident, inc.status = "active",
         Open(old) => inc.severity >= old.severity
  PROVE  Failing(old, Announced(inc))
  BY AnnouncedType, AnnouncedSig DEF Failing

LEMMA EnrichMonotone ==
  ASSUME NEW old \in Incident, NEW e \in Event, NEW sev \in Severity
  PROVE  Enrich(Touched(old, e), sev).severity >= old.severity
  <1>1. Touched(old, e) \in Incident /\ Touched(old, e).severity = old.severity
    BY TouchedType DEF Touched, Incident
  <1> DEFINE t == Touched(old, e)
  <1> HIDE DEF t
  <1>2. Enrich(t, sev).severity >= t.severity
    BY <1>1 DEF t, Enrich, Incident, Severity
  <1>3. QED
    BY <1>1, <1>2 DEF t

LEMMA AdmitStep ==
  ASSUME TypeOK, NEW e \in Event, NEW inc, Admit(e, inc), Failing(state[e.key], inc)
  PROVE  \A k \in Key : IncidentStep(state[k], state'[k])
  <1>1. state' = [state EXCEPT ![e.key] = inc] /\ state \in [Key -> Incident]
    BY DEF Admit, TypeOK
  <1>2. state'[e.key] = inc
    BY <1>1, EventType
  <1>3. \A k \in Key : k # e.key => state'[k] = state[k]
    BY <1>1
  <1>4. QED
    BY <1>2, <1>3 DEF IncidentStep, CalmStep, Kept, SameView

LEMMA ProcessStep ==
  ASSUME TypeOK, NEW e \in Event, Process(e)
  PROVE  \A k \in Key : IncidentStep(state[k], state'[k])
  <1> DEFINE old == state[e.key]
  <1>0. old \in Incident /\ e.key \in Key
    BY EventType DEF TypeOK
  <1>1. CASE ProcessBaselined(e)
    BY <1>1 DEF ProcessBaselined, IncidentStep, CalmStep, Kept, SameView
  <1>2. CASE ProcessInhibited(e)
    <2>1. CASE state' = state
      BY <2>1 DEF IncidentStep, CalmStep, Kept, SameView
    <2>2. ASSUME NEW n \in Key, state' = [state EXCEPT ![n].suppressedPods = TRUE]
          PROVE  \A k \in Key : IncidentStep(state[k], state'[k])
      <3>1. state[n] \in Incident /\ state \in [Key -> Incident]
        BY DEF TypeOK
      <3>2. state'[n] = [state[n] EXCEPT !.suppressedPods = TRUE]
        BY <2>2, <3>1
      <3>3. Kept(state[n], state'[n])
        BY <3>1, <3>2 DEF Kept, SameView, Incident
      <3>4. \A k \in Key : k # n => state'[k] = state[k]
        BY <2>2, <3>1
      <3>5. QED
        BY <3>3, <3>4 DEF IncidentStep, CalmStep, Kept, SameView
    <2>3. QED
      BY <1>2, <2>1, <2>2 DEF ProcessInhibited
  <1>3. ASSUME NEW inc \in Incident, inc.status = "active", AdmitAndTell(e, inc),
               Open(old) => inc.severity >= old.severity
        PROVE  \A k \in Key : IncidentStep(state[k], state'[k])
    <2>1. Failing(old, Announced(inc))
      BY <1>0, <1>3, FailingStep
    <2>2. Admit(e, Announced(inc))
      BY <1>3 DEF AdmitAndTell
    <2>3. QED
      BY <2>1, <2>2, AdmitStep
  <1>4. ASSUME NEW sev \in Severity, AdmitAndTell(e, Enrich(Touched(old, e), sev))
        PROVE  \A k \in Key : IncidentStep(state[k], state'[k])
    <2>1. Enrich(Touched(old, e), sev) \in Incident
          /\ Enrich(Touched(old, e), sev).status = "active"
      BY ProcessedActive
    <2>2. Enrich(Touched(old, e), sev).severity >= old.severity
      BY <1>0, EnrichMonotone
    <2>3. QED
      BY <1>3, <1>4, <2>1, <2>2
  <1>5. ASSUME ~ Open(old), AdmitAndTell(e, newIncident(e))
        PROVE  \A k \in Key : IncidentStep(state[k], state'[k])
    BY <1>5, <1>3, ProcessedActive
  <1>6. CASE ProcessRecreate(e)
    BY <1>5, <1>6 DEF ProcessRecreate, Open
  <1>7. CASE ProcessRevive(e)
    BY <1>4, <1>7, ProcessedActive DEF ProcessRevive
  <1>8. CASE ProcessRepeat(e)
    BY <1>4, <1>8, ProcessedActive DEF ProcessRepeat
  <1>9. CASE ProcessNew(e)
    BY <1>5, <1>9 DEF ProcessNew, Exists, Open
  <1>10. CASE ProcessDigested(e)
    <2> DEFINE inc == newIncident(e)
               dig == [inc EXCEPT !.digested = TRUE, !.notifiedSig = notifSig(inc)]
    <2>1. dig.status = "active" /\ dig.notifiedSig = notifSig(dig)
      BY ProcessedActive DEF Incident, notifSig
    <2>2. ~ Open(old) /\ Admit(e, dig)
      BY <1>10 DEF ProcessDigested, Exists, Open
    <2> HIDE DEF dig
    <2>3. QED
      BY <2>1, <2>2, AdmitStep DEF Failing
  <1>11. QED
    BY <1>1, <1>2, <1>6, <1>7, <1>8, <1>9, <1>10 DEF Process

LEMMA ResolveStep ==
  ASSUME TypeOK,
         \/ \E k \in Key : MarkResolved(k) \/ MarkResolvedIdle(k)
         \/ \E ns \in Namespace, p \in Pod : RemovePod(ns, p)
         \/ \E r, n : ResolveByResource(r, n)
  PROVE  \A k \in Key : CalmStep(state[k], state'[k])
  <1>0. \A k \in Key : state[k] \in Incident /\ CalmStep(state[k], state[k])
    BY DEF TypeOK, CalmStep, Kept, SameView
  <1>1. \A inc \in Incident : inc.status = "active" => CalmStep(inc, Settle(inc))
    BY SettleStep DEF CalmStep
  <1>2. ASSUME NEW k \in Key, MarkResolved(k)
        PROVE  \A j \in Key : CalmStep(state[j], state'[j])
    BY <1>0, <1>1, <1>2 DEF MarkResolved
  <1>3. ASSUME NEW k \in Key, MarkResolvedIdle(k)
        PROVE  \A j \in Key : CalmStep(state[j], state'[j])
    BY <1>0, <1>3 DEF MarkResolvedIdle
  <1>4. ASSUME NEW ns \in Namespace, NEW p \in Pod, RemovePod(ns, p), NEW k \in Key
        PROVE  CalmStep(state[k], state'[k])
    <2> DEFINE w == [state[k] EXCEPT !.resources = @ \ {p}]
    <2>1. /\ w \in Incident /\ SameView(state[k], w)
          /\ w.idle = state[k].idle /\ w.held = state[k].held
      BY <1>0 DEF Incident, SameView
    <2>2. \/ state'[k] = Settle(w) /\ state[k].status = "active"
          \/ state'[k] = w
          \/ state'[k] = state[k]
      <3> DEFINE hit     == {j \in Key : Identity[j].namespace = ns /\ p \in state[j].resources}
                 emptied == {j \in hit : state[j].resources = {p} /\ state[j].status = "active"}
      <3>1. state'[k] = CASE k \in emptied -> Settle(w)
                          [] k \in hit \ emptied -> w
                          [] OTHER -> state[k]
        BY <1>4 DEF RemovePod
      <3>2. k \in emptied => state[k].status = "active"
        OBVIOUS
      <3> HIDE DEF hit, emptied, w
      <3>3. QED
        BY <3>1, <3>2
    <2> HIDE DEF w
    <2>3. CASE state'[k] = Settle(w) /\ state[k].status = "active"
      <3>1. Held(w, Settle(w)) \/ Ended(w, Settle(w))
        BY <2>1, <2>3, SettleStep DEF SameView
      <3>2. QED
        BY <2>1, <2>3, <3>1 DEF CalmStep, Held, Ended, SameView, Open
    <2>4. CASE state'[k] = w
      BY <2>1, <2>4 DEF CalmStep, Kept
    <2>5. QED
      BY <1>0, <2>2, <2>3, <2>4
  <1>5. ASSUME NEW r, NEW n, ResolveByResource(r, n), NEW k \in Key
        PROVE  CalmStep(state[k], state'[k])
    <2>1. \/ state'[k] = Settle(state[k]) /\ state[k].status = "active"
          \/ state'[k] = state[k]
      BY <1>5 DEF ResolveByResource
    <2>2. QED
      BY <1>0, <1>1, <2>1
  <1>6. QED
    BY <1>2, <1>3, <1>4, <1>5

LEMMA TickerStep ==
  ASSUME TypeOK, checkLifecycle \/ Tick, NEW k \in Key
  PROVE  CalmStep(state[k], state'[k])
  <1>0. state[k] \in Incident /\ CalmStep(state[k], state[k])
    BY DEF TypeOK, CalmStep, Kept, SameView
  <1>1. CASE checkLifecycle
    <2> DEFINE reminded == [state[k] EXCEPT !.renotifyCount = @ + 1, !.sinceNotified = 0]
               ended    == Announced(Resolved(state[k]))
    <2>1. state'[k] = CASE k \in Matured  -> ended
                        [] k \in DueAgain -> reminded
                        [] OTHER          -> state[k]
      BY <1>1 DEF checkLifecycle
    <2>2. k \in Matured => CalmStep(state[k], ended)
      BY <1>0, EndedStep DEF CalmStep, Matured, Open
    <2>3. CalmStep(state[k], reminded)
      BY <1>0 DEF CalmStep, Kept, SameView, Incident
    <2> HIDE DEF reminded, ended
    <2>4. QED
      BY <1>0, <2>1, <2>2, <2>3
  <1>2. CASE Tick
    BY <1>2 DEF Tick, CalmStep
  <1>3. QED
    BY <1>1, <1>2

LEMMA CleanupStep ==
  ASSUME TypeOK, cleanup, NEW k \in Key
  PROVE  IF k \in Expired THEN Gone(state[k], state'[k]) ELSE Kept(state[k], state'[k])
  <1>1. state'[k] = IF k \in Expired THEN NoIncident ELSE state[k]
    BY DEF cleanup
  <1>2. QED
    BY <1>1 DEF Expired, Gone, Kept, SameView

LEMMA NextStep ==
  ASSUME TypeOK, [Next]_vars
  PROVE  \A k \in Key : IncidentStep(state[k], state'[k])
  <1>1. CASE \E e \in Event : Process(e)
    BY <1>1, ProcessStep
  <1>2. CASE cleanup
    BY <1>2, CleanupStep DEF IncidentStep, CalmStep
  <1>3. CASE checkLifecycle \/ Tick
    BY <1>3, TickerStep DEF IncidentStep
  <1>4. CASE \/ \E base \in LiveBaseline : SetSeen(base)
             \/ \E ns \in Namespace, p \in Pod : ClearSeenForPod(ns, p)
             \/ UNCHANGED vars
    BY <1>4 DEF SetSeen, ClearSeenForPod, vars, IncidentStep, CalmStep, Kept, SameView
  <1>5. QED
    BY <1>1, <1>2, <1>3, <1>4, ResolveStep DEF IncidentStep, Next, Call, Conditions, Monitored

-----------------------------------------------------------------------------
(* What follows from the life cycle.                                       *)

(***************************************************************************)
(* The severity of an incident never goes down while it is open, for any   *)
(* escalation tiers and any order of events.                               *)
(***************************************************************************)
THEOREM SeverityNeverLowered == Spec => SeverityMonotone
  <1>1. ASSUME TypeOK, [Next]_vars, NEW k \in Key, Open(state[k]), Open(state'[k])
        PROVE  state'[k].severity >= state[k].severity
    <2>1. IncidentStep(state[k], state'[k])
      BY <1>1, NextStep
    <2>2. state[k] \in Incident /\ state[k].severity \in 0 .. 3
      BY <1>1 DEF TypeOK, Incident, Severity
    <2>3. Aged(state[k]).severity = state[k].severity
      BY <2>2 DEF Aged, Incident
    <2>4. ~ Open(NoIncident)
      BY DEF Open, NoIncident
    <2>5. QED
      BY <1>1, <2>1, <2>2, <2>3, <2>4
      DEF IncidentStep, CalmStep, Kept, SameView, Failing, Held, Ended, Gone, Open
  <1>2. TypeOK /\ [Next]_vars =>
          [\A k \in Key : Open(state[k]) /\ Open(state'[k]) =>
              state'[k].severity >= state[k].severity]_vars
    BY <1>1
  <1>3. QED
    BY <1>2, TypeCorrect, PTL DEF Spec, SeverityMonotone

(***************************************************************************)
(* What the operator was last told about an incident is always its current *)
(* phase and severity: no call changes them past edgeAction.               *)
(***************************************************************************)
THEOREM ToldTheTruth == Spec => []OperatorUpToDate
  <1>1. ASSUME TypeOK, OperatorUpToDate, [Next]_vars, NEW k \in Key, state'[k].status # "absent"
        PROVE  state'[k].notifiedSig = notifSig(state'[k])
    <2>1. IncidentStep(state[k], state'[k]) /\ state[k] \in Incident
      BY <1>1, NextStep DEF TypeOK
    <2>2. CASE state'[k] = Aged(state[k])
      <3>1. SameView(state[k], state'[k])
        BY <2>1, <2>2 DEF Aged, SameView, Incident
      <3>2. QED
        BY <1>1, <3>1 DEF OperatorUpToDate, Exists, SameView, notifSig
    <2>3. CASE Kept(state[k], state'[k]) \/ Held(state[k], state'[k])
      BY <1>1, <2>3 DEF OperatorUpToDate, Exists, Kept, Held, SameView, notifSig
    <2>4. CASE Failing(state[k], state'[k]) \/ Ended(state[k], state'[k])
      BY <2>4 DEF Failing, Ended
    <2>5. CASE Gone(state[k], state'[k])
      BY <1>1, <2>5 DEF Gone, Exists, NoIncident
    <2>6. QED
      BY <2>1, <2>2, <2>3, <2>4, <2>5 DEF IncidentStep, CalmStep
  <1>2. TypeOK /\ OperatorUpToDate /\ [Next]_vars => OperatorUpToDate'
    BY <1>1 DEF OperatorUpToDate, Exists
  <1>3. Init => OperatorUpToDate
    <2>1. NoIncident.status = "absent"
      BY DEF NoIncident
    <2>2. QED
      BY <2>1 DEF Init, OperatorUpToDate, Exists
  <1>4. QED
    BY <1>2, <1>3, TypeCorrect, PTL DEF Spec

LEMMA ProcessIndexed ==
  ASSUME TypeOK, NamespaceIndexed, NEW e \in Event, Process(e)
  PROVE  NamespaceIndexed'
  <1>1. CASE ProcessBaselined(e)
    BY <1>1 DEF ProcessBaselined, NamespaceIndexed, Exists
  <1>2. CASE ProcessInhibited(e)
    <2>1. \A k \in Key : state'[k].status = state[k].status
      <3>1. CASE state' = state
        BY <3>1
      <3>2. ASSUME NEW n \in Key, state' = [state EXCEPT ![n].suppressedPods = TRUE]
            PROVE  \A k \in Key : state'[k].status = state[k].status
        <4>1. state[n] \in Incident /\ state \in [Key -> Incident]
          BY DEF TypeOK
        <4>2. state'[n] = [state[n] EXCEPT !.suppressedPods = TRUE]
              /\ \A k \in Key : k # n => state'[k] = state[k]
          BY <3>2, <4>1
        <4>3. state'[n].status = state[n].status
          BY <4>1, <4>2 DEF Incident
        <4>4. QED
          BY <4>2, <4>3
      <3>3. QED
        BY <1>2, <3>1, <3>2 DEF ProcessInhibited
    <2>2. QED
      BY <1>2, <2>1 DEF ProcessInhibited, NamespaceIndexed, Exists
  <1>3. ASSUME NEW inc, inc.status = "active", Admit(e, inc)
        PROVE  NamespaceIndexed'
    <2>1. /\ state'[e.key].status = "active"
          /\ \A k \in Key : k # e.key => state'[k] = state[k]
          /\ namespaceIndex' = indexIncidentByNamespace(e.key)
          /\ e.key \in Key
      BY <1>3, EventType DEF Admit, TypeOK
    <2>2. QED
      BY <2>1 DEF NamespaceIndexed, Exists, indexIncidentByNamespace
  <1>4. ASSUME NEW inc \in Incident, inc.status = "active", AdmitAndTell(e, inc)
        PROVE  NamespaceIndexed'
    BY <1>3, <1>4, AnnouncedType DEF AdmitAndTell
  <1>5. CASE ProcessRecreate(e) \/ ProcessNew(e)
    BY <1>4, <1>5, ProcessedActive DEF ProcessRecreate, ProcessNew
  <1>6. CASE ProcessRevive(e)
    BY <1>4, <1>6, ProcessedActive DEF ProcessRevive
  <1>7. CASE ProcessRepeat(e)
    BY <1>4, <1>7, ProcessedActive DEF ProcessRepeat
  <1>8. CASE ProcessDigested(e)
    <2> DEFINE inc == newIncident(e)
               dig == [inc EXCEPT !.digested = TRUE, !.notifiedSig = notifSig(inc)]
    <2>1. dig.status = "active"
      BY ProcessedActive DEF Incident
    <2>2. Admit(e, dig)
      BY <1>8 DEF ProcessDigested
    <2> HIDE DEF dig
    <2>3. QED
      BY <1>3, <2>1, <2>2
  <1>9. QED
    BY <1>1, <1>2, <1>5, <1>6, <1>7, <1>8 DEF Process

LEMMA CalmKeepsTable ==
  ASSUME NEW o \in Incident, NEW n, CalmStep(o, n)
  PROVE  n.status = "absent" <=> o.status = "absent"
  <1>1. Aged(o).status = o.status
    BY AgedType
  <1>2. QED
    BY <1>1 DEF CalmStep, Kept, SameView, Held, Ended, Open

(***************************************************************************)
(* The per-namespace index lists the incidents of the table, all of them   *)
(* and no other, whatever creates, resolves or ages them out.              *)
(***************************************************************************)
THEOREM IndexExact == Spec => []NamespaceIndexed
  <1>1. ASSUME TypeOK, NamespaceIndexed, namespaceIndex' = namespaceIndex,
               \A k \in Key : CalmStep(state[k], state'[k])
        PROVE  NamespaceIndexed'
    <2>1. \A k \in Key : state[k] \in Incident
      BY <1>1 DEF TypeOK
    <2>2. \A k \in Key : state'[k].status = "absent" <=> state[k].status = "absent"
      BY <1>1, <2>1, CalmKeepsTable
    <2>3. QED
      BY <1>1, <2>2 DEF NamespaceIndexed, Exists
  <1>2. TypeOK /\ NamespaceIndexed /\ [Next]_vars => NamespaceIndexed'
    <2> SUFFICES ASSUME TypeOK, NamespaceIndexed, [Next]_vars PROVE NamespaceIndexed'
      OBVIOUS
    <2>1. CASE \E e \in Event : Process(e)
      BY <2>1, ProcessIndexed
    <2>2. CASE \/ \E k \in Key : MarkResolved(k) \/ MarkResolvedIdle(k)
               \/ \E ns \in Namespace, p \in Pod : RemovePod(ns, p)
               \/ \E r, n : ResolveByResource(r, n)
      <3>1. namespaceIndex' = namespaceIndex
        BY <2>2 DEF MarkResolved, MarkResolvedIdle, RemovePod, ResolveByResource
      <3>2. QED
        BY <1>1, <2>2, <3>1, ResolveStep
    <2>3. CASE cleanup
      <3>1. \A k \in Key : state'[k].status =
                             IF k \in Expired THEN "absent" ELSE state[k].status
        BY <2>3, CleanupStep DEF Gone, Kept, SameView, NoIncident
      <3>2. QED
        BY <2>3, <3>1
        DEF cleanup, NamespaceIndexed, Exists, removeIncidentFromNamespaceIndex
    <2>4. CASE checkLifecycle \/ Tick
      <3>1. namespaceIndex' = namespaceIndex
        BY <2>4 DEF checkLifecycle, Tick
      <3>2. QED
        BY <1>1, <2>4, <3>1, TickerStep
    <2>5. CASE \/ \E base \in LiveBaseline : SetSeen(base)
               \/ \E ns \in Namespace, p \in Pod : ClearSeenForPod(ns, p)
               \/ UNCHANGED vars
      BY <2>5 DEF SetSeen, ClearSeenForPod, vars, NamespaceIndexed, Exists
    <2>6. QED
      BY <2>1, <2>2, <2>3, <2>4, <2>5 DEF Next, Call, Conditions, Monitored
  <1>3. Init => NamespaceIndexed
    <2>1. NoIncident.status = "absent"
      BY DEF NoIncident
    <2>2. QED
      BY <2>1 DEF Init, NamespaceIndexed, Exists
  <1>4. QED
    BY <1>2, <1>3, TypeCorrect, PTL DEF Spec

(* Both caches of the incident table, the flags that inhibit and the index *)
(* by namespace, agree with it in every reachable state.                   *)
THEOREM CachesAlwaysExact == Spec => []CachesExact
  <1>1. NodeInhibition /\ NamespaceIndexed => CachesExact
    BY DEF CachesExact
  <1>2. QED
    BY <1>1, InhibitionExact, IndexExact, PTL

-----------------------------------------------------------------------------
(* The hold-down.                                                          *)

LEMMA AgedQuiet ==
  ASSUME NEW o \in Incident, o.status = "pending", o.held <= o.idle
  PROVE  Aged(o).held <= Aged(o).idle
  <1>1. /\ Aged(o).held = Older(o.held, HoldDown + 1)
        /\ Aged(o).idle = Older(o.idle, Window + 1)
    BY DEF Aged, Incident
  <1>2. /\ o.held \in 0 .. HoldDown + 1 /\ o.idle \in 0 .. Window + 1
        /\ HoldDown \in Nat /\ Window \in Nat /\ HoldDown <= Window
    BY Durations DEF Incident
  <1>3. Older(o.held, HoldDown + 1) <= Older(o.idle, Window + 1)
    BY <1>2 DEF Older
  <1>4. QED
    BY <1>1, <1>3

(***************************************************************************)
(* An incident on hold has had no event since it was put on hold: the time *)
(* it has been held never exceeds the time since its last event, although  *)
(* both clocks stop at different bounds.                                   *)
(***************************************************************************)
THEOREM HoldQuiet == Spec => []HoldIsQuiet
  <1>1. ASSUME TypeOK, HoldIsQuiet, [Next]_vars, NEW k \in Key,
               state'[k].status = "pending"
        PROVE  HoldDown > 0 /\ state'[k].held <= state'[k].idle
    <2>1. IncidentStep(state[k], state'[k]) /\ state[k] \in Incident
      BY <1>1, NextStep DEF TypeOK
    <2>2. CASE state'[k] = Aged(state[k])
      <3>1. state[k].status = "pending"
        BY <1>1, <2>1, <2>2, AgedType
      <3>2. QED
        BY <1>1, <2>1, <2>2, <3>1, AgedQuiet DEF HoldIsQuiet
    <2>3. CASE Kept(state[k], state'[k])
      BY <1>1, <2>3 DEF HoldIsQuiet, Kept, SameView
    <2>4. CASE Held(state[k], state'[k])
      <3>1. state[k].idle \in 0 .. Window + 1
        BY <2>1 DEF Incident
      <3>2. QED
        BY <2>4, <3>1 DEF Held
    <2>5. ~ (Failing(state[k], state'[k]) \/ Ended(state[k], state'[k]) \/ Gone(state[k], state'[k]))
      BY <1>1 DEF Failing, Ended, Gone, NoIncident
    <2>6. QED
      BY <2>1, <2>2, <2>3, <2>4, <2>5 DEF IncidentStep, CalmStep
  <1>2. TypeOK /\ HoldIsQuiet /\ [Next]_vars => HoldIsQuiet'
    BY <1>1 DEF HoldIsQuiet
  <1>3. Init => HoldIsQuiet
    <2>1. NoIncident.status = "absent"
      BY DEF NoIncident
    <2>2. QED
      BY <2>1 DEF Init, HoldIsQuiet
  <1>4. QED
    BY <1>2, <1>3, TypeCorrect, PTL DEF Spec

LEMMA EdgeIsOwn ==
  ASSUME NEW k, NEW j, NEW inc, NEW action, Notify(action, k) \in EdgeOf(j, inc)
  PROVE  k = j /\ action = edgeAction(inc)
  <1>1. Notify(action, k) = Notify(edgeAction(inc), j)
    BY DEF EdgeOf
  <1>2. Notify(action, k).action = action /\ Notify(action, k).keys = {k}
    BY DEF Notify
  <1>3. /\ Notify(edgeAction(inc), j).action = edgeAction(inc)
        /\ Notify(edgeAction(inc), j).keys = {j}
    BY DEF Notify
  <1>4. QED
    BY <1>1, <1>2, <1>3

LEMMA ResolvedEdgeOwner ==
  ASSUME NEW k, NEW K, Notify("Resolved", k) \in ResolvedEdges(K)
  PROVE  k \in K
  BY EdgeIsOwn DEF ResolvedEdges

LEMMA OtherNotification ==
  ASSUME NEW k, NEW n, n.action # "Resolved"
  PROVE  n # Notify("Resolved", k)
  BY DEF Notify

(* No failure event makes the operator read "resolved".                    *)
LEMMA ProcessNeverResolves ==
  ASSUME TypeOK, NEW e \in Event, Process(e), NEW k
  PROVE  ~ Told("Resolved", k)
  <1> SUFFICES Notify("Resolved", k) \notin sent'
    BY DEF Told
  <1>1. CASE ProcessBaselined(e) \/ ProcessInhibited(e)
    BY <1>1 DEF ProcessBaselined, ProcessInhibited
  <1>2. ASSUME NEW inc, inc.status = "active", AdmitAndTell(e, inc)
        PROVE  Notify("Resolved", k) \notin sent'
    <2>1. edgeAction(inc) # "Resolved"
      BY <1>2 DEF edgeAction
    <2>2. QED
      BY <1>2, <2>1, EdgeIsOwn DEF AdmitAndTell
  <1>3. CASE ProcessRecreate(e) \/ ProcessNew(e)
    BY <1>2, <1>3, ProcessedActive DEF ProcessRecreate, ProcessNew
  <1>4. CASE ProcessRevive(e)
    BY <1>2, <1>4, ProcessedActive DEF ProcessRevive
  <1>5. CASE ProcessRepeat(e)
    BY <1>2, <1>5, ProcessedActive DEF ProcessRepeat
  <1>6. CASE ProcessDigested(e)
    <2>1. Notify("Digest", e.key).action = "Digest"
      BY DEF Notify
    <2>2. QED
      BY <1>6, <2>1, OtherNotification DEF ProcessDigested
  <1>7. QED
    BY <1>1, <1>3, <1>4, <1>5, <1>6 DEF Process

(***************************************************************************)
(* With a hold-down configured, every Resolved the operator reads is about *)
(* something that had been quiet for longer than the hold-down: whichever  *)
(* of the hold-down's end, the cleanup and the reports of recovery sends   *)
(* it.                                                                     *)
(***************************************************************************)
THEOREM ResolvedOnlyWhenQuiet == Spec => ResolvedIsQuiet
  <1>1. ASSUME TypeOK, HoldIsQuiet, Next, NEW k \in Key, HoldDown > 0, Told("Resolved", k)
        PROVE  state[k].idle > HoldDown
    <2>0. /\ Notify("Resolved", k) \in sent' /\ HoldDown \in Nat /\ Window \in Nat
          /\ HoldDown <= Window /\ state[k].idle \in Nat /\ state[k].held \in Nat
      <3>1. state[k] \in Incident
        BY <1>1 DEF TypeOK
      <3>2. state[k].idle \in 0 .. Window + 1 /\ state[k].held \in 0 .. HoldDown + 1
        BY <3>1 DEF Incident
      <3>3. QED
        BY <1>1, <3>2, Durations DEF Told
    <2>1. CASE \E e \in Event : Process(e)
      BY <1>1, <2>1, ProcessNeverResolves
    <2>2. CASE \/ \E j \in Key : MarkResolved(j) \/ MarkResolvedIdle(j)
               \/ \E ns \in Namespace, p \in Pod : RemovePod(ns, p)
               \/ \E r, n : ResolveByResource(r, n)
      <3>0. HoldDown # 0
        BY <1>1, <2>0
      <3>1. sent' = {} \/ sent' = ResolvedEdges({})
        <4>1. ASSUME NEW j \in Key, MarkResolved(j) \/ MarkResolvedIdle(j)
              PROVE  sent' = {}
          BY <3>0, <4>1 DEF MarkResolved, MarkResolvedIdle
        <4>2. ASSUME NEW ns \in Namespace, NEW p \in Pod, RemovePod(ns, p)
              PROVE  sent' = ResolvedEdges({})
          BY <3>0, <4>2 DEF RemovePod
        <4>3. ASSUME NEW r, NEW n, ResolveByResource(r, n)
              PROVE  sent' = ResolvedEdges({})
          BY <3>0, <4>3 DEF ResolveByResource
        <4>4. QED
          BY <2>2, <4>1, <4>2, <4>3
      <3>2. QED
        BY <2>0, <3>1, ResolvedEdgeOwner
    <2>3. CASE cleanup
      <3>1. k \in {j \in Expired : state[j].status = "active"}
        BY <2>0, <2>3, ResolvedEdgeOwner DEF cleanup
      <3>2. state[k].idle > Window
        BY <3>1 DEF Expired
      <3>3. QED
        BY <2>0, <3>2
    <2>4. CASE checkLifecycle
      <3>1. /\ \A j : Notify("Update", j).action = "Update"
            /\ [action |-> "DigestFlush", keys |-> digestBuf].action = "DigestFlush"
        BY DEF Notify
      <3>2. Notify("Resolved", k) \in ResolvedEdges(Matured)
        BY <2>0, <2>4, <3>1, OtherNotification DEF checkLifecycle
      <3>3. k \in Matured
        BY <3>2, ResolvedEdgeOwner
      <3>4. QED
        BY <1>1, <2>0, <3>3 DEF Matured, HoldIsQuiet
    <2>5. CASE \/ Tick
               \/ \E base \in LiveBaseline : SetSeen(base)
               \/ \E ns \in Namespace, p \in Pod : ClearSeenForPod(ns, p)
      BY <2>0, <2>5 DEF Tick, SetSeen, ClearSeenForPod
    <2>6. QED
      BY <1>1, <2>1, <2>2, <2>3, <2>4, <2>5 DEF Next, Call, Conditions, Monitored
  <1>2. TypeOK /\ HoldIsQuiet /\ [Next]_vars =>
          [\A k \in Key : HoldDown > 0 /\ Told("Resolved", k) =>
              state[k].idle > HoldDown]_vars
    BY <1>1
  <1>3. QED
    BY <1>2, TypeCorrect, HoldQuiet, PTL DEF Spec, ResolvedIsQuiet


-----------------------------------------------------------------------------
(* Who makes an incident visible.                                          *)

LEMMA ResolvedEdgesOnlyResolve ==
  ASSUME TypeOK, NEW K \in SUBSET Key, NEW action, NEW k,
         Notify(action, k) \in ResolvedEdges(K)
  PROVE  action = "Resolved"
  <1>1. PICK j \in K : Notify(action, k) \in EdgeOf(j, Resolved(state[j]))
    BY DEF ResolvedEdges
  <1>2. Resolved(state[j]).status = "resolved"
    BY SettleType DEF TypeOK
  <1>3. action = edgeAction(Resolved(state[j]))
    BY <1>1, EdgeIsOwn
  <1>4. edgeAction(Resolved(state[j])) # "Skip"
    BY <1>1 DEF EdgeOf
  <1>5. QED
    BY <1>2, <1>3, <1>4 DEF edgeAction

(* A page or a digest entry comes from an event of that very incident, and *)
(* from one that node inhibition let through.                              *)
LEMMA VisibleByEvent ==
  ASSUME TypeOK, Next, NEW k \in Key, NEW action \in {"Create", "Digest"},
         Told(action, k)
  PROVE  \E e \in Event : Process(e) /\ e.key = k /\ ~ Inhibited(e)
  <1>0. Notify(action, k) \in sent' /\ action # "Resolved" /\ action # "Update"
    BY DEF Told
  <1>1. ASSUME NEW K \in SUBSET Key, sent' = ResolvedEdges(K) \/ sent' = {}
        PROVE  FALSE
    BY <1>0, <1>1, ResolvedEdgesOnlyResolve
  <1>2. CASE \E e \in Event : Process(e)
    <2>1. PICK e \in Event : Process(e)
      BY <1>2
    <2>2. ASSUME NEW inc, AdmitAndTell(e, inc)
          PROVE  e.key = k /\ ~ Inhibited(e)
      BY <1>0, <2>2, EdgeIsOwn DEF AdmitAndTell, Admit
    <2>3. CASE ProcessDigested(e)
      <3>1. Notify(action, k) = Notify("Digest", e.key)
        BY <1>0, <2>3 DEF ProcessDigested
      <3>2. Notify(action, k).keys = {k} /\ Notify("Digest", e.key).keys = {e.key}
        BY DEF Notify
      <3>3. ~ Inhibited(e)
        BY <2>3 DEF ProcessDigested, Admit
      <3>4. QED
        BY <2>1, <3>1, <3>2, <3>3
    <2>4. CASE ProcessBaselined(e) \/ ProcessInhibited(e)
      BY <1>0, <2>4 DEF ProcessBaselined, ProcessInhibited
    <2>5. QED
      BY <2>1, <2>2, <2>3, <2>4
      DEF Process, ProcessRecreate, ProcessRevive, ProcessRepeat, ProcessNew
  <1>3. ASSUME NEW j \in Key, MarkResolved(j) \/ MarkResolvedIdle(j)
        PROVE  FALSE
    BY <1>1, <1>3 DEF MarkResolved, MarkResolvedIdle
  <1>4. ASSUME NEW ns, NEW p, RemovePod(ns, p)
        PROVE  FALSE
    <2>1. \E K \in SUBSET Key : sent' = ResolvedEdges(K)
      BY <1>4 DEF RemovePod
    <2>2. QED
      BY <1>1, <2>1
  <1>5. ASSUME NEW r, NEW n, ResolveByResource(r, n)
        PROVE  FALSE
    <2>1. \E K \in SUBSET Key : sent' = ResolvedEdges(K)
      BY <1>5 DEF ResolveByResource
    <2>2. QED
      BY <1>1, <2>1
  <1>6. CASE cleanup
    <2>1. {j \in Expired : state[j].status = "active"} \in SUBSET Key
      BY DEF Expired
    <2>2. QED
      BY <1>1, <1>6, <2>1 DEF cleanup
  <1>7. CASE checkLifecycle
    <2>1. Matured \in SUBSET Key
      BY DEF Matured
    <2>2. /\ \A j : Notify("Update", j).action = "Update"
          /\ [action |-> "DigestFlush", keys |-> digestBuf].action = "DigestFlush"
          /\ Notify(action, k).action = action
      BY DEF Notify
    <2>3. Notify(action, k) \in ResolvedEdges(Matured)
      BY <1>0, <1>7, <2>2 DEF checkLifecycle
    <2>4. QED
      BY <1>0, <2>1, <2>3, ResolvedEdgesOnlyResolve
  <1>8. CASE \/ Tick
             \/ \E base \in LiveBaseline : SetSeen(base)
             \/ \E ns \in Namespace, p \in Pod : ClearSeenForPod(ns, p)
    BY <1>0, <1>8 DEF Tick, SetSeen, ClearSeenForPod
  <1>9. QED
    BY <1>2, <1>3, <1>4, <1>5, <1>6, <1>7, <1>8 DEF Next, Call, Conditions, Monitored

(***************************************************************************)
(* No pod is reported while its node has an open incident, for any number  *)
(* of nodes, pods and conditions: the flag that holds events back is the   *)
(* table's (InhibitionExact), and an incident becomes visible only through *)
(* an event of its own that the flag let through.                          *)
(***************************************************************************)
THEOREM PodsAlwaysQuiet == Spec => PodQuietDuringNodeOutage
  <1>1. ASSUME TypeOK, NodeInhibition, Next, NEW k \in Key,
               Inhibit, Identity[k].resource = "pod",
               Told("Create", k) \/ Told("Digest", k)
        PROVE  \E e \in Event : e.key = k /\ e.node \notin OpenNodes(state)
    <2>1. PICK e \in Event : e.key = k /\ ~ Inhibited(e)
      BY <1>1, VisibleByEvent
    <2>2. "" \notin activeNodeIncidents
      BY <1>1, KeyAssumption DEF TypeOK
    <2>3. e.node \notin activeNodeIncidents
      BY <1>1, <2>1, <2>2 DEF Inhibited
    <2>4. QED
      BY <1>1, <2>1, <2>3 DEF NodeInhibition
  <1>2. TypeOK /\ NodeInhibition /\ [Next]_vars =>
          [\A k \in Key :
              /\ Inhibit
              /\ Identity[k].resource = "pod"
              /\ Told("Create", k) \/ Told("Digest", k)
              => \E e \in Event : e.key = k /\ e.node \notin OpenNodes(state)]_vars
    BY <1>1
  <1>3. QED
    BY <1>2, TypeCorrect, InhibitionExact, PTL DEF Spec, PodQuietDuringNodeOutage

-----------------------------------------------------------------------------
(* The baseline is let go entry by entry.                                  *)

(* What Process and Tick leave of a live entry.                            *)
LEMMA EventKeepsEntry ==
  ASSUME TypeOK, NEW e \in Event, Process(e), NEW k \in Key, NEW p \in PodName,
         isBaselined(k, p)
  PROVE  seen'[k][p] = seen[k][p]
  <1>0. seen \in [Key -> [PodName -> Unseen .. BaselineTTL]] /\ e.key \in Key /\ e.pod \in PodName
    BY EventType DEF TypeOK, Baseline
  <1>1. CASE ProcessBaselined(e)
    BY <1>1 DEF ProcessBaselined
  <1>2. ASSUME Unbaselined(e)
        PROVE  seen'[k][p] = seen[k][p]
    <2>1. seen' = [seen EXCEPT ![e.key][e.pod] = Unseen] /\ ~ isBaselined(e.key, e.pod)
      BY <1>2 DEF Unbaselined, DropExpired
    <2>2. e.key # k \/ e.pod # p
      BY <2>1
    <2>3. QED
      BY <1>0, <2>1, <2>2
  <1>3. QED
    BY <1>1, <1>2 DEF Process, ProcessInhibited, ProcessRecreate, ProcessRevive, ProcessRepeat,
      ProcessNew, ProcessDigested, AdmitAndTell, Admit

LEMMA SettledWithKey ==
  ASSUME TypeOK, NEW k \in Key, HoldDown = 0, state[k].status = "active",
         NEW inc \in Incident, state'[k] = Settle(inc)
  PROVE  ReleasedWithKey(k)
  <1>1. state'[k].status = "resolved"
    BY SettleType, Durations
  <1>2. QED
    BY <1>1 DEF ReleasedWithKey, Exists

LEMMA ReportReleasesByName ==
  ASSUME TypeOK, NEW k \in Key, NEW p \in PodName,
         isBaselined(k, p), seen'[k][p] = Unseen,
         \/ \E j \in Key : MarkResolved(j) \/ MarkResolvedIdle(j)
         \/ \E r, n : ResolveByResource(r, n)
         \/ \E ns \in Namespace, q \in Pod : RemovePod(ns, q) \/ ClearSeenForPod(ns, q)
  PROVE  \/ ReleasedWithKey(k)
         \/ p \in Pod /\ (SeenHealthy(k, p) \/ \E ns \in Namespace : RemovePod(ns, p))
  <1>0. /\ seen \in [Key -> [PodName -> Unseen .. BaselineTTL]]
        /\ seen[k][p] # Unseen /\ seen'[k][p] # seen[k][p]
        /\ state \in [Key -> Incident]
    BY DEF TypeOK, Baseline, isBaselined
  <1>1. ASSUME NEW j \in Key, MarkResolved(j)
        PROVE  ReleasedWithKey(k)
    <2>1. HoldDown = 0 /\ k = j
      BY <1>0, <1>1 DEF MarkResolved, Forget
    <2>2. state'[k] = Settle(state[k]) /\ state[k].status = "active"
      BY <1>0, <1>1, <2>1 DEF MarkResolved
    <2>3. QED
      BY <1>0, <2>1, <2>2, SettledWithKey
  <1>2. ASSUME NEW j \in Key, MarkResolvedIdle(j)
        PROVE  FALSE
    BY <1>0, <1>2 DEF MarkResolvedIdle
  <1>3. ASSUME NEW r, NEW n, ResolveByResource(r, n)
        PROVE  ReleasedWithKey(k)
    <2> DEFINE hit == {j \in Key : /\ Identity[j].resource = r
                                   /\ Identity[j].name = n
                                   /\ state[j].status = "active"}
    <2>1. HoldDown = 0 /\ k \in hit
      BY <1>0, <1>3 DEF ResolveByResource, Forget
    <2>2. state'[k] = Settle(state[k]) /\ state[k].status = "active"
      BY <1>3, <2>1 DEF ResolveByResource
    <2>3. QED
      BY <1>0, <2>1, <2>2, SettledWithKey
  <1>4. ASSUME NEW ns \in Namespace, NEW q \in Pod, RemovePod(ns, q)
        PROVE  ReleasedWithKey(k) \/ (p \in Pod /\ RemovePod(ns, p))
    <2> DEFINE hit     == {j \in Key : Identity[j].namespace = ns /\ q \in state[j].resources}
               emptied == {j \in hit : state[j].resources = {q} /\ state[j].status = "active"}
               closed  == IF HoldDown = 0 THEN emptied ELSE {}
    <2>1. CASE p = q
      BY <1>4, <2>1
    <2>2. CASE p # q
      <3>1. seen'[k] = [Forget(seen, closed)[k] EXCEPT ![q] = Unseen]
        BY <1>4 DEF RemovePod
      <3>2. Forget(seen, closed)[k] \in [PodName -> Unseen .. BaselineTTL]
        BY <1>0, ForgetType DEF Baseline
      <3>3. seen'[k][p] = Forget(seen, closed)[k][p]
        BY <2>2, <3>1, <3>2
      <3>4. k \in closed
        BY <1>0, <3>3 DEF Forget
      <3>5. HoldDown = 0 /\ k \in emptied
        BY <3>4
      <3>6. state[k].status = "active"
        BY <3>5
      <3> DEFINE inc == [state[k] EXCEPT !.resources = @ \ {q}]
      <3>7. state'[k] = Settle(inc)
        BY <1>4, <3>5 DEF RemovePod
      <3>8. inc \in Incident
        <4>1. state[k] \in Incident
          BY <1>0
        <4>2. QED
          BY <4>1 DEF Incident
      <3> HIDE DEF inc, closed, emptied, hit
      <3>9. ReleasedWithKey(k)
        BY <3>5, <3>6, <3>7, <3>8, SettledWithKey
      <3>10. QED
        BY <3>9
    <2>3. QED
      BY <2>1, <2>2
  <1>5. ASSUME NEW ns \in Namespace, NEW q \in Pod, ClearSeenForPod(ns, q)
        PROVE  p \in Pod /\ SeenHealthy(k, p)
    <2>1. seen'[k] = IF Identity[k].namespace = ns THEN [seen[k] EXCEPT ![q] = Unseen] ELSE seen[k]
      BY <1>5 DEF ClearSeenForPod
    <2>2. Identity[k].namespace = ns /\ p = q
      BY <1>0, <2>1
    <2>3. QED
      BY <1>5, <2>2 DEF SeenHealthy
  <1>6. QED
    BY <1>1, <1>2, <1>3, <1>4, <1>5

(***************************************************************************)
(* Nothing takes a live entry out of the baseline but its key's end, a     *)
(* replacement of the whole, the removal of a pod of that name, and its    *)
(* own pod's recovery: for any keys, pods and namespaces.                  *)
(***************************************************************************)
THEOREM BaselineAlwaysReleasedByName == Spec => BaselineReleasedByName
  <1>1. ASSUME TypeOK, Next, NEW k \in Key, NEW p \in PodName,
               isBaselined(k, p), seen'[k][p] = Unseen
        PROVE  \/ ReleasedWithKey(k)
               \/ p \in Pod /\ (SeenHealthy(k, p) \/ \E ns \in Namespace : RemovePod(ns, p))
    <2>0. /\ seen[k][p] # Unseen /\ seen'[k][p] # seen[k][p]
          /\ seen[k][p] \in Unseen .. BaselineTTL
      BY <1>1 DEF isBaselined, TypeOK, Baseline
    <2>1. CASE \E base \in LiveBaseline : SetSeen(base)
      BY <2>1 DEF SetSeen, ReleasedWithKey
    <2>2. CASE \E e \in Event : Process(e)
      BY <1>1, <2>0, <2>2, EventKeepsEntry
    <2>3. CASE cleanup
      <3>1. k \in Expired
        BY <2>0, <2>3 DEF cleanup, Forget
      <3>2. state'[k].status = "absent" /\ Exists(k)
        BY <2>3, <3>1 DEF cleanup, Expired, NoIncident
      <3>3. QED
        BY <3>2 DEF ReleasedWithKey
    <2>4. CASE checkLifecycle
      <3>1. k \in Matured
        BY <2>0, <2>4 DEF checkLifecycle, Forget
      <3>2. state'[k] = Announced(Resolved(state[k]))
        <4>1. \A j \in Matured : state'[j] = Announced(Resolved(state[j]))
          BY <2>4 DEF checkLifecycle, Matured, DueAgain
        <4>2. QED
          BY <3>1, <4>1
      <3>3. Exists(k)
        BY <3>1 DEF Matured, Exists
      <3>4. Resolved(state[k]) \in Incident /\ Resolved(state[k]).status = "resolved"
        BY <1>1, SettleType DEF TypeOK
      <3>5. state'[k].status = "resolved"
        BY <3>2, <3>4, AnnouncedType
      <3>6. QED
        BY <3>3, <3>5 DEF ReleasedWithKey
    <2>5. CASE Tick
      <3>1. seen'[k][p] = Older(seen[k][p], BaselineTTL)
        BY <2>0, <2>5 DEF Tick
      <3>2. QED
        BY <1>1, <2>0, <3>1, Durations DEF Older, Unseen
    <2>6. QED
      BY <1>1, <2>1, <2>2, <2>3, <2>4, <2>5, ReportReleasesByName DEF Next, Call, Conditions, Monitored
  <1>2. TypeOK /\ [Next]_vars =>
          [\A k \in Key, p \in PodName :
             /\ isBaselined(k, p) /\ seen'[k][p] = Unseen
             => \/ ReleasedWithKey(k)
                \/ p \in Pod /\ (SeenHealthy(k, p) \/ \E ns \in Namespace : RemovePod(ns, p))]_vars
    BY <1>1
  <1>3. QED
    BY <1>2, TypeCorrect, PTL DEF Spec, BaselineReleasedByName

-----------------------------------------------------------------------------
(* The engine implements AlertStream.                                      *)

(* What an incident and the digest buffer make the operator know.          *)
LEMMA ToldNow ==
  ASSUME NEW k \in Key
  PROVE  /\ ~ Open(state[k]) => told[k] = "silent"
         /\ Open(state[k]) /\ ~ state[k].digested => told[k] \in {"firing", "held"}
         /\ state[k].status = "active" /\ ~ state[k].digested => told[k] = "firing"
         /\ state[k].status = "pending" /\ ~ state[k].digested => told[k] = "held"
         /\ Open(state[k]) /\ state[k].digested /\ k \in digestBuf => told[k] = "buffered"
         /\ Open(state[k]) /\ state[k].digested /\ k \notin digestBuf => told[k] = "summarised"
BY DEF told, Open

LEMMA ToldNext ==
  ASSUME NEW k \in Key
  PROVE  /\ ~ Open(state'[k]) => told'[k] = "silent"
         /\ Open(state'[k]) /\ ~ state'[k].digested => told'[k] \in {"firing", "held"}
         /\ state'[k].status = "active" /\ ~ state'[k].digested => told'[k] = "firing"
         /\ Open(state'[k]) /\ state'[k].digested /\ k \in digestBuf' => told'[k] = "buffered"
         /\ Open(state'[k]) /\ state'[k].digested /\ k \notin digestBuf' => told'[k] = "summarised"
BY DEF told, Open

-----------------------------------------------------------------------------
(* Who a notification is about.                                            *)

LEMMA NotifyOwn ==
  ASSUME NEW a, NEW k, NEW b, NEW j
  PROVE  /\ Notify(a, k) = Notify(b, j) <=> a = b /\ k = j
         /\ Notify(a, k).action = a /\ Notify(a, k).keys = {k}
BY DEF Notify

LEMMA NothingSaid ==
  ASSUME NEW k, sent' = {}
  PROVE  Alerts!Quiet(k) /\ ~ Alerts!Flushed(k)
BY DEF Alerts!Quiet, Alerts!Says, Alerts!Flushed

LEMMA OneSaid ==
  ASSUME NEW k, NEW a \in {"Create", "Update", "Resolved", "Digest"}, sent' = {Notify(a, k)}
  PROVE  Alerts!Only(a, k)
BY DEF Alerts!Only, Alerts!Says, Notify

LEMMA OtherSaid ==
  ASSUME NEW k, NEW j, j # k, NEW a \in {"Create", "Update", "Resolved", "Digest"},
         sent' = {Notify(a, j)}
  PROVE  Alerts!Quiet(k) /\ ~ Alerts!Flushed(k)
BY DEF Alerts!Quiet, Alerts!Says, Alerts!Flushed, Notify

(* Of the incidents in K those that were not left to a digest are told of. *)
LEMMA ResolvedSaid ==
  ASSUME TypeOK, OperatorUpToDate, NEW K \in SUBSET Key, \A k \in K : Open(state[k]),
         NEW k \in Key
  PROVE  /\ \A a : Notify(a, k) \in ResolvedEdges(K)
                     <=> a = "Resolved" /\ k \in K /\ ~ state[k].digested
         /\ \A n \in ResolvedEdges(K) : n.action = "Resolved"
<1>1. ASSUME NEW j \in K
      PROVE  edgeAction(Resolved(state[j])) = IF state[j].digested THEN "Skip" ELSE "Resolved"
  <2> DEFINE inc == Resolved(state[j])
  <2>1. state[j] \in Incident /\ inc \in Incident
    BY SettleType DEF TypeOK
  <2>2. /\ inc.status = "resolved" /\ inc.digested = state[j].digested
        /\ inc.notifiedSig = state[j].notifiedSig
    BY <2>1 DEF Resolved, Incident
  <2>3. state[j].notifiedSig = notifSig(state[j])
    BY DEF OperatorUpToDate, Exists, Open
  <2>4. inc.notifiedSig.phase = "firing" /\ notifSig(inc).phase = "resolved"
    BY <2>2, <2>3 DEF notifSig, Open
  <2> HIDE DEF inc
  <2>5. CASE state[j].digested
    BY <2>2, <2>5 DEF edgeAction, inc
  <2>6. CASE ~ state[j].digested
    <3>1. notifSig(inc) # inc.notifiedSig
      BY <2>4
    <3>2. edgeAction(inc) = "Resolved"
      BY <2>2, <2>6, <3>1 DEF edgeAction
    <3>3. QED
      BY <2>6, <3>2 DEF inc
  <2>7. QED
    BY <2>5, <2>6
<1>2. ResolvedEdges(K) = {Notify("Resolved", j) : j \in {i \in K : ~ state[i].digested}}
  BY <1>1 DEF ResolvedEdges, EdgeOf
<1>3. ASSUME NEW a, Notify(a, k) \in ResolvedEdges(K)
      PROVE  a = "Resolved" /\ k \in K /\ ~ state[k].digested
  <2>1. PICK j \in K : ~ state[j].digested /\ Notify(a, k) = Notify("Resolved", j)
    BY <1>2, <1>3
  <2>2. a = "Resolved" /\ k = j
    BY <2>1, NotifyOwn
  <2>3. QED
    BY <2>1, <2>2
<1>4. ASSUME k \in K, ~ state[k].digested
      PROVE  Notify("Resolved", k) \in ResolvedEdges(K)
  BY <1>2, <1>4
<1>5. \A n \in ResolvedEdges(K) : n.action = "Resolved"
  BY <1>2, NotifyOwn
<1>6. QED
  BY <1>3, <1>4, <1>5

-----------------------------------------------------------------------------
(* Steps of one key.                                                       *)

(* Nothing is said of the key and nothing about it changes that a reader  *)
(* was told, a digest that carries it apart.                               *)
LEMMA QuietStep ==
  ASSUME NEW k \in Key, Alerts!Quiet(k),
         Open(state'[k]) <=> Open(state[k]),
         Open(state[k]) => state'[k].digested = state[k].digested,
         \/ ~ Alerts!Flushed(k) /\ (k \in digestBuf' <=> k \in digestBuf)
         \/ (Alerts!Flushed(k) <=> k \in digestBuf) /\ k \notin digestBuf'
  PROVE  Alerts!Step(k)
<1>1. CASE told[k] \in {"silent", "firing", "held"}
  <2>1. IF told[k] = "silent" THEN told'[k] = "silent" ELSE told'[k] \in {"firing", "held"}
    BY <1>1, ToldNow, ToldNext
  <2>2. QED
    BY <1>1, <2>1 DEF Alerts!Step, Alerts!FromSilent, Alerts!FromFiring, Alerts!FromHeld
<1>2. CASE told[k] \in {"buffered", "summarised"}
  <2>1. told'[k] = IF Alerts!Flushed(k) THEN "summarised" ELSE told[k]
    BY <1>2, ToldNow, ToldNext
  <2>2. QED
    BY <1>2, <2>1 DEF Alerts!Step, Alerts!FromHidden
<1>3. QED
  BY <1>1, <1>2, ToldNow

(* The incident of the key begins, goes on or ends in public.              *)
LEMMA OpenedStep ==
  ASSUME NEW k \in Key, ~ Open(state[k]), state'[k].status = "active",
         \/ Alerts!Only("Create", k) /\ ~ state'[k].digested
         \/ Alerts!Only("Digest", k) /\ state'[k].digested /\ k \in digestBuf'
  PROVE  Alerts!Step(k)
BY ToldNow, ToldNext DEF Alerts!Step, Alerts!FromSilent, Open

LEMMA UpdatedStep ==
  ASSUME NEW k \in Key, Open(state[k]), state'[k].status = "active", ~ state'[k].digested,
         Alerts!Only("Update", k), state[k].digested \in BOOLEAN
  PROVE  Alerts!Step(k)
<1>1. told'[k] = "firing" /\ told[k] \in {"firing", "held", "buffered", "summarised"}
  BY ToldNow, ToldNext
<1>2. QED
  BY <1>1 DEF Alerts!Step, Alerts!FromHidden, Alerts!FromFiring, Alerts!FromHeld

LEMMA ClosedStep ==
  ASSUME NEW k \in Key, Open(state[k]), ~ Open(state'[k]),
         \/ ~ state[k].digested /\ Alerts!Only("Resolved", k)
         \/ state[k].digested /\ Alerts!Quiet(k)
  PROVE  Alerts!Step(k)
<1>1. told'[k] = "silent"
  BY ToldNext
<1>2. \/ told[k] \in {"firing", "held"} /\ Alerts!Only("Resolved", k)
      \/ told[k] \in {"buffered", "summarised"} /\ Alerts!Quiet(k)
  BY ToldNow
<1>3. QED
  BY <1>1, <1>2 DEF Alerts!Step, Alerts!FromHidden, Alerts!FromFiring, Alerts!FromHeld

(* The one way to go without a word.                                       *)
LEMMA LapsedStep ==
  ASSUME NEW k \in Key, state[k].status = "pending", state[k].digested \in BOOLEAN,
         ~ Open(state'[k]), Alerts!Quiet(k)
  PROVE  Alerts!Step(k)
<1>1. told'[k] = "silent" /\ told[k] \in {"held", "buffered", "summarised"}
  BY ToldNow, ToldNext DEF Open
<1>2. QED
  BY <1>1 DEF Alerts!Step, Alerts!FromHidden, Alerts!FromHeld

-----------------------------------------------------------------------------
(* The calls that resolve: a set K of open incidents leaves with a word,   *)
(* incidents on hold may lapse, and the others stay.                       *)

LEMMA ResolvingStep ==
  ASSUME TypeOK, OperatorUpToDate, NEW K \in SUBSET Key,
         \A j \in K : Open(state[j]) /\ ~ Open(state'[j]),
         \A j \in Key \ K :
            \/ /\ Open(state'[j]) <=> Open(state[j])
               /\ Open(state[j]) => state'[j].digested = state[j].digested
            \/ state[j].status = "pending" /\ ~ Open(state'[j]),
         sent' = ResolvedEdges(K), digestBuf' = digestBuf,
         NEW k \in Key
  PROVE  Alerts!Step(k)
<1>1. /\ k \in K /\ ~ state[k].digested => Alerts!Only("Resolved", k)
      /\ k \notin K \/ state[k].digested => Alerts!Quiet(k)
      /\ ~ Alerts!Flushed(k)
  <2>1. /\ \A a : Notify(a, k) \in sent' <=> a = "Resolved" /\ k \in K /\ ~ state[k].digested
        /\ \A n \in sent' : n.action = "Resolved"
    BY ResolvedSaid
  <2>2. k \in K /\ ~ state[k].digested => Alerts!Only("Resolved", k)
    BY <2>1 DEF Alerts!Only, Alerts!Says, Notify
  <2>3. (k \notin K \/ state[k].digested) => Alerts!Quiet(k)
    BY <2>1 DEF Alerts!Quiet, Alerts!Says, Notify
  <2>4. ~ Alerts!Flushed(k)
    BY <2>1 DEF Alerts!Flushed
  <2>5. QED
    BY <2>2, <2>3, <2>4
<1>2. state[k].digested \in BOOLEAN
  BY DEF TypeOK, Incident
<1>3. CASE k \in K
  BY <1>1, <1>2, <1>3, ClosedStep
<1>4. CASE k \notin K
  BY <1>1, <1>2, <1>4, QuietStep, LapsedStep
<1>5. QED
  BY <1>3, <1>4

LEMMA Settled ==
  ASSUME NEW inc \in Incident
  PROVE  /\ HoldDown = 0 => ~ Open(Settle(inc))
         /\ HoldDown # 0 => Open(Settle(inc)) /\ Settle(inc).digested = inc.digested
<1>1. HoldDown \in Nat
  BY Durations
<1>2. HoldDown = 0 => ~ Open(Settle(inc))
  BY SettleType DEF Open
<1>3. ASSUME HoldDown # 0
      PROVE  Open(Settle(inc)) /\ Settle(inc).digested = inc.digested
  <2>1. Settle(inc) = OnHold(inc)
    BY <1>1, <1>3 DEF Settle
  <2>2. OnHold(inc).digested = inc.digested
    BY DEF OnHold, Incident
  <2>3. QED
    BY <2>1, <2>2, SettleType DEF Open
<1>4. QED
  BY <1>2, <1>3

(* The reports of recovery settle the active incidents in hit: at once, or *)
(* they go on hold.                                                        *)
LEMMA SettlingStep ==
  ASSUME TypeOK, OperatorUpToDate, NEW hit \in SUBSET Key,
         \A j \in hit : /\ state[j].status = "active"
                        /\ \E inc \in Incident : /\ state'[j] = Settle(inc)
                                                /\ inc.digested = state[j].digested,
         \A j \in Key \ hit : /\ Open(state'[j]) <=> Open(state[j])
                              /\ state'[j].digested = state[j].digested,
         sent' = ResolvedEdges(IF HoldDown = 0 THEN hit ELSE {}), digestBuf' = digestBuf,
         NEW k \in Key
  PROVE  Alerts!Step(k)
<1> DEFINE K == IF HoldDown = 0 THEN hit ELSE {}
<1>1. /\ \A j \in K : Open(state[j]) /\ ~ Open(state'[j])
      /\ \A j \in Key \ K : /\ Open(state'[j]) <=> Open(state[j])
                            /\ state'[j].digested = state[j].digested
  <2>1. CASE HoldDown = 0
    BY <2>1, Settled DEF Open
  <2>2. CASE HoldDown # 0
    <3>1. \A j \in hit : /\ Open(state[j]) /\ Open(state'[j])
                         /\ state'[j].digested = state[j].digested
      BY <2>2, Settled DEF Open
    <3>2. QED
      BY <2>2, <3>1
  <2>3. QED
    BY <2>1, <2>2
<1>2. K \in SUBSET Key /\ sent' = ResolvedEdges(K)
  OBVIOUS
<1> HIDE DEF K
<1>3. QED
  BY <1>1, <1>2, ResolvingStep

LEMMA MarkResolvedAlerts ==
  ASSUME TypeOK, OperatorUpToDate, NEW j \in Key, MarkResolved(j), NEW k \in Key
  PROVE  Alerts!Step(k)
<1>1. /\ state \in [Key -> Incident] /\ state' = [state EXCEPT ![j] = Settle(@)]
      /\ state[j].status = "active" /\ digestBuf' = digestBuf
      /\ sent' = IF HoldDown = 0 THEN ResolvedEdges({j}) ELSE {}
  BY DEF MarkResolved, TypeOK, stormVars
<1>2. sent' = ResolvedEdges(IF HoldDown = 0 THEN {j} ELSE {})
  BY <1>1 DEF ResolvedEdges
<1>3. state'[j] = Settle(state[j]) /\ state[j] \in Incident
  BY <1>1
<1>4. \A i \in Key \ {j} : state'[i] = state[i]
  BY <1>1
<1>5. {j} \in SUBSET Key
  OBVIOUS
<1>6. QED
  BY <1>1, <1>2, <1>3, <1>4, <1>5, SettlingStep

LEMMA RemovePodAlerts ==
  ASSUME TypeOK, OperatorUpToDate, NEW ns \in Namespace, NEW p \in Pod,
         RemovePod(ns, p), NEW k \in Key
  PROVE  Alerts!Step(k)
<1> DEFINE hit     == {j \in Key : Identity[j].namespace = ns /\ p \in state[j].resources}
           emptied == {j \in hit : state[j].resources = {p} /\ state[j].status = "active"}
           w(j)    == [state[j] EXCEPT !.resources = @ \ {p}]
<1>1. /\ sent' = ResolvedEdges(IF HoldDown = 0 THEN emptied ELSE {}) /\ digestBuf' = digestBuf
      /\ state' = [j \in Key |->
            CASE j \in emptied -> Settle(w(j))
              [] j \in hit \ emptied -> w(j)
              [] OTHER -> state[j]]
  BY DEF RemovePod, stormVars
<1>2. \A j \in Key : /\ w(j) \in Incident /\ w(j).status = state[j].status
                     /\ w(j).digested = state[j].digested
  <2>1. \A j \in Key : state[j] \in Incident
    BY DEF TypeOK
  <2>2. ASSUME NEW inc \in Incident
        PROVE  LET v == [inc EXCEPT !.resources = @ \ {p}]
               IN  v \in Incident /\ v.status = inc.status /\ v.digested = inc.digested
    BY DEF Incident
  <2>3. QED
    BY <2>1, <2>2
<1>3. \A j \in emptied : j \in Key /\ state[j].status = "active"
  OBVIOUS
<1> HIDE DEF hit, emptied, w
<1>4. \A j \in emptied : \E inc \in Incident : /\ state'[j] = Settle(inc)
                                               /\ inc.digested = state[j].digested
  <2>1. \A j \in emptied : state'[j] = Settle(w(j))
    BY <1>1, <1>3
  <2>2. QED
    BY <1>2, <1>3, <2>1
<1>5. \A j \in Key \ emptied : /\ Open(state'[j]) <=> Open(state[j])
                               /\ state'[j].digested = state[j].digested
  <2>1. \A j \in Key \ emptied : state'[j] = w(j) \/ state'[j] = state[j]
    BY <1>1
  <2>2. QED
    BY <1>2, <2>1 DEF Open
<1>6. emptied \in SUBSET Key
  BY <1>3
<1>7. QED
  BY <1>1, <1>3, <1>4, <1>5, <1>6, SettlingStep

LEMMA ResolveByResourceAlerts ==
  ASSUME TypeOK, OperatorUpToDate, NEW r, NEW n, ResolveByResource(r, n), NEW k \in Key
  PROVE  Alerts!Step(k)
<1> DEFINE hit == {j \in Key : /\ Identity[j].resource = r
                               /\ Identity[j].name = n
                               /\ state[j].status = "active"}
<1>1. /\ sent' = ResolvedEdges(IF HoldDown = 0 THEN hit ELSE {}) /\ digestBuf' = digestBuf
      /\ state' = [j \in Key |-> IF j \in hit THEN Settle(state[j]) ELSE state[j]]
  BY DEF ResolveByResource, stormVars
<1>2. hit \in SUBSET Key /\ \A j \in hit : state[j].status = "active"
  OBVIOUS
<1> HIDE DEF hit
<1>3. \A j \in hit : state'[j] = Settle(state[j]) /\ state[j] \in Incident
  BY <1>1, <1>2 DEF TypeOK
<1>4. \A j \in Key \ hit : state'[j] = state[j]
  BY <1>1
<1>5. QED
  BY <1>1, <1>2, <1>3, <1>4, SettlingStep

LEMMA CleanupAlerts ==
  ASSUME TypeOK, OperatorUpToDate, cleanup, NEW k \in Key
  PROVE  Alerts!Step(k)
<1> DEFINE K == {j \in Expired : state[j].status = "active"}
<1>1. /\ sent' = ResolvedEdges(K) /\ digestBuf' = digestBuf
      /\ state' = [j \in Key |-> IF j \in Expired THEN NoIncident ELSE state[j]]
  BY DEF cleanup, stormVars
<1>2. K \in SUBSET Key /\ \A j \in K : j \in Expired /\ Open(state[j])
  BY DEF Expired, Open
<1>3. ~ Open(NoIncident)
  BY DEF Open, NoIncident
<1>4. \A j \in Expired : j \in Key /\ (state[j].status = "active" => j \in K)
  BY DEF Expired
<1> HIDE DEF K
<1>5. \A j \in K : ~ Open(state'[j])
  BY <1>1, <1>2, <1>3
<1>6. ASSUME NEW j \in Key \ K
      PROVE  \/ state'[j] = state[j]
             \/ ~ Open(state'[j]) /\ ~ Open(state[j])
             \/ state[j].status = "pending" /\ ~ Open(state'[j])
  <2>1. CASE j \in Expired
    BY <1>1, <1>3, <1>4, <2>1 DEF Open
  <2>2. CASE j \notin Expired
    BY <1>1, <2>2
  <2>3. QED
    BY <2>1, <2>2
<1>7. QED
  BY <1>1, <1>2, <1>5, <1>6, ResolvingStep

-----------------------------------------------------------------------------
(* The lifecycle ticker: matured holds, reminders and the digest.          *)

LEMMA LifecycleSaid ==
  ASSUME TypeOK, OperatorUpToDate, checkLifecycle, NEW k \in Key
  PROVE  /\ k \in Matured /\ ~ state[k].digested => Alerts!Only("Resolved", k)
         /\ k \in Matured /\ state[k].digested => Alerts!Quiet(k)
         /\ k \in DueAgain => Alerts!Only("Update", k)
         /\ k \notin Matured /\ k \notin DueAgain => Alerts!Quiet(k)
         /\ Alerts!Flushed(k) <=> FlushDue /\ k \in digestBuf
<1> DEFINE digest == [action |-> "DigestFlush", keys |-> digestBuf]
           ended == ResolvedEdges(Matured)
           due == {Notify("Update", j) : j \in DueAgain}
<1>1. sent' = ended \cup due \cup (IF FlushDue THEN {digest} ELSE {})
  BY DEF checkLifecycle
<1>2. /\ \A a : Notify(a, k) \in ended <=> a = "Resolved" /\ k \in Matured /\ ~ state[k].digested
      /\ \A n \in ended : n.action = "Resolved"
  BY ResolvedSaid DEF Matured, Open
<1>3. /\ \A a : Notify(a, k) \in due <=> a = "Update" /\ k \in DueAgain
      /\ \A n \in due : n.action = "Update"
  <2>1. ASSUME NEW a, Notify(a, k) \in due
        PROVE  a = "Update" /\ k \in DueAgain
    <3>1. PICK j \in DueAgain : Notify(a, k) = Notify("Update", j)
      BY <2>1
    <3>2. QED
      BY <3>1, NotifyOwn
  <2>2. k \in DueAgain => Notify("Update", k) \in due
    OBVIOUS
  <2>3. \A n \in due : n.action = "Update"
    BY NotifyOwn
  <2>4. QED
    BY <2>1, <2>2, <2>3
<1>4. digest.action = "DigestFlush" /\ digest.keys = digestBuf
  OBVIOUS
<1> HIDE DEF digest, ended, due
<1>5. ASSUME NEW a, a # "DigestFlush"
      PROVE  Notify(a, k) \in sent' <=> Notify(a, k) \in ended \/ Notify(a, k) \in due
  <2>1. Notify(a, k) # digest
    BY <1>4, <1>5, NotifyOwn
  <2>2. QED
    BY <1>1, <2>1
<1>6. Alerts!Flushed(k) <=> FlushDue /\ k \in digestBuf
  BY <1>1, <1>2, <1>3, <1>4 DEF Alerts!Flushed
<1>7. ~ (k \in Matured /\ k \in DueAgain)
  BY DEF Matured, DueAgain
<1>8. \A a : Alerts!Says(a, k) <=> Notify(a, k) \in sent'
  BY DEF Alerts!Says, Notify
<1>9. /\ Alerts!Says("Resolved", k) <=> k \in Matured /\ ~ state[k].digested
      /\ Alerts!Says("Update", k) <=> k \in DueAgain
      /\ ~ Alerts!Says("Create", k) /\ ~ Alerts!Says("Digest", k)
  <2>1. Alerts!Says("Resolved", k) <=> k \in Matured /\ ~ state[k].digested
    BY <1>2, <1>3, <1>5, <1>8
  <2>2. Alerts!Says("Update", k) <=> k \in DueAgain
    BY <1>2, <1>3, <1>5, <1>8
  <2>3. ~ Alerts!Says("Create", k) /\ ~ Alerts!Says("Digest", k)
    BY <1>2, <1>3, <1>5, <1>8
  <2>4. QED
    BY <2>1, <2>2, <2>3
<1>10. /\ Alerts!Quiet(k) <=> \A a \in {"Create", "Update", "Resolved", "Digest"} : ~ Alerts!Says(a, k)
       /\ \A b : Alerts!Only(b, k)
                  <=> /\ Alerts!Says(b, k)
                      /\ \A a \in {"Create", "Update", "Resolved", "Digest"} \ {b} : ~ Alerts!Says(a, k)
  BY DEF Alerts!Only, Alerts!Quiet
<1>11. QED
  BY <1>6, <1>7, <1>9, <1>10

LEMMA LifecycleAlerts ==
  ASSUME TypeOK, OperatorUpToDate, checkLifecycle, NEW k \in Key
  PROVE  Alerts!Step(k)
<1>1. state[k] \in Incident /\ state[k].digested \in BOOLEAN
  BY DEF TypeOK, Incident
<1>2. /\ digestBuf' = IF FlushDue THEN {} ELSE digestBuf
      /\ k \in Matured => state'[k] = Announced(Resolved(state[k]))
      /\ k \in DueAgain => state'[k] = [state[k] EXCEPT !.renotifyCount = @ + 1, !.sinceNotified = 0]
      /\ k \notin Matured /\ k \notin DueAgain => state'[k] = state[k]
  BY DEF checkLifecycle, Matured, DueAgain
<1>3. CASE k \in Matured
  <2>1. Open(state[k]) /\ ~ Open(state'[k])
    BY <1>1, <1>2, <1>3, SettleType, AnnouncedType DEF Matured, Open
  <2>2. QED
    BY <1>1, <1>3, <2>1, LifecycleSaid, ClosedStep
<1>4. CASE k \in DueAgain
  <2>1. state[k].status = "active" /\ ~ state[k].digested
    BY <1>4 DEF DueAgain
  <2>2. state'[k].status = "active" /\ ~ state'[k].digested
    BY <1>1, <1>2, <1>4, <2>1 DEF Incident
  <2>3. Open(state[k])
    BY <2>1 DEF Open
  <2>4. QED
    BY <1>1, <1>4, <2>1, <2>2, <2>3, LifecycleSaid, UpdatedStep
<1>5. CASE k \notin Matured /\ k \notin DueAgain
  BY <1>2, <1>5, LifecycleSaid, QuietStep
<1>6. QED
  BY <1>3, <1>4, <1>5

-----------------------------------------------------------------------------
(* Process: one failure event.                                             *)

LEMMA SilentStep ==
  ASSUME NEW k \in Key, sent' = {}, digestBuf' = digestBuf,
         Open(state'[k]) <=> Open(state[k]), state'[k].digested = state[k].digested
  PROVE  Alerts!Step(k)
BY NothingSaid, QuietStep

(* The keys an event is not about.                                         *)
LEMMA OtherKeyStep ==
  ASSUME NEW k \in Key, NEW e \in Event, k # e.key,
         NEW a \in {"Create", "Update", "Resolved", "Digest"},
         sent' = {} \/ sent' = {Notify(a, e.key)},
         state'[k] = state[k], k \in digestBuf' <=> k \in digestBuf
  PROVE  Alerts!Step(k)
BY NothingSaid, OtherSaid, QuietStep

LEMMA FirstEdge ==
  ASSUME NEW e \in Event
  PROVE  /\ edgeAction(newIncident(e)) = "Create"
         /\ Announced(newIncident(e)).digested = FALSE
         /\ Announced(newIncident(e)).status = "active"
<1> DEFINE inc == newIncident(e)
<1>1. inc \in Incident /\ inc.status = "active"
  BY NewIncidentType
<1>2. inc.digested = FALSE /\ inc.notifiedSig = NoSig
  BY DEF newIncident, Enrich, NoIncident
<1>3. Announced(inc).status = "active"
  BY <1>1, AnnouncedType
<1> HIDE DEF inc
<1>4. notifSig(inc).phase = "firing" /\ NoSig.phase = "none"
  BY <1>1 DEF notifSig, NoSig
<1>5. edgeAction(inc) = "Create"
  BY <1>1, <1>2, <1>4 DEF edgeAction
<1>6. Announced(inc).digested = FALSE
  BY <1>1, <1>2, <1>4 DEF Announced, Incident
<1>7. QED
  BY <1>3, <1>5, <1>6 DEF inc

LEMMA PagedAlerts ==
  ASSUME TypeOK, NEW e \in Event, ~ Open(state[e.key]), AdmitAndTell(e, newIncident(e)),
         digestBuf' = digestBuf, NEW k \in Key
  PROVE  Alerts!Step(k)
<1>1. /\ sent' = {Notify("Create", e.key)}
      /\ state' = [state EXCEPT ![e.key] = Announced(newIncident(e))]
      /\ state \in [Key -> Incident] /\ e.key \in Key
  BY FirstEdge, EventType DEF AdmitAndTell, Admit, EdgeOf, TypeOK
<1>2. CASE k = e.key
  <2>1. state'[k] = Announced(newIncident(e))
    BY <1>1, <1>2
  <2>2. Alerts!Only("Create", k)
    BY <1>1, <1>2, OneSaid
  <2>3. QED
    BY <1>2, <2>1, <2>2, FirstEdge, OpenedStep
<1>3. CASE k # e.key
  <2>1. state'[k] = state[k]
    BY <1>1, <1>3
  <2>2. QED
    BY <1>1, <1>3, <2>1, OtherKeyStep
<1>4. QED
  BY <1>2, <1>3

(* Also for an incident on hold, which this revokes.                       *)
LEMMA RepeatAlerts ==
  ASSUME TypeOK, OperatorUpToDate, NEW e \in Event, NEW sev \in Severity,
         Open(state[e.key]), digestBuf' = digestBuf,
         AdmitAndTell(e, Enrich(Touched(state[e.key], e), sev)), NEW k \in Key
  PROVE  Alerts!Step(k)
<1> DEFINE old == state[e.key]
           inc == Enrich(Touched(old, e), sev)
<1>1. old \in Incident /\ e.key \in Key /\ state \in [Key -> Incident]
  BY EventType DEF TypeOK
<1>2. inc \in Incident /\ inc.status = "active"
  BY ProcessedActive
<1>3. inc.digested = old.digested /\ inc.notifiedSig = old.notifiedSig
  BY <1>1 DEF Touched, Enrich, Incident
<1>4. /\ state' = [state EXCEPT ![e.key] = Announced(inc)]
      /\ sent' = EdgeOf(e.key, inc) /\ digestBuf' = digestBuf
  BY DEF AdmitAndTell, Admit
<1>5. old.notifiedSig = notifSig(old) /\ notifSig(old).phase = "firing" /\ NoSig.phase = "none"
  BY <1>1 DEF OperatorUpToDate, Exists, Open, notifSig, NoSig
<1> HIDE DEF inc
<1>6. CASE notifSig(inc) = inc.notifiedSig
  <2>1. edgeAction(inc) = "Skip" /\ Announced(inc) = inc
    BY <1>2, <1>6 DEF edgeAction, Announced
  <2>2. sent' = {}
    BY <1>4, <2>1 DEF EdgeOf
  <2>3. state' = [state EXCEPT ![e.key] = inc]
    BY <1>4, <2>1
  <2>4. state'[k] = IF k = e.key THEN inc ELSE state[k]
    BY <1>1, <2>3
  <2>5. (Open(state'[k]) <=> Open(state[k])) /\ state'[k].digested = state[k].digested
    BY <1>2, <1>3, <2>4 DEF Open
  <2>6. QED
    BY <1>4, <2>2, <2>5, SilentStep
<1>7. CASE notifSig(inc) # inc.notifiedSig
  <2>1. edgeAction(inc) = "Update"
    BY <1>2, <1>3, <1>5, <1>7 DEF edgeAction
  <2>2. sent' = {Notify("Update", e.key)}
    BY <1>4, <2>1 DEF EdgeOf
  <2>3. Announced(inc).digested = FALSE
    BY <1>2, <1>7 DEF Announced, Incident
  <2>4. CASE k = e.key
    <3>1. state'[k] = Announced(inc)
      BY <1>1, <1>4, <2>4
    <3>2. Alerts!Only("Update", k)
      BY <2>2, <2>4, OneSaid
    <3>3. Open(state[k]) /\ state[k].digested \in BOOLEAN
      BY <1>1, <2>4 DEF Incident
    <3>4. state'[k].status = "active"
      BY <1>2, <3>1, AnnouncedType
    <3>5. QED
      BY <2>3, <3>1, <3>2, <3>3, <3>4, UpdatedStep
  <2>5. CASE k # e.key
    <3>1. state'[k] = state[k]
      BY <1>1, <1>4, <2>5
    <3>2. QED
      BY <1>4, <2>2, <2>5, <3>1, OtherKeyStep
  <2>6. QED
    BY <2>4, <2>5
<1>8. QED
  BY <1>6, <1>7

LEMMA DigestedAlerts ==
  ASSUME TypeOK, NEW e \in Event, ProcessDigested(e), NEW k \in Key
  PROVE  Alerts!Step(k)
<1> DEFINE inc == newIncident(e)
           dig == [inc EXCEPT !.digested = TRUE, !.notifiedSig = notifSig(inc)]
<1>1. dig.status = "active" /\ dig.digested = TRUE
  BY ProcessedActive DEF Incident
<1>2. /\ ~ Open(state[e.key]) /\ e.key \in Key /\ state \in [Key -> Incident]
      /\ sent' = {Notify("Digest", e.key)} /\ digestBuf' = digestBuf \cup {e.key}
      /\ state' = [state EXCEPT ![e.key] = dig]
  BY EventType DEF ProcessDigested, Admit, Exists, Open, TypeOK
<1> HIDE DEF dig
<1>3. CASE k = e.key
  <2>1. state'[k] = dig
    BY <1>2, <1>3
  <2>2. Alerts!Only("Digest", k)
    BY <1>2, <1>3, OneSaid
  <2>3. QED
    BY <1>1, <1>2, <1>3, <2>1, <2>2, OpenedStep
<1>4. CASE k # e.key
  <2>1. state'[k] = state[k] /\ (k \in digestBuf' <=> k \in digestBuf)
    BY <1>2, <1>4
  <2>2. QED
    BY <1>2, <1>4, <2>1, OtherKeyStep
<1>5. QED
  BY <1>3, <1>4

LEMMA ProcessAlerts ==
  ASSUME TypeOK, OperatorUpToDate, NEW e \in Event, Process(e), NEW k \in Key
  PROVE  Alerts!Step(k)
<1>1. CASE ProcessBaselined(e)
  BY <1>1, SilentStep DEF ProcessBaselined, stormVars
<1>2. CASE ProcessInhibited(e)
  <2>1. sent' = {} /\ digestBuf' = digestBuf
    BY <1>2 DEF ProcessInhibited, stormVars
  <2>2. ASSUME NEW n \in Key, state' = [state EXCEPT ![n].suppressedPods = TRUE]
        PROVE  state'[k].status = state[k].status /\ state'[k].digested = state[k].digested
    <3>1. state[n] \in Incident /\ state \in [Key -> Incident]
      BY DEF TypeOK
    <3>2. state'[n] = [state[n] EXCEPT !.suppressedPods = TRUE]
      BY <2>2, <3>1
    <3>3. state'[n].status = state[n].status /\ state'[n].digested = state[n].digested
      BY <3>1, <3>2 DEF Incident
    <3>4. k # n => state'[k] = state[k]
      BY <2>2, <3>1
    <3>5. QED
      BY <3>3, <3>4
  <2>3. state'[k].status = state[k].status /\ state'[k].digested = state[k].digested
    BY <1>2, <2>2 DEF ProcessInhibited
  <2>4. QED
    BY <2>1, <2>3, SilentStep DEF Open
<1>3. CASE ProcessRecreate(e)
  BY <1>3, PagedAlerts DEF ProcessRecreate, Open, stormVars
<1>4. CASE ProcessRevive(e)
  BY <1>4, ProcessedActive, RepeatAlerts DEF ProcessRevive, Open, stormVars
<1>5. CASE ProcessRepeat(e)
  BY <1>5, ProcessedActive, RepeatAlerts DEF ProcessRepeat, Open, stormVars
<1>6. CASE ProcessNew(e)
  BY <1>6, PagedAlerts DEF ProcessNew, Exists, Open
<1>7. CASE ProcessDigested(e)
  BY <1>7, DigestedAlerts
<1>8. QED
  BY <1>1, <1>2, <1>3, <1>4, <1>5, <1>6, <1>7 DEF Process

-----------------------------------------------------------------------------
LEMMA TickAlerts ==
  ASSUME TypeOK, Tick, NEW k \in Key
  PROVE  Alerts!Step(k)
<1>1. state'[k] = Aged(state[k]) /\ state[k] \in Incident
  BY DEF Tick, TypeOK
<1>2. state'[k].status = state[k].status /\ state'[k].digested = state[k].digested
  BY <1>1 DEF Aged, Incident
<1>3. QED
  BY <1>2, SilentStep DEF Tick, Open

LEMMA NextAlerts ==
  ASSUME TypeOK, OperatorUpToDate, Next, NEW k \in Key
  PROVE  Alerts!Step(k)
<1>1. CASE \E e \in Event : Process(e)
  BY <1>1, ProcessAlerts
<1>2. CASE \/ \E base \in LiveBaseline : SetSeen(base)
           \/ \E ns \in Namespace, p \in Pod : ClearSeenForPod(ns, p)
           \/ \E j \in Conditions : MarkResolvedIdle(j)
  BY <1>2, SilentStep DEF SetSeen, ClearSeenForPod, MarkResolvedIdle, stormVars
<1>3. CASE \E j \in Conditions : MarkResolved(j)
  BY <1>3, MarkResolvedAlerts DEF Conditions
<1>4. CASE \E ns \in Namespace, p \in Pod : RemovePod(ns, p)
  BY <1>4, RemovePodAlerts
<1>5. CASE \E j \in Monitored : ResolveByResource(Identity[j].resource, Identity[j].name)
  BY <1>5, ResolveByResourceAlerts
<1>6. CASE cleanup \/ checkLifecycle \/ Tick
  BY <1>6, CleanupAlerts, LifecycleAlerts, TickAlerts
<1>7. QED
  BY <1>1, <1>2, <1>3, <1>4, <1>5, <1>6 DEF Next, Call

LEMMA EngineStepAlerts ==
  ASSUME TypeOK, TypeOK', OperatorUpToDate, [Next]_vars
  PROVE  [Alerts!Next]_<<told, sent>>
<1>1. CASE UNCHANGED vars
  BY <1>1 DEF vars, stormVars, told
<1>2. CASE Next
  <2>1. sent' \subseteq Alerts!Notification
    BY DEF TypeOK, Notification, Action, Alerts!Notification, Alerts!Action
  <2>2. QED
    BY <1>2, <2>1, NextAlerts DEF Alerts!Next
<1>3. QED
  BY <1>1, <1>2

(***************************************************************************)
(* Every behaviour of the engine is, key by key, a story the operator can  *)
(* follow: whatever the storm detector, the digest, the hold-down, the     *)
(* reminders, the escalation, the inhibition and the clean-up do to it,    *)
(* nothing is resolved that was not told, and nothing told ends without a  *)
(* word unless it was on hold, reported well and not failing since.        *)
(***************************************************************************)
THEOREM Refinement == Spec => ImplementsAlertStream
<1>1. Init => Alerts!Init
  <2>1. ~ Open(NoIncident)
    BY DEF Open, NoIncident
  <2>2. Init => told = [k \in Key |-> "silent"]
    BY <2>1 DEF Init, told
  <2>3. QED
    BY <2>2 DEF Init, Alerts!Init
<1>2. TypeOK /\ TypeOK' /\ OperatorUpToDate /\ [Next]_vars
        => [Alerts!Next]_<<told, sent>>
  BY EngineStepAlerts
<1>3. QED
  BY <1>1, <1>2, TypeCorrect, ToldTheTruth, PTL
  DEF Spec, ImplementsAlertStream, Alerts!Spec

-----------------------------------------------------------------------------
(* The pager.                                                              *)

(* Without storms every notification is one of these about one key.        *)
PlainAction == {"Create", "Update", "Resolved"}

LEMMA EdgePlain ==
  ASSUME NEW k \in Key, NEW inc, NEW n \in EdgeOf(k, inc)
  PROVE  \E a \in PlainAction : n = Notify(a, k)
<1>1. edgeAction(inc) # "Skip" /\ n = Notify(edgeAction(inc), k)
  BY DEF EdgeOf
<1>2. edgeAction(inc) \in PlainAction
  BY <1>1 DEF edgeAction, PlainAction
<1>3. QED
  BY <1>1, <1>2

LEMMA NothingDigested ==
  ASSUME ~ StormEnabled, TypeOK, Next, NEW n \in sent'
  PROVE  \E a \in PlainAction, k \in Key : n = Notify(a, k)
<1> DEFINE Plain(m) == \E a \in PlainAction, k \in Key : m = Notify(a, k)
<1>1. ASSUME NEW K \in SUBSET Key, NEW m \in ResolvedEdges(K)
      PROVE  Plain(m)
  BY <1>1, EdgePlain DEF ResolvedEdges
<1>2. CASE sent' = {}
  BY <1>2
<1>3. ASSUME NEW e \in Event, Process(e)
      PROVE  Plain(n)
  <2>1. e.key \in Key
    BY EventType
  <2>2. ASSUME NEW inc, sent' = EdgeOf(e.key, inc)
        PROVE  Plain(n)
    BY <2>1, <2>2, EdgePlain
  <2>3. ~ ProcessDigested(e)
    BY DEF ProcessDigested, Storming
  <2>4. QED
    BY <1>2, <1>3, <2>2, <2>3
    DEF Process, ProcessBaselined, ProcessInhibited, ProcessRecreate, ProcessRevive,
        ProcessRepeat, ProcessNew, AdmitAndTell
<1>4. ASSUME NEW j \in Key, MarkResolved(j)
      PROVE  Plain(n)
  BY <1>1, <1>4 DEF MarkResolved
<1>5. ASSUME NEW ns \in Namespace, NEW p \in Pod, RemovePod(ns, p)
      PROVE  Plain(n)
  BY <1>1, <1>5 DEF RemovePod
<1>6. ASSUME NEW r, NEW name, ResolveByResource(r, name)
      PROVE  Plain(n)
  BY <1>1, <1>6 DEF ResolveByResource
<1>7. CASE cleanup
  BY <1>1, <1>7 DEF cleanup, Expired
<1>8. CASE checkLifecycle
  <2>1. ~ FlushDue
    BY DEF FlushDue
  <2>2. Matured \in SUBSET Key /\ DueAgain \in SUBSET Key
    BY DEF Matured, DueAgain
  <2>3. n \in ResolvedEdges(Matured) \/ \E k \in DueAgain : n = Notify("Update", k)
    BY <1>8, <2>1 DEF checkLifecycle
  <2>4. QED
    BY <1>1, <2>2, <2>3 DEF PlainAction
<1>9. QED
  BY <1>2, <1>3, <1>4, <1>5, <1>6, <1>7, <1>8
  DEF Next, Call, SetSeen, MarkResolvedIdle, ClearSeenForPod, Tick, Conditions, Monitored

(* What a pager of alerts is sent of each key.                             *)
LEMMA SentToPager ==
  ASSUME NEW k \in Key, \A n \in sent' : \E a \in PlainAction, j \in Key : n = Notify(a, j)
  PROVE  /\ k \in Sends("trigger") <=> Alerts!Says("Create", k) \/ Alerts!Says("Update", k)
         /\ k \in Sends("resolve") <=> Alerts!Says("Resolved", k)
         /\ ~ Alerts!Says("Digest", k)
         /\ Sends("trigger") \subseteq Key
<1>1. ASSUME NEW a, Alerts!Says(a, k) PROVE a \in PlainAction /\ Notify(a, k) \in sent'
  <2>1. Notify(a, k) \in sent'
    BY <1>1 DEF Alerts!Says, Notify
  <2>2. QED
    BY <2>1, NotifyOwn
<1>2. ASSUME NEW a \in PlainAction, NEW j \in Key
      PROVE  /\ DedupKey(Notify(a, j)) = {j}
             /\ EventAction(Notify(a, j).action) = IF a = "Resolved" THEN "resolve" ELSE "trigger"
  BY NotifyOwn DEF DedupKey, EventAction, PlainAction
<1>3. ASSUME NEW what, NEW j, j \in Sends(what)
      PROVE  /\ j \in Key
             /\ \E a \in PlainAction : /\ Notify(a, j) \in sent'
                                       /\ what = IF a = "Resolved" THEN "resolve" ELSE "trigger"
  <2>1. PICK n \in sent' : EventAction(n.action) = what /\ j \in DedupKey(n)
    BY <1>3 DEF Sends
  <2>2. PICK a \in PlainAction, i \in Key : n = Notify(a, i)
    OBVIOUS
  <2>3. i = j
    BY <1>2, <2>1, <2>2
  <2>4. QED
    BY <1>2, <2>1, <2>2, <2>3
<1>4. ASSUME NEW a \in PlainAction, Notify(a, k) \in sent'
      PROVE  k \in Sends(IF a = "Resolved" THEN "resolve" ELSE "trigger")
  BY <1>2, <1>4 DEF Sends
<1>5. \A a : Notify(a, k) \in sent' <=> Alerts!Says(a, k)
  BY DEF Alerts!Says, Notify
<1>6. k \in Sends("trigger") => Alerts!Says("Create", k) \/ Alerts!Says("Update", k)
  <2> HAVE k \in Sends("trigger")
  <2>1. PICK a \in PlainAction : /\ Notify(a, k) \in sent'
                                 /\ "trigger" = IF a = "Resolved" THEN "resolve" ELSE "trigger"
    BY <1>3
  <2>2. a # "Resolved"
    BY <2>1
  <2>3. QED
    BY <1>5, <2>1, <2>2 DEF PlainAction
<1>7. Alerts!Says("Create", k) \/ Alerts!Says("Update", k) => k \in Sends("trigger")
  <2>1. "Create" \in PlainAction /\ "Update" \in PlainAction
    BY DEF PlainAction
  <2>2. QED
    BY <1>4, <1>5, <2>1
<1>8. k \in Sends("resolve") => Alerts!Says("Resolved", k)
  <2> HAVE k \in Sends("resolve")
  <2>1. PICK a \in PlainAction : /\ Notify(a, k) \in sent'
                                 /\ "resolve" = IF a = "Resolved" THEN "resolve" ELSE "trigger"
    BY <1>3
  <2>2. a = "Resolved"
    BY <2>1
  <2>3. QED
    BY <1>5, <2>1, <2>2
<1>9. Alerts!Says("Resolved", k) => k \in Sends("resolve")
  <2>1. "Resolved" \in PlainAction
    BY DEF PlainAction
  <2>2. QED
    BY <1>4, <1>5, <2>1
<1>10. ~ Alerts!Says("Digest", k)
  BY <1>1 DEF PlainAction
<1>11. QED
  BY <1>3, <1>6, <1>7, <1>8, <1>9, <1>10

(* Without storms and hold-down a key is either silent or firing.          *)
SilentOrFiring == \A k \in Key : told[k] \in {"silent", "firing"}

LEMMA ToldIsOpen ==
  ASSUME SilentOrFiring, NEW k \in Key
  PROVE  Open(state[k]) <=> told[k] = "firing"
BY ToldNow DEF SilentOrFiring, told

LEMMA PagerStep ==
  ASSUME ~ StormEnabled, HoldDown = 0, TypeOK, OperatorUpToDate, HoldIsQuiet',
         SilentOrFiring, PagerExact, PagerNext
  PROVE  SilentOrFiring' /\ PagerExact'
<1>1. Next /\ SendEvent
  BY DEF PagerNext
<1>2. \A n \in sent' : \E a \in PlainAction, k \in Key : n = Notify(a, k)
  BY <1>1, NothingDigested
<1>3. ASSUME NEW k \in Key
      PROVE  /\ told'[k] \in {"silent", "firing"}
             /\ Open(state'[k]) <=> told'[k] = "firing"
             /\ k \in pager' <=> told'[k] = "firing"
  <2>1. Alerts!Step(k) /\ told[k] \in {"silent", "firing"} /\ ~ Alerts!Says("Digest", k)
    BY <1>1, <1>2, NextAlerts, SentToPager DEF SilentOrFiring
  <2>2. k \in pager <=> told[k] = "firing"
    BY ToldIsOpen DEF PagerExact
  <2>3. k \in pager' <=> (k \in pager \/ k \in Sends("trigger")) /\ k \notin Sends("resolve")
    BY <1>1 DEF SendEvent
  <2>4. state'[k].status # "pending"
    BY DEF HoldIsQuiet
  <2>5. told'[k] # "held"
    BY <2>4 DEF told
  <2>6. /\ Open(state'[k]) => told'[k] # "silent"
        /\ ~ Open(state'[k]) => told'[k] = "silent"
    BY DEF told
  <2>7. CASE told[k] = "silent"
    <3>1. \/ Alerts!Only("Create", k) /\ told'[k] = "firing"
          \/ Alerts!Quiet(k) /\ told'[k] = "silent"
      BY <2>1, <2>7 DEF Alerts!Step, Alerts!FromSilent, Alerts!Only
    <3>2. QED
      BY <1>2, <2>2, <2>3, <2>6, <2>7, <3>1, SentToPager DEF Alerts!Only, Alerts!Quiet
  <2>8. CASE told[k] = "firing"
    <3>1. \/ Alerts!Only("Update", k) /\ told'[k] = "firing"
          \/ Alerts!Only("Resolved", k) /\ told'[k] = "silent"
          \/ Alerts!Quiet(k) /\ told'[k] = "firing"
      BY <2>1, <2>5, <2>8 DEF Alerts!Step, Alerts!FromFiring
    <3>2. QED
      BY <1>2, <2>2, <2>3, <2>6, <2>8, <3>1, SentToPager DEF Alerts!Only, Alerts!Quiet
  <2>9. QED
    BY <2>1, <2>7, <2>8
<1>4. pager' \subseteq Key
  <2>1. Sends("trigger") \subseteq Key
    BY <1>2, <1>3, SentToPager DEF Sends
  <2>2. QED
    BY <1>1, <2>1 DEF SendEvent, PagerExact
<1>5. SilentOrFiring'
  BY <1>3 DEF SilentOrFiring
<1>6. PagerExact'
  BY <1>3, <1>4 DEF PagerExact
<1>7. QED
  BY <1>5, <1>6

(***************************************************************************)
(* Without storms and hold-down, for any cluster and any events: the       *)
(* alerts open at a paging service are exactly the open incidents.         *)
(***************************************************************************)
THEOREM PagerAlwaysExact ==
  ASSUME ~ StormEnabled, HoldDown = 0
  PROVE  PagerSpec => []PagerExact
<1>1. PagerSpec => Spec
  <2>1. PagerInit => Init
    BY DEF PagerInit
  <2>2. [PagerNext]_pagerVars => [Next]_vars
    BY DEF PagerNext, pagerVars
  <2>3. QED
    BY <2>1, <2>2, PTL DEF PagerSpec, Spec
<1>2. PagerInit => SilentOrFiring /\ PagerExact
  <2>1. ~ Open(NoIncident)
    BY DEF Open, NoIncident
  <2>2. QED
    BY <2>1 DEF PagerInit, Init, SilentOrFiring, told, PagerExact
<1>3. /\ TypeOK /\ OperatorUpToDate /\ HoldIsQuiet'
      /\ SilentOrFiring /\ PagerExact /\ [PagerNext]_pagerVars
      => SilentOrFiring' /\ PagerExact'
  <2> SUFFICES ASSUME TypeOK, OperatorUpToDate, HoldIsQuiet', SilentOrFiring, PagerExact,
                      [PagerNext]_pagerVars
               PROVE  SilentOrFiring' /\ PagerExact'
    OBVIOUS
  <2>1. CASE PagerNext
    BY <2>1, PagerStep
  <2>2. CASE UNCHANGED pagerVars
    BY <2>2 DEF pagerVars, vars, SilentOrFiring, told, PagerExact
  <2>3. QED
    BY <2>1, <2>2
<1>4. QED
  BY <1>1, <1>2, <1>3, TypeCorrect, ToldTheTruth, HoldQuiet, PTL DEF PagerSpec
-----------------------------------------------------------------------------
(***************************************************************************)
(* How many pages a storm lets through.  Every page about a new key is one *)
(* of the creates the detector still counts, and the last of them was let  *)
(* through because those creates, itself included, were too few.           *)
(***************************************************************************)

Young == {c \in recentCreates : c.age < StormWindow}

HistoryInv ==
  /\ IsFiniteSet(recentCreates)
  /\ paged \subseteq Young
  /\ Cardinality(paged) < StormThreshold

(* Only ProcessNew pages about a key that was not in the table.            *)
LEMMA PagedByNew ==
  ASSUME TypeOK, Call, NEW k \in Key, Told("Create", k), ~ Exists(k)
  PROVE  \E e \in Event : e.key = k /\ ProcessNew(e)
  <1>1. PICK e \in Event : Process(e) /\ e.key = k
    BY VisibleByEvent DEF Next
  <1>2. sent' # {} /\ Notify("Create", k) \in sent'
    BY DEF Told
  <1>3. Notify("Create", k) # Notify("Digest", k)
    BY NotifyOwn
  <1>4. state[e.key].status = "absent"
    BY <1>1 DEF Exists
  <1>5. ~ (ProcessBaselined(e) \/ ProcessInhibited(e))
    BY <1>2 DEF ProcessBaselined, ProcessInhibited
  <1>6. ~ (ProcessRecreate(e) \/ ProcessRevive(e) \/ ProcessRepeat(e))
    BY <1>4 DEF ProcessRecreate, ProcessRevive, ProcessRepeat
  <1>7. ~ ProcessDigested(e)
    BY <1>1, <1>2, <1>3 DEF ProcessDigested
  <1>8. QED
    BY <1>1, <1>5, <1>6, <1>7 DEF Process

(* What a call makes of the creates the detector remembers.                *)
LEMMA CreatesAfterCall ==
  ASSUME Call
  PROVE  recentCreates' = recentCreates \/ \E e \in Event : recentCreates' = Recent(e)
  BY DEF Call, Process, ProcessBaselined, ProcessInhibited, ProcessRecreate, ProcessRevive,
     ProcessRepeat, ProcessNew, ProcessDigested, SetSeen, MarkResolved, MarkResolvedIdle,
     RemovePod, ClearSeenForPod, ResolveByResource, cleanup, checkLifecycle, stormVars

LEMMA RecentFinite ==
  ASSUME IsFiniteSet(recentCreates), NEW e \in Event
  PROVE  /\ IsFiniteSet(Recent(e)) /\ Cardinality(Recent(e)) \in Nat
         /\ Young \subseteq Recent(e)
         /\ [key |-> e.key, age |-> 0] \in Recent(e)
         /\ \A c \in Recent(e) : c.age < StormWindow
  <1> DEFINE x == [key |-> e.key, age |-> 0]
  <1>1. IsFiniteSet(recentCreates \cup {x})
    BY FS_AddElement
  <1>2. Recent(e) \in SUBSET (recentCreates \cup {x})
    BY DEF Recent
  <1>3. IsFiniteSet(Recent(e)) /\ Cardinality(Recent(e)) \in Nat
    BY <1>1, <1>2, FS_Subset, FS_CardinalityType
  <1>4. x.age < StormWindow
    BY ConfigAssumption
  <1>5. QED
    BY <1>3, <1>4 DEF Young, Recent

LEMMA CallHistory ==
  ASSUME TypeOK, StormEnabled, HistoryInv, Call, Paging
  PROVE  HistoryInv'
  <1>0. StormThreshold \in Nat /\ IsFiniteSet(recentCreates) /\ paged \subseteq Young
    BY ConfigAssumption DEF HistoryInv
  <1>1. CASE NewPages = {}
    <2>1. paged' = paged
      BY <1>1 DEF Paging
    <2>2. IsFiniteSet(recentCreates') /\ paged \subseteq Young'
      <3>1. CASE recentCreates' = recentCreates
        BY <1>0, <3>1 DEF Young
      <3>2. ASSUME NEW e \in Event, recentCreates' = Recent(e)
            PROVE  IsFiniteSet(recentCreates') /\ paged \subseteq Young'
        BY <1>0, <3>2, RecentFinite DEF Young
      <3>3. QED
        BY <3>1, <3>2, CreatesAfterCall
    <2>3. QED
      BY <2>1, <2>2 DEF HistoryInv
  <1>2. CASE NewPages # {}
    <2>1. PICK k \in Key : Told("Create", k) /\ ~ Exists(k)
      BY <1>2 DEF NewPages
    <2>2. PICK e \in Event : e.key = k /\ ProcessNew(e)
      BY <2>1, PagedByNew
    <2>3. recentCreates' = Recent(e) /\ ~ Storming(e)
      BY <2>2 DEF ProcessNew
    <2>4. NewPages \subseteq {[key |-> e.key, age |-> 0]}
      <3>1. ASSUME NEW j \in Key, Told("Create", j)
            PROVE  j = e.key
        BY <2>2, <3>1, EdgeIsOwn DEF ProcessNew, AdmitAndTell, Told
      <3>2. QED
        BY <3>1 DEF NewPages
    <2>5. paged' \in SUBSET Recent(e)
      BY <1>0, <2>4, RecentFinite DEF Paging
    <2>6. Cardinality(Recent(e)) < StormThreshold /\ Cardinality(Recent(e)) \in Nat
      <3>1. Cardinality(Recent(e)) \in Nat
        BY <1>0, RecentFinite
      <3>2. ~ (Cardinality(Recent(e)) >= StormThreshold)
        BY <2>3, Zenon DEF Storming
      <3> DEFINE n == Cardinality(Recent(e))
      <3> HIDE DEF n
      <3>3. n \in Nat /\ ~ (n >= StormThreshold) => n < StormThreshold
        BY <1>0
      <3>4. QED
        BY <3>1, <3>2, <3>3 DEF n
    <2>7. Cardinality(paged') < StormThreshold
      <3>1. PICK P : P = paged'
        OBVIOUS
      <3>2. Cardinality(P) <= Cardinality(Recent(e)) /\ Cardinality(P) \in Nat
        BY <1>0, <2>5, <3>1, RecentFinite, FS_Subset, FS_CardinalityType
      <3>3. QED
        BY <1>0, <2>6, <3>1, <3>2
    <2>8. IsFiniteSet(recentCreates') /\ paged' \subseteq Young'
      BY <1>0, <2>3, <2>5, RecentFinite DEF Young
    <2>9. QED
      BY <2>7, <2>8 DEF HistoryInv
  <1>3. QED
    BY <1>1, <1>2

(* A set of records grows by no element when each is changed.              *)
LEMMA ImageFinite ==
  ASSUME NEW S, IsFiniteSet(S), NEW f, DOMAIN f = S, f = [x \in S |-> f[x]]
  PROVE  /\ IsFiniteSet({f[x] : x \in S})
         /\ Cardinality({f[x] : x \in S}) <= Cardinality(S)
  <1> DEFINE T == {f[x] : x \in S}
  <1>1. f \in [S -> T]
    OBVIOUS
  <1>2. f \in Surjection(S, T)
    BY <1>1 DEF Surjection
  <1> HIDE DEF T
  <1>3. IsFiniteSet(T) /\ Cardinality(T) <= Cardinality(S)
    BY <1>2, FS_Surjection
  <1>4. QED
    BY <1>3 DEF T

LEMMA TickHistory ==
  ASSUME TypeOK, HistoryInv, Tick, Aging
  PROVE  HistoryInv'
  <1>0. /\ StormThreshold \in Nat /\ StormWindow \in Nat
        /\ IsFiniteSet(recentCreates) /\ paged \subseteq Young
        /\ recentCreates \subseteq [key : Key, age : 0 .. StormWindow]
    BY ConfigAssumption DEF HistoryInv, TypeOK
  <1>1. IsFiniteSet(recentCreates')
    <2> DEFINE f == [c \in recentCreates |-> [c EXCEPT !.age = Older(@, StormWindow)]]
    <2>1. recentCreates' = {f[c] : c \in recentCreates}
      BY DEF Tick
    <2>2. DOMAIN f = recentCreates /\ f = [c \in recentCreates |-> f[c]]
      OBVIOUS
    <2> HIDE DEF f
    <2>3. QED
      BY <1>0, <2>1, <2>2, ImageFinite
  <1>2. Cardinality(paged') < StormThreshold
    <2> DEFINE D == {d \in paged : d.age + 1 < StormWindow}
               f == [c \in D |-> [c EXCEPT !.age = @ + 1]]
    <2>1. PICK P : P = paged'
      OBVIOUS
    <2>2. P = {f[c] : c \in D}
      BY <2>1 DEF Aging, StillRemembered
    <2>3. DOMAIN f = D /\ f = [c \in D |-> f[c]]
      OBVIOUS
    <2>4. D \in SUBSET paged /\ paged \in SUBSET recentCreates
      BY <1>0 DEF Young
    <2> HIDE DEF f, D
    <2>5. IsFiniteSet(paged)
      BY <1>0, <2>4, FS_Subset
    <2>6. IsFiniteSet(D) /\ Cardinality(D) <= Cardinality(paged)
      BY <2>4, <2>5, FS_Subset
    <2>7. IsFiniteSet(P) /\ Cardinality(P) <= Cardinality(D)
      BY <2>2, <2>3, <2>6, ImageFinite
    <2>8. Cardinality(P) \in Nat /\ Cardinality(D) \in Nat /\ Cardinality(paged) \in Nat
      BY <2>5, <2>6, <2>7, FS_CardinalityType
    <2>9. Cardinality(P) < StormThreshold
      BY <1>0, <2>6, <2>7, <2>8 DEF HistoryInv
    <2>10. QED
      BY <2>1, <2>9
  <1>3. paged' \subseteq Young'
    <2>1. ASSUME NEW c \in paged, c.age + 1 < StormWindow
          PROVE  /\ [c EXCEPT !.age = @ + 1] \in recentCreates'
                 /\ [c EXCEPT !.age = @ + 1].age < StormWindow
      <3>1. c \in recentCreates /\ c \in [key : Key, age : 0 .. StormWindow]
        BY <1>0 DEF Young
      <3>2. Older(c.age, StormWindow) = c.age + 1
        BY <1>0, <2>1, <3>1 DEF Older
      <3>3. [c EXCEPT !.age = Older(@, StormWindow)] \in recentCreates'
        BY <3>1 DEF Tick
      <3>4. [c EXCEPT !.age = Older(@, StormWindow)] = [c EXCEPT !.age = @ + 1]
        BY <3>2
      <3>5. [c EXCEPT !.age = @ + 1].age = c.age + 1
        BY <3>1
      <3>6. QED
        BY <2>1, <3>3, <3>4, <3>5
    <2>2. QED
      BY <2>1 DEF Aging, StillRemembered, Young
  <1>4. QED
    BY <1>1, <1>2, <1>3 DEF HistoryInv

LEMMA InitHistory == HInit => HistoryInv
  <1>1. StormThreshold \in Nat \ {0}
    BY ConfigAssumption
  <1>2. SUFFICES ASSUME HInit PROVE HistoryInv
    OBVIOUS
  <1>3. recentCreates = {} /\ paged = {}
    BY <1>2 DEF HInit, Init
  <1>4. IsFiniteSet({}) /\ Cardinality({}) = 0
    BY FS_EmptySet
  <1>5. Cardinality(paged) < StormThreshold
    BY <1>1, <1>3, <1>4
  <1>6. QED
    BY <1>3, <1>4, <1>5 DEF HistoryInv

(***************************************************************************)
(* With storm detection on, fewer than storm.threshold incidents of new    *)
(* keys are paged one by one in any storm.windowMinutes, for any threshold,*)
(* any window and any number of keys failing together.                     *)
(***************************************************************************)
THEOREM NewPagesAlwaysBounded ==
  ASSUME StormEnabled
  PROVE  HSpec => []NewPagesBounded
  <1>1. HSpec => Spec
    <2>1. HInit => Init
      BY DEF HInit
    <2>2. [HNext]_hvars => [Next]_vars
      BY DEF HNext, hvars, Next
    <2>3. QED
      BY <2>1, <2>2, PTL DEF HSpec, Spec
  <1>2. TypeOK /\ HistoryInv /\ [HNext]_hvars => HistoryInv'
    <2> SUFFICES ASSUME TypeOK, HistoryInv, [HNext]_hvars
                 PROVE  HistoryInv'
      OBVIOUS
    <2>1. CASE UNCHANGED hvars
      BY <2>1 DEF hvars, vars, HistoryInv, Young
    <2>2. QED
      BY <2>1, CallHistory, TickHistory DEF HNext
  <1>3. HistoryInv => NewPagesBounded
    BY DEF HistoryInv, NewPagesBounded
  <1>4. QED
    BY <1>1, <1>2, <1>3, InitHistory, TypeCorrect, PTL DEF HSpec
=============================================================================
