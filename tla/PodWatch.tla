------------------------------ MODULE PodWatch ------------------------------
(***************************************************************************)
(* From the status of a pod to the incidents it takes part in              *)
(* (internal/handler/process_pod.go, execute_*_filters.go, the filters of  *)
(* internal/filter, and the pod half of controller.buildSeenSet).          *)
(*                                                                         *)
(* The scheduler and the kubelet move pods; a worker syncs one pod at a    *)
(* time and reads its status once (the workqueue that decides when is      *)
(* Controller's).  kwatch may restart at any moment: the engine's memory   *)
(* is lost and the baseline is seeded again.                               *)
(*                                                                         *)
(* The engine is reduced to which pod takes part in which incident, to the *)
(* last state it remembers of each pod, and to its baseline, whose entries *)
(* do not expire here; Engine has its clocks.  A pod leaves an incident    *)
(* when it is removed, an incident ends with its last pod or when it was   *)
(* not heard of for Window, and there is no hold-down.  What a container   *)
(* terminates with is one value for its reason, message and exit code.     *)
(***************************************************************************)
EXTENDS Integers, Sequences, FiniteSets, Functions

CONSTANTS
  Pod,
  Workload,
  Deployments,                   \* the workloads that are found through a ReplicaSet
  Specs,                         \* what pods are made of: an owner, a policy, containers,
                                 \* what each of these may fail for, when it starts, and
                                 \* what may befall the pod from outside (a bound)
  Failures,                      \* reasons a container may terminate with
  Stops,                         \* those that stand for an Error with exit code 143
  Waits,                         \* reasons a container may fail to start with
  IgnoreDisruptionTerminations,
  InhibitNodeSuppressesPods,
  ContainerNames,                \* suppression: containers ignored by name
  LogPatterns,                   \* suppression: containers whose logs match a pattern
  ForbiddenReasons,
  ContainerRestartThreshold,     \* 0: off
  defaultCrashLoopHighFreqThreshold,
  maxBaseline,                   \* entries the baseline has room for
  MaxRestarts                    \* bound: restarts of a container

NoOwner == ""   \* of a pod made by hand
Container == UNION {Range(x.containers) : x \in Specs}

\* What kwatch and the kubelet call what is no failure of its own.
SpecialReasons == {"", "ContainerCreating", "Completed", "CrashLoopBackOff",
                   "CrashLoopHighFrequency", "HighRestartCount", "PodPending", "Unschedulable"}

ASSUME PodWatchAssumption ==
  /\ NoOwner \notin Workload /\ Deployments \subseteq Workload
  /\ \A x \in Specs : /\ x.owner \in Workload \cup {NoOwner}
                      /\ x.restartPolicy \in {"Always", "Never"}
                      /\ x.containers \in Seq(Container)
                      /\ Container \subseteq DOMAIN x.fates
                      /\ Container \X (0 .. MaxRestarts) \subseteq DOMAIN x.second
                      /\ x.mishaps \subseteq {"node", "target", "evicted", "deleted"}
  /\ Stops \subseteq Failures /\ (Stops # {} => "Error" \in Failures \ Stops)
  /\ (Failures \cup Waits) \cap SpecialReasons = {}
  /\ {"ErrImagePull", "ImagePullBackOff"} \cap Failures = {}
  /\ "ErrImagePull" \in Waits => "ImagePullBackOff" \in Waits
  /\ IgnoreDisruptionTerminations \in BOOLEAN /\ InhibitNodeSuppressesPods \in BOOLEAN
  /\ ContainerRestartThreshold \in Nat
  /\ defaultCrashLoopHighFreqThreshold \in Nat
  /\ maxBaseline \in Nat \ {0} /\ MaxRestarts \in Nat

(***************************************************************************)
(* Definitions named Bug... are mistakes this code could have made, each   *)
(* next to the definition it would replace.  Nothing uses them: they show  *)
(* that the properties below can fail.                                     *)
(***************************************************************************)

VARIABLES
  spec,       \* pod -> its owner, its restart policy and its containers
  stage,      \* pod -> how far it got: its conditions tell "absent" to "kubelet"
  container,  \* pod -> container -> its status, once the kubelet reports it
  overdue,    \* the pods older than pendingPodMonitor.threshold
  leaving,    \* pod -> "target" of a disruption, "evicted", "deleted" (a timestamp), or "stays"
  troubled,   \* the pods whose node, once they have one, has an open incident
  resolvable, \* the workloads whose ReplicaSets the lister has
  open,       \* the engine: which pod takes part in which incident
  last,       \* lastContainerIndex: pod -> the last state it told of, or Nothing
  seen,       \* the baseline: pairs of an incident's key and a pod
  lapsed,     \* history: what left open or seen with an incident, and is not open again
  synced,     \* history: the pods synced since they last changed, not inhibited then
  recovered,  \* history: the pods synced while they ran, or removed, since the start
  broken      \* history: the pods that broke before the start, unchanged since, and all
              \* of whose entries of the baseline are there

cluster == <<spec, stage, container, overdue, leaving, troubled, resolvable>>
engine  == <<open, last, seen, lapsed>>
vars    == <<spec, stage, container, overdue, leaving, troubled, resolvable, open, last, seen,
             lapsed, synced, recovered, broken>>

-----------------------------------------------------------------------------
\* Statuses.

Nothing   == [reason |-> "", n |-> 0]   \* no state, no termination
Creating  == [is |-> "waiting", reason |-> "ContainerCreating", restarts |-> 0, last |-> Nothing]
Zero      == <<>>                        \* time.Time{}
Started(c, n) == <<c, n>>                \* when the n-th instance of c started

\* Times are known to the second: two instances may have started at the same one.
SameTime(p, s, t) ==
  IF s = Zero \/ t = Zero THEN s = t ELSE spec[p].second[s] = spec[p].second[t]

Status(p) == IF stage[p] = "kubelet" THEN spec[p].containers ELSE <<>>
IsIn(p, what) == \E c \in Range(Status(p)) : container[p][c].is = what

\* The kubelet's getPhase, and Failed when it evicts the pod.
Phase(p) ==
  LET fresh == \E c \in Range(Status(p)) :
                 container[p][c].is = "waiting" /\ container[p][c].last = Nothing
  IN CASE leaving[p] = "evicted" -> "Failed"
       [] leaving[p] # "evicted" /\ (stage[p] # "kubelet" \/ fresh) -> "Pending"
       [] leaving[p] # "evicted" /\ ~ fresh /\ stage[p] = "kubelet"
            /\ (IsIn(p, "running") \/ IsIn(p, "waiting") \/ spec[p].restartPolicy = "Always") ->
            "Running"
       [] OTHER ->
            IF \A c \in Range(Status(p)) : container[p][c].reason = "Completed"
            THEN "Succeeded" ELSE "Failed"

Present(p) == stage[p] # "absent"
Ready(p) == /\ stage[p] = "kubelet" /\ leaving[p] # "evicted"
            /\ \A c \in Range(Status(p)) : container[p][c].is = "running"

-----------------------------------------------------------------------------
\* Keys and owners.

BugnormalizeReason(r) == r   \* the two reasons of a failed pull are kept apart

normalizeReason(r) == IF r = "ErrImagePull" THEN "ImagePullBackOff" ELSE r

\* The reason without the message and the exit code
ReasonOf(r) == IF r \in Stops THEN "Error" ELSE r

\* The reason in an incident's key
KeyReason(r) == normalizeReason(ReasonOf(r))

IncidentKey(owner, reason, restarts) ==
  <<owner, IF reason = "CrashLoopBackOff" /\ restarts > defaultCrashLoopHighFreqThreshold
           THEN "CrashLoopHighFrequency" ELSE KeyReason(reason)>>

\* PodOwnersFilter: a pod without an owner, or whose owner the lister has not, has none.
Owner(p) == IF spec[p].owner \in resolvable THEN spec[p].owner ELSE NoOwner

\* A pod without an owner stands for itself; NoOwner: unresolved.
ResolveOwnerName(p) == IF spec[p].owner = NoOwner THEN p ELSE Owner(p)

-----------------------------------------------------------------------------
\* What a sync finds.  e: the part of the engine one sync changes for pod p.

isBaselined(key, p) == <<key, p>> \in seen

\* The pod's node has an open incident.
Inhibited(p) ==
  InhibitNodeSuppressesPods /\ stage[p] \in {"bound", "kubelet"} /\ p \in troubled

\* signalEvent and Engine.Process
signalEvent(e, p, owner, reason, state) ==
  LET key == IncidentKey(owner, reason, state.restarts) IN
    IF isBaselined(key, p) \/ Inhibited(p) THEN e
    ELSE [open |-> e.open \cup {<<key, p>>}, last |-> state]

\* the filter is left out of the chains
BugDisruptionFilter(p) == FALSE

\* DisruptionFilter: the pod has a DeletionTimestamp, a condition that says it is the
\* target of a disruption, or was evicted.
DisruptionFilter(p) ==
  /\ IgnoreDisruptionTerminations
  /\ leaving[p] \in {"deleted", "target"} \/ (Phase(p) = "Failed" /\ leaving[p] = "evicted")

PodReason(p) == IF stage[p] = "refused" THEN "Unschedulable" ELSE ""

\* PodStatusFilter skips the pod
PodStatusFilter(p, e) ==
  \/ Phase(p) = "Succeeded"
  \/ stage[p] = "new"
  \/ PodReason(p) # "" /\ PodReason(p) \in ForbiddenReasons
  \/ stage[p] \in {"refused", "bound"} /\ e.last # Nothing

\* PendingPodFilter raises an issue of its own
PendingPodFilter(p, e) ==
  /\ Phase(p) = "Pending" /\ p \in overdue
  /\ e.last # Nothing => e.last.reason # PodReason(p)

executePodFilters(p, e) ==
  IF DisruptionFilter(p) \/ PodStatusFilter(p, e)
     \/ ~ (stage[p] = "refused" \/ PendingPodFilter(p, e))
  THEN e
  ELSE LET reason == IF PodReason(p) = "" THEN "PodPending" ELSE PodReason(p) IN
         signalEvent(e, p, Owner(p), reason, [reason |-> reason, on |-> Zero, restarts |-> 0])

\* ContainerRestartsFilter
HasRestarts(s, e) == e.last # Nothing /\ s.restarts > e.last.restarts

\* every waiting container is taken for one that is being created
BugContainerStateFilter(s, e) == s.is = "waiting" \/ (s.is = "running" /\ ~ HasRestarts(s, e))

\* ContainerStateFilter skips the container
ContainerStateFilter(s, e) ==
  \/ s.is = "running" /\ ~ HasRestarts(s, e)
  \/ s.is = "waiting" /\ s.reason = "ContainerCreating"
  \/ s.is = "terminated" /\ s.reason \in Stops \cup {"Completed"} /\ ~ HasRestarts(s, e)

\* The reason and the time ContainerReasonsFilter settles on
Failure(c, s, e) ==
  IF (s.reason = "CrashLoopBackOff" \/ HasRestarts(s, e)) /\ s.last # Nothing
  THEN [reason |-> s.last.reason, on |-> Started(c, s.last.n)]
  ELSE [reason |-> s.reason,
        on |-> IF s.is = "terminated" THEN Started(c, s.restarts) ELSE Zero]

\* one alert per pod
BugToldBefore(p, failure, e) == e.last # Nothing

\* The same failure, by its time or by its content, as the last one told of the pod
ToldBefore(p, failure, e) ==
  e.last # Nothing /\ (SameTime(p, e.last.on, failure.on) \/ e.last.reason = failure.reason)

\* Some detector skips the container
Skipped(p, c, s, e, failure) ==
  \/ DisruptionFilter(p)
  \/ c \in ContainerNames
  \/ ContainerStateFilter(s, e)
  \/ ReasonOf(failure.reason) \in ForbiddenReasons
  \/ ToldBefore(p, failure, e)

\* ContainerLogsFilter drops the failure
ContainerLogsFilter(c, s) ==
  c \in LogPatterns /\ ~ (s.restarts = 0 /\ s.is = "waiting")

emitHighRestartAlert(p, s, e) ==
  IF ResolveOwnerName(p) = NoOwner THEN e
  ELSE signalEvent(e, p, ResolveOwnerName(p), "HighRestartCount",
                   [reason |-> s.last.reason, on |-> Zero, restarts |-> s.restarts])

\* One turn of the loop, with what the engine knows by then.
executeContainerFilters(p, c, e) ==
  LET s == container[p][c]
      failure == Failure(c, s, e)
  IN IF Skipped(p, c, s, e, failure)
     THEN IF ContainerRestartThreshold > 0 /\ s.restarts >= ContainerRestartThreshold
          THEN emitHighRestartAlert(p, s, e) ELSE e
     ELSE IF ContainerLogsFilter(c, s) THEN e
     ELSE signalEvent(e, p, Owner(p), failure.reason,
                      [reason |-> failure.reason, on |-> failure.on, restarts |-> s.restarts])

executeContainersFilters(p, e0) ==
  LET after[i \in 0 .. Len(Status(p))] ==
        IF i = 0 THEN e0 ELSE executeContainerFilters(p, Status(p)[i], after[i - 1])
  IN after[Len(Status(p))]

\* a running pod is not taken for healthy
BugisPodHealthy(p) == Phase(p) = "Succeeded"

isPodHealthy(p) ==
  /\ Phase(p) \in {"Running", "Succeeded"}
  /\ \A c \in Range(Status(p)) :
       LET s == container[p][c] IN
         \/ s.is = "running"
         \/ s.is = "waiting" /\ s.reason = "ContainerCreating"
         \/ s.is = "terminated" /\ s.reason = "Completed"

Without(pairs, p) == {x \in pairs : x[2] # p}
Under(pairs, keys) == {x \in pairs : x[1] \in keys}

-----------------------------------------------------------------------------
\* The baseline kwatch starts with.

\* The failures buildSeenSet takes from a pod's containers
SeededReasons(p) ==
  {<<container[p][c].reason, container[p][c].restarts>> :
     c \in {d \in Range(Status(p)) :
              container[p][d].reason \notin {"", "ContainerCreating", "Completed"}}}

SeededKeys(p) ==
  IF Phase(p) \in {"Running", "Succeeded"} \/ ResolveOwnerName(p) = NoOwner THEN {}
  ELSE IF SeededReasons(p) # {}
  THEN {IncidentKey(ResolveOwnerName(p), r[1], r[2]) : r \in SeededReasons(p)}
  ELSE IF stage[p] = "refused" THEN {IncidentKey(ResolveOwnerName(p), "Unschedulable", 0)}
  ELSE {}

\* All that is found
Found == UNION {SeededKeys(p) \X {p} : p \in {q \in Pod : Present(q)}}

\* The pods are listed in any order, and what does not fit is left out.
buildSeenSet ==
  {s \in SUBSET Found : IF Cardinality(Found) > maxBaseline
                        THEN Cardinality(s) = maxBaseline ELSE s = Found}

-----------------------------------------------------------------------------
NoStatus == [c \in Container |-> Creating]

Init ==
  /\ spec \in [Pod -> Specs]
  /\ stage = [p \in Pod |-> "absent"]
  /\ container = [p \in Pod |-> NoStatus]
  /\ overdue = {} /\ leaving = [p \in Pod |-> "stays"] /\ troubled = {}
  /\ resolvable = Workload
  /\ open = {} /\ seen = {} /\ lapsed = {}
  /\ last = [p \in Pod |-> Nothing]
  /\ synced = Pod /\ recovered = {} /\ broken = {}

\* A change of p that a worker has not looked at
Changed(p) ==
  /\ synced' = synced \ {p}
  /\ broken' = broken \ {p}
  /\ UNCHANGED <<engine, recovered>>

Move(p, from, to) ==
  /\ stage[p] \in from
  /\ stage' = [stage EXCEPT ![p] = to]
  /\ Changed(p)

\* A name comes back when the worker has seen its last pod go, as names of a ReplicaSet's
\* or a job's pods do not come back at all.
StatusKept == UNCHANGED <<spec, container, overdue, leaving, troubled, resolvable>>

CreatePod(p) == p \in synced /\ Move(p, {"absent"}, "new") /\ StatusKept
Refuse(p)    == Move(p, {"new"}, "refused") /\ StatusKept
Schedule(p)  == Move(p, {"new", "refused"}, "bound") /\ StatusKept
Report(p)    == leaving[p] # "evicted" /\ Move(p, {"bound"}, "kubelet") /\ StatusKept

DeletePod(p) ==
  /\ Move(p, {"new", "refused", "bound", "kubelet"}, "absent")
  /\ container' = [container EXCEPT ![p] = NoStatus]
  /\ overdue' = overdue \ {p} /\ leaving' = [leaving EXCEPT ![p] = "stays"]
  /\ troubled' = troubled \ {p}
  /\ UNCHANGED <<spec, resolvable>>

\* p gets older than the threshold
Linger(p) ==
  /\ Present(p) /\ Phase(p) = "Pending" /\ p \notin overdue
  /\ overdue' = overdue \cup {p}
  /\ Changed(p)
  /\ UNCHANGED <<spec, stage, container, leaving, troubled, resolvable>>

\* A drain, a preemption, a scale-down, a delete: p is marked as the target of a
\* disruption, gets its DeletionTimestamp, or is evicted by its kubelet.
Disrupt(p, how) ==
  /\ Present(p) /\ how \in spec[p].mishaps /\ leaving[p] \in {"stays", "target"} \ {how}
  /\ how = "evicted" => stage[p] \in {"bound", "kubelet"} /\ Phase(p) \in {"Pending", "Running"}
  /\ leaving' = [leaving EXCEPT ![p] = how]
  /\ Changed(p)
  /\ UNCHANGED <<spec, stage, container, overdue, troubled, resolvable>>

\* An incident of p's node opens, or ends
NodeIncident(p) ==
  /\ InhibitNodeSuppressesPods /\ "node" \in spec[p].mishaps
  /\ stage[p] \in {"bound", "kubelet"}
  /\ troubled' = IF p \in troubled THEN troubled \ {p} ELSE troubled \cup {p}
  /\ UNCHANGED <<spec, stage, container, overdue, leaving, resolvable, engine,
                 synced, recovered, broken>>

Set(p, c, s) ==
  /\ container' = [container EXCEPT ![p][c] = s]
  /\ synced' = synced \ {p}
  /\ UNCHANGED <<spec, stage, overdue, leaving, troubled, resolvable, engine, recovered>>

Start(p, c) ==
  LET s == container[p][c]
      again == s.last # Nothing \/ s.is = "terminated" IN
    /\ s.is # "running"
    /\ again => spec[p].restartPolicy = "Always" /\ s.restarts < MaxRestarts
    /\ Set(p, c, [is |-> "running", reason |-> "",
                  restarts |-> s.restarts + (IF again THEN 1 ELSE 0),
                  last |-> IF s.is = "terminated" THEN [reason |-> s.reason, n |-> s.restarts]
                           ELSE s.last])
    /\ broken' = broken \ {p}

\* The kubelet goes back and forth between the two reasons of a failed pull.
FailToStart(p, c, r) ==
  LET s == container[p][c] IN
    /\ s.is = "waiting" /\ s.last = Nothing /\ r \in spec[p].fates[c] \ {s.reason}
    /\ Set(p, c, [s EXCEPT !.reason = r])
    /\ broken' = IF {r, s.reason} = {"ErrImagePull", "ImagePullBackOff"}
                 THEN broken ELSE broken \ {p}

Terminate(p, c, r) ==
  LET s == container[p][c] IN
    /\ s.is = "running" /\ r \in spec[p].fates[c]
    /\ Set(p, c, [s EXCEPT !.is = "terminated", !.reason = r])
    /\ broken' = broken \ {p}

BackOff(p, c) ==
  LET s == container[p][c] IN
    /\ s.is = "terminated" /\ spec[p].restartPolicy = "Always"
    /\ Set(p, c, [s EXCEPT !.is = "waiting", !.reason = "CrashLoopBackOff",
                           !.last = [reason |-> s.reason, n |-> s.restarts]])
    /\ broken' = broken \ {p}

\* A rollout is cleaned up: its ReplicaSet goes before its pods.
ReplicaSetGone(w) ==
  LET members == {p \in Pod : spec[p].owner = w} IN
    /\ w \in resolvable
    /\ resolvable' = resolvable \ {w}
    /\ synced' = synced \ members /\ broken' = broken \ members
    /\ UNCHANGED <<spec, stage, container, overdue, leaving, troubled, engine, recovered>>

\* An incident was not heard of for Window: it ends, and the baseline drops its key for
\* every pod.  What is remembered of its pods stays.
cleanup(key) ==
  /\ Under(open, {key}) # {}
  /\ open' = open \ Under(open, {key})
  /\ seen' = seen \ Under(seen, {key})
  /\ lapsed' = lapsed \cup Under(open \cup seen, {key})
  /\ broken' = broken \ {x[2] : x \in Under(seen, {key})}
  /\ UNCHANGED <<cluster, last, synced, recovered>>

\* The incidents that p alone takes part in end with it, in the same way.
RemovePod(p) ==
  LET keys == {x[1] : x \in open} \ {x[1] : x \in Without(open, p)} IN
    /\ open' = Without(open, p)
    /\ seen' = Without(seen \ Under(seen, keys), p)
    /\ lapsed' = Without(lapsed \cup Under(seen, keys), p)
    /\ broken' = broken \ {x[2] : x \in Under(seen, keys)}
    /\ last' = [last EXCEPT ![p] = Nothing]

ProcessPodObject(p) ==
  LET e == executeContainersFilters(p, executePodFilters(p, [open |-> open, last |-> last[p]])) IN
    /\ open' = e.open
    /\ last' = [last EXCEPT ![p] = e.last]
    /\ seen' = IF isPodHealthy(p) THEN Without(seen, p) ELSE seen
    /\ lapsed' = lapsed \ e.open
    /\ UNCHANGED broken

ProcessPod(p) ==
  /\ IF Present(p) THEN ProcessPodObject(p) ELSE RemovePod(p)
  /\ synced' = IF Inhibited(p) THEN synced ELSE synced \cup {p}
  /\ recovered' = IF Ready(p) \/ ~ Present(p) THEN recovered \cup {p} ELSE recovered
  /\ UNCHANGED cluster

Failed(p, c) == container[p][c].reason \in Failures \cup Waits \cup {"CrashLoopBackOff"}

\* p has something to tell an operator of
Failing(p) ==
  \/ stage[p] = "refused"
  \/ stage[p] \in {"bound", "kubelet"} /\ Phase(p) = "Pending" /\ p \in overdue
  \/ \E c \in Range(Status(p)) : Failed(p, c)

\* main loads the saved baseline and Run replaces it, unless it finds nothing broken.
\* An incident of a node is not known until the node's next event.
Restart ==
  /\ open' = {} /\ lapsed' = {}
  /\ last' = [p \in Pod |-> Nothing]
  /\ \E built \in buildSeenSet :
       /\ seen' = IF built = {} THEN seen ELSE built
       /\ broken' = {p \in Pod : Failing(p) /\ SeededKeys(p) \X {p} \subseteq built}
  /\ synced' = {} /\ recovered' = {}
  /\ troubled' = {}
  /\ UNCHANGED <<spec, stage, container, overdue, leaving, resolvable>>

\* The kubelet starts nothing in a pod that is being deleted or was evicted.
Kubelet(p) ==
  \/ Report(p)
  \/ \E c \in Range(Status(p)), r \in Failures \cup {"Completed"} : Terminate(p, c, r)
  \/ leaving[p] \in {"stays", "target"} /\ \E c \in Range(Status(p)) :
       \/ Start(p, c) \/ BackOff(p, c)
       \/ \E r \in Waits : FailToStart(p, c, r)

Next ==
  \/ \E p \in Pod :
       \/ CreatePod(p) \/ Refuse(p) \/ Schedule(p) \/ Linger(p) \/ DeletePod(p)
       \/ \E how \in {"target", "evicted", "deleted"} : Disrupt(p, how)
       \/ Kubelet(p) \/ NodeIncident(p)
       \/ ProcessPod(p)
  \/ \E key \in {x[1] : x \in open} : cleanup(key)
  \/ \E w \in Deployments : ReplicaSetGone(w)
  \/ Restart

Spec == Init /\ [][Next]_vars

-----------------------------------------------------------------------------
Reason == Failures \cup Waits \cup {"Completed", "CrashLoopBackOff", "CrashLoopHighFrequency",
                                     "HighRestartCount", "PodPending", "Unschedulable"}
Key == (Workload \cup Pod \cup {NoOwner}) \X Reason

Termination == [reason : Failures \cup {"Completed"}, n : 0..MaxRestarts] \cup {Nothing}

ContainerStatus ==
  [is : {"waiting", "running", "terminated"}, reason : Reason \cup {"", "ContainerCreating"},
   restarts : 0..MaxRestarts, last : Termination]

ContainerState ==
  [reason : Reason, restarts : 0..MaxRestarts, on : {Zero} \cup (Container \X (0..MaxRestarts))]

(* Every variable has its type. *)
TypeOK ==
  /\ spec \in [Pod -> Specs]
  /\ stage \in [Pod -> {"absent", "new", "refused", "bound", "kubelet"}]
  /\ container \in [Pod -> [Container -> ContainerStatus]]
  /\ overdue \subseteq Pod /\ troubled \subseteq Pod /\ resolvable \subseteq Workload
  /\ leaving \in [Pod -> {"stays", "target", "evicted", "deleted"}]
  /\ open \subseteq Key \X Pod /\ seen \subseteq Key \X Pod /\ lapsed \subseteq Key \X Pod
  /\ last \in [Pod -> {Nothing} \cup ContainerState]
  /\ synced \subseteq Pod /\ recovered \subseteq Pod /\ broken \subseteq Pod

\* p takes part in an incident for one of the reasons, or it was known and the incident ended.
Told(p, reasons) == \E x \in open \cup seen \cup lapsed : x[2] = p /\ x[1][2] \in reasons

\* p is on its way out, and the operator does not want to hear of it.
Leaving(p) == IgnoreDisruptionTerminations /\ leaving[p] # "stays"

\* No other instance of a container started in the second in which the n-th of c did.
Alone(p, c, n) ==
  \A i \in Container \X (0 .. MaxRestarts) : SameTime(p, i, Started(c, n)) => i = Started(c, n)

\* A crash loop that nothing tells the handlers to ignore
Crashing(p, c) ==
  LET s == container[p][c] IN
    /\ s.reason = "CrashLoopBackOff" /\ ~ Leaving(p)
    /\ c \notin ContainerNames \cup LogPatterns
    /\ ReasonOf(s.last.reason) \notin ForbiddenReasons
    /\ Alone(p, c, s.last.n)

(***************************************************************************)
(* A container in a crash loop that a worker has seen, while no incident   *)
(* of the node silenced the pod, is known under the reason it crashed for, *)
(* or as one that restarts too often, whatever the pod's other containers  *)
(* do and whatever was told of the pod before: ContainerReasonsFilter      *)
(* compares with one state per pod only.  It takes two containers that     *)
(* started in the same second for one, and does not keep an incident from  *)
(* ending after Window while the container crashes on.                     *)
(***************************************************************************)
CrashIsTold ==
  \A p \in synced : \A c \in Range(Status(p)) :
    Crashing(p, c) => Told(p, {ReasonOf(container[p][c].last.reason), "HighRestartCount"})

\* What a container's own detectors are to report: a failure, but for one that stopped when
\* it was asked to, unless the operator does not want to hear of it
Reported(p, c) ==
  LET s == container[p][c] IN
    /\ Failed(p, c) /\ ~ (s.is = "terminated" /\ s.reason \in Stops)
    /\ c \notin ContainerNames \cup LogPatterns
    /\ ReasonOf(Failure(c, s, [open |-> {}, last |-> Nothing]).reason) \notin ForbiddenReasons

\* A failure that nothing tells the handlers to ignore
Reportable(p) ==
  /\ ~ Leaving(p)
  /\ \/ stage[p] = "refused" /\ "Unschedulable" \notin ForbiddenReasons
     \/ stage[p] \in {"bound", "kubelet"} /\ Phase(p) = "Pending" /\ p \in overdue
     \/ \E c \in Range(Status(p)) : Reported(p, c)

(***************************************************************************)
(* A pod that cannot start, or one of whose containers has failed, is      *)
(* known once a worker has seen it, while no incident of the node silenced *)
(* it, if not under the reason of each container.  An exit code of 143 is  *)
(* no failure to ContainerStateFilter.                                     *)
(***************************************************************************)
FailureIsTold == \A p \in synced : Reportable(p) => Told(p, Reason)

\* What buildSeenSet can recognise: an owner the lister has, a failure that keeps the pod
\* out of the phases Running and Succeeded and is reported by its own reason, and no two
\* containers that restarted: told of the one, the handlers take the other for restarted.
Recognised(p) ==
  /\ spec[p].owner \in resolvable
  /\ Phase(p) \in {"Pending", "Failed"} /\ p \notin overdue
  /\ \A c \in Range(Status(p)) : container[p][c].reason # "CrashLoopBackOff"
  /\ \A c, d \in Range(Status(p)) :
       container[p][c].restarts > 0 /\ container[p][d].restarts > 0 => c = d

(***************************************************************************)
(* A pod that was broken before kwatch started and is unchanged since,     *)
(* other than its pull being tried again, is not told of again, unless for *)
(* its number of restarts, as long as the baseline had room for it and no  *)
(* incident ended that it shares a key with.  The seeding computes the key *)
(* the handlers will use before they do.                                   *)
(***************************************************************************)
StartupQuiet ==
  \A x \in open : (x[2] \in broken /\ Recognised(x[2])) => x[1][2] = "HighRestartCount"

(***************************************************************************)
(* What silences an issue at the start never silences a new one of a pod   *)
(* that has recovered since: once a worker has seen the pod run, or go, no *)
(* entry of the baseline is left for it.                                   *)
(***************************************************************************)
BaselineForgets == \A x \in seen : x[2] \notin recovered

(* Every variable has its type, and the baseline forgets what recovered.   *)
RecoveredIsNotBaselined == TypeOK /\ BaselineForgets

(***************************************************************************)
(* A pod on its way out opens no incident, whatever its containers die of, *)
(* but for the number of restarts, which emitHighRestartAlert reports of   *)
(* pods the detectors skip.                                                *)
(***************************************************************************)
DrainIsSilent ==
  [][\A x \in open' \ open :
       Leaving(x[2]) => x[1][2] = "HighRestartCount"]_vars

(***************************************************************************)
(* "Suppresses re-alerts for [already-broken workloads] across restarts"   *)
(* (README.release.md:130-131), said of pods that are not merely pending.  *)
(* It fails for a crash loop: its pod is in phase Running, which           *)
(* buildSeenSet skips.                                                     *)
(***************************************************************************)
RestartIsSilent == \A x \in open : x[2] \notin broken \ overdue
=============================================================================
