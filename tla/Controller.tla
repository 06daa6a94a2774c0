----------------------------- MODULE Controller -----------------------------
(***************************************************************************)
(* From the cluster to the engine for everything but pods                  *)
(* (internal/controller, internal/handler/process_*.go): informers fill    *)
(* caches and put the keys of what changed into workqueues, workers read   *)
(* the cache and tell the engine what they find.  Run seeds the engine's   *)
(* baseline with what is broken already and starts the workers afterwards. *)
(*                                                                         *)
(* A status is reduced to what is wrong with the object, named by the      *)
(* reasons the handlers report.  The engine is reduced to its open         *)
(* incidents and its baseline, without a hold-down: Engine has both.  How  *)
(* long ago an incident was seen is not kept: any open one may have gone   *)
(* unseen for the engine's Window, and its cleanup closes it then.  A      *)
(* lister over a cache knows no error but NotFound, so no key is retried.  *)
(* Several informers of one kind, one per namespace, differ from one in    *)
(* when they have listed only; here every object is listed on its own.     *)
(***************************************************************************)
EXTENDS Integers, FiniteSets

CONSTANTS
  Object,
  Kinds,       \* the kinds the objects may have: a set of functions
  Absent, NoWork, Never,
  Unavailable, \* pods a broken DaemonSet is short of
  Sustained,   \* sustainedMinutes of the DaemonSet and HPA monitors, in ticks
  rolloutGrace,
  Passable,    \* node conditions a node may not list, or the configuration suppress
  MaxBaseline, \* maxBaseline
  BaselineTTL,
  ResyncSeconds, \* 0: no resync
  MaxChanges   \* bound: changes of objects

Kind == {"node", "deployment", "daemonset", "job", "cronjob", "hpa"}

Reasons == [node       |-> {"NodeNotReady", "MemoryPressure"},
            deployment |-> {"ProgressDeadlineExceeded"},
            daemonset  |-> {"DaemonSetUnavailable"},
            job        |-> {"JobFailed", "JobSuspended"},
            cronjob    |-> {"CronJobSuspended", "CronJobNotScheduled"},
            hpa        |-> {"HPAScalingError", "HPAMaxedOut"}]
Reason == UNION {Reasons[k] : k \in Kind}

(* passed: the conditions of a node the handler passes over, for it does   *)
(* not list them, or they are wrong with a reason or a message to ignore.  *)
Status == [wrong : SUBSET Reason, settled : BOOLEAN, passed : SUBSET Passable]

ASSUME ControllerAssumption ==
  /\ IsFiniteSet(Object) /\ Kinds \subseteq [Object -> Kind]
  /\ Unavailable \in Nat \ {0}
  /\ Sustained \in Nat /\ rolloutGrace \in Nat
  /\ Passable \subseteq Reasons["node"]
  /\ MaxBaseline \in Nat \ {0} /\ BaselineTTL \in Nat \ {0}
  /\ ResyncSeconds \in Nat
  /\ MaxChanges \in Nat
  /\ Never \notin Nat /\ Absent \notin Status /\ NoWork \notin Status \cup {Absent}

(***************************************************************************)
(* Definitions named Bug... are mistakes this code could have made, each   *)
(* next to the definition it would replace.  Nothing uses them: they show  *)
(* that the properties below can fail.                                     *)
(***************************************************************************)

VARIABLES
  kind,        \* object -> its kind
  object,      \* object -> its status at the API server, or Absent
  cache,       \* object -> its status in the informer's cache, or Absent
  listed,      \* the objects whose informer has synced
  stage,       \* where Run is
  dirty,       \* the keys waiting in the workqueues
  work,        \* key -> what the worker that has it read from the cache
  first,       \* firstUnavailableDS and firstMaxedHPAs: how long ago, or Never
  open,        \* the engine's open incidents
  seen,        \* its baseline
  age,         \* ticks since the baseline was seeded, at most BaselineTTL
  changes,     \* number of changes of objects
  lapsed,      \* history: closed by the engine's cleanup since the handler last looked
  old          \* history: wrong since before the start, and not left out of the baseline

clusterVars  == <<kind, object, changes>>
informerVars == <<cache, listed>>
queueVars    == <<dirty, work>>
engineVars   == <<open, seen, lapsed>>
vars == <<clusterVars, informerVars, queueVars, engineVars, stage, first, age, old>>

(* Only a DaemonSet is rolled out under kwatch's eyes; a job is not        *)
(* suspended and failed at once.                                           *)
Statuses(k) ==
  {s \in [wrong : SUBSET Reasons[k], settled : BOOLEAN, passed : SUBSET Passable] :
     /\ k # "daemonset" => s.settled
     /\ k # "node" => s.passed = {}
     /\ k = "job" => Cardinality(s.wrong) <= 1}

(* Nobody asks whether longer ago than this.                               *)
Patience == IF rolloutGrace < Sustained THEN Sustained ELSE rolloutGrace

Issue == Object \X Reason

TypeOK ==
  /\ kind \in Kinds
  /\ object \in [Object -> Status \cup {Absent}] /\ cache \in [Object -> Status \cup {Absent}]
  /\ listed \subseteq Object
  /\ stage \in {"syncing", "serving", "stopped"}
  /\ dirty \subseteq Object
  /\ work \in [Object -> Status \cup {Absent, NoWork}]
  /\ first \in [Object -> 0 .. Patience \cup {Never}]
  /\ open \subseteq Issue /\ seen \subseteq Issue /\ lapsed \subseteq Issue
  /\ \A x \in open \cup seen : x[2] \in Reasons[kind[x[1]]]
  /\ Cardinality(seen) <= MaxBaseline
  /\ age \in 0 .. BaselineTTL /\ changes \in 0 .. MaxChanges
  /\ old \subseteq Issue

-----------------------------------------------------------------------------
(* What the handlers report.                                               *)

DetectDaemonSetIssue(s)  == s.wrong
DetectDeploymentIssue(s) == s.wrong
DetectJobIssue(s)        == s.wrong
DetectHPAIssues(s)       == s.wrong
NodeConditionReasons(s)  == s.wrong

(* A suspended CronJob is not expected to be scheduled.                    *)
DetectCronJobIssue(s) == IF "CronJobSuspended" \in s.wrong THEN {"CronJobSuspended"} ELSE s.wrong

Detect(k, s) ==
  IF s = Absent THEN {} ELSE
  CASE k = "node"       -> NodeConditionReasons(s)
    [] k = "deployment" -> DetectDeploymentIssue(s)
    [] k = "daemonset"  -> DetectDaemonSetIssue(s)
    [] k = "job"        -> DetectJobIssue(s)
    [] k = "cronjob"    -> DetectCronJobIssue(s)
    [] OTHER            -> DetectHPAIssues(s)

Reported(o, s) == {<<o, r>> : r \in Detect(kind[o], s)}

PassedOver(o, s) == IF s = Absent THEN {} ELSE {<<o, r>> : r \in s.passed}

Still(x) == x \in Reported(x[1], object'[x[1]])

-----------------------------------------------------------------------------
(* The cluster.                                                            *)

(* An object is created, changed or deleted.                               *)
Change(o) ==
  /\ changes < MaxChanges
  /\ changes' = changes + 1
  /\ \E s \in Statuses(kind[o]) \cup {Absent} :
       /\ s # object[o]
       /\ s # Absent /\ "CronJobNotScheduled" \in s.wrong =>
            object[o] # Absent /\ "CronJobNotScheduled" \in object[o].wrong
       /\ object' = [object EXCEPT ![o] = s]
  /\ old' = {x \in old : Still(x)}
  /\ UNCHANGED <<kind, informerVars, queueVars, engineVars, stage, first, age>>

(* NextFireAfter and the grace have passed.  No object changes, so nobody  *)
(* is told.                                                                *)
Overdue(o) ==
  LET late(s) == [s EXCEPT !.wrong = @ \cup {"CronJobNotScheduled"}]
  IN  /\ kind[o] = "cronjob"
      /\ object[o] # Absent /\ "CronJobNotScheduled" \notin object[o].wrong
      /\ object' = [object EXCEPT ![o] = late(@)]
      /\ cache' = IF cache[o] = object[o] THEN [cache EXCEPT ![o] = late(@)] ELSE cache
      /\ UNCHANGED <<kind, changes, listed, queueVars, engineVars, stage, first, age, old>>

Tick ==
  /\ stage # "syncing"
  /\ age' = IF age < BaselineTTL THEN age + 1 ELSE age
  /\ first' = [o \in Object |-> IF first[o] # Never /\ first[o] < Patience THEN first[o] + 1 ELSE first[o]]
  /\ UNCHANGED <<clusterVars, informerVars, queueVars, engineVars, stage, old>>

-----------------------------------------------------------------------------
(* Informers and workqueues.  A workqueue has a key at most once, and      *)
(* keeps it back while a worker has it; after ShutDown it takes no more.   *)

BugAdd(o) ==                  \* a key somebody works on is not put in again
  dirty' = IF stage = "stopped" \/ work[o] # NoWork THEN dirty ELSE dirty \cup {o}

Add(o) == dirty' = IF stage = "stopped" THEN dirty ELSE dirty \cup {o}

(* The first List of the informer that watches o.                          *)
List(o) ==
  /\ o \notin listed
  /\ listed' = listed \cup {o}
  /\ cache' = [cache EXCEPT ![o] = object[o]]
  /\ IF object[o] # Absent THEN Add(o) ELSE UNCHANGED dirty
  /\ UNCHANGED <<clusterVars, work, engineVars, stage, first, age, old>>

(* A watch event: added, updated or deleted.                               *)
Watch(o) ==
  /\ o \in listed /\ cache[o] # object[o]
  /\ cache' = [cache EXCEPT ![o] = object[o]]
  /\ Add(o)
  /\ UNCHANGED <<clusterVars, listed, work, engineVars, stage, first, age, old>>

(* The listers of the kinds: the informers' caches, one of which has o.     *)
Lister(o) == cache[o]
Listed == {o \in Object : Lister(o) # Absent}

(* Everything in the cache is handed out once more.                        *)
Resync ==
  /\ ResyncSeconds > 0 /\ stage = "serving"
  /\ dirty' = dirty \cup Listed
  /\ UNCHANGED <<clusterVars, informerVars, work, engineVars, stage, first, age, old>>

-----------------------------------------------------------------------------
(* Run.                                                                    *)

Before(k1, k2) ==             \* the order in which buildSeenSet looks at kinds
  LET position == [node |-> 1, daemonset |-> 2, deployment |-> 3, job |-> 4, cronjob |-> 5, hpa |-> 6]
  IN  position[k1] < position[k2]

Found == UNION {Reported(o, Lister(o)) : o \in Listed}

(* As many of the issues as the baseline has room for, in this order.      *)
Fits(baseline) ==
  /\ Cardinality(baseline) =
       IF Cardinality(Found) <= MaxBaseline THEN Cardinality(Found) ELSE MaxBaseline
  /\ \A x \in baseline, y \in Found \ baseline : ~ Before(kind[y[1]], kind[x[1]])

buildSeenSet ==
  \E baseline \in SUBSET Found :
    /\ Fits(baseline)
    /\ seen' = baseline
    /\ old' = old \ (Found \ baseline)

BugWaitForCacheSync == TRUE   \* the baseline is built from what is there by now

WaitForCacheSync == listed = Object

(* WaitForCacheSync, buildSeenSet, and then the workers.                   *)
Run ==
  /\ stage = "syncing"
  /\ WaitForCacheSync
  /\ buildSeenSet
  /\ stage' = "serving"
  /\ UNCHANGED <<clusterVars, informerVars, queueVars, open, lapsed, first, age>>

(* The context ends: the queues are shut down, what is in them is worked   *)
(* off.                                                                    *)
Stop ==
  /\ stage = "serving"
  /\ stage' = "stopped"
  /\ UNCHANGED <<clusterVars, informerVars, queueVars, engineVars, first, age, old>>

-----------------------------------------------------------------------------
(* The engine.                                                             *)

isBaselined(x) == x \in seen /\ age < BaselineTTL

(* What Process and the resolving calls leave open and in the baseline.    *)
Engine(signalled, resolved) ==
  /\ open' = (open \ resolved) \cup {x \in signalled : ~ isBaselined(x)}
  /\ seen' = (seen \ (resolved \cap open)) \ {x \in signalled : ~ isBaselined(x)}

(* What has not been seen for Window is resolved and deleted, whatever its *)
(* object is like.                                                         *)
cleanup ==
  \E unseen \in SUBSET open :
    /\ unseen # {}
    /\ open' = open \ unseen /\ seen' = seen \ unseen /\ lapsed' = lapsed \cup unseen
    /\ UNCHANGED <<clusterVars, informerVars, queueVars, stage, first, age, old>>

signalEvent(o, r)       == Engine({<<o, r>>}, {})
OpenOf(o)               == {x \in open : x[1] = o}
ResolveByResource(o)    == Engine({}, OpenOf(o))
CountActiveNodeIncidents == Cardinality({o \in Object : kind[o] = "node" /\ OpenOf(o) # {}})

-----------------------------------------------------------------------------
(* The handlers; s is what was read from the cache.                        *)

BugForget(o) == UNCHANGED first \* what the handler knows is never dropped

Forget(o) == first' = [first EXCEPT ![o] = Never]

(* How long the handler knows.                                             *)
Known(o) == IF first[o] = Never THEN 0 ELSE first[o]

BugMark(o) == first' = [first EXCEPT ![o] = 0] \* begins anew at each look

Mark(o) == first' = [first EXCEPT ![o] = Known(o)]

ProcessDeployment(o, s) ==
  /\ IF s = Absent \/ DetectDeploymentIssue(s) = {} THEN ResolveByResource(o)
     ELSE Engine(Reported(o, s), {})
  /\ UNCHANGED first

ProcessJob(o, s) ==
  /\ IF s = Absent \/ DetectJobIssue(s) = {} THEN ResolveByResource(o)
     ELSE Engine(Reported(o, s), {})
  /\ UNCHANGED first

ProcessCronJob(o, s) ==
  /\ IF s = Absent \/ DetectCronJobIssue(s) = {} THEN ResolveByResource(o)
     ELSE Engine(Reported(o, s), {})
  /\ UNCHANGED first

(* emitNodeAlert: what Suppression ignores is not told.                    *)
emitted(o, s) == Reported(o, s) \ PassedOver(o, s)

(* Each condition is an incident of its own, resolved on its own; one that *)
(* is passed over is neither told nor resolved.                            *)
ProcessNode(o, s) ==
  /\ IF s = Absent THEN ResolveByResource(o)
     ELSE Engine(emitted(o, s), OpenOf(o) \ (Reported(o, s) \cup PassedOver(o, s)))
  /\ UNCHANGED first

(* An unfinished rollout has its grace; a deleted DaemonSet is resolved    *)
(* but what firstUnavailableDS knows of it stays.                          *)
ProcessDaemonSet(o, s) ==
  LET wait == (~ s.settled /\ Known(o) < rolloutGrace) \/ Known(o) < Sustained
  IN  CASE s = Absent -> ResolveByResource(o) /\ UNCHANGED first
        [] s # Absent /\ DetectDaemonSetIssue(s) = {} -> ResolveByResource(o) /\ Forget(o)
        [] s # Absent /\ DetectDaemonSetIssue(s) # {} ->
             IF CountActiveNodeIncidents >= Unavailable
             THEN ResolveByResource(o) /\ Forget(o)
             ELSE /\ Mark(o)
                  /\ IF wait THEN UNCHANGED <<open, seen>>
                     ELSE signalEvent(o, "DaemonSetUnavailable")

BugProcessHorizontalPodAutoscaler(o, s) == \* a maxed-out HPA keeps its scaling error
  LET found == Reported(o, s)
      wait  == <<o, "HPAMaxedOut">> \in found /\ Known(o) < Sustained
  IN  /\ Engine(IF wait THEN found \ {<<o, "HPAMaxedOut">>} ELSE found,
                IF <<o, "HPAMaxedOut">> \in found THEN {} ELSE OpenOf(o) \ found)
      /\ IF <<o, "HPAMaxedOut">> \in found THEN Mark(o) ELSE Forget(o)

ProcessHorizontalPodAutoscaler(o, s) ==
  LET found == Reported(o, s)
      wait  == <<o, "HPAMaxedOut">> \in found /\ Known(o) < Sustained
  IN  /\ Engine(IF wait THEN found \ {<<o, "HPAMaxedOut">>} ELSE found, OpenOf(o) \ found)
      /\ IF <<o, "HPAMaxedOut">> \in found THEN Mark(o) ELSE Forget(o)

(* processNextItem, first half: the key is taken and the cache read.       *)
Get(o) ==
  /\ stage # "syncing"
  /\ o \in dirty /\ work[o] = NoWork
  /\ dirty' = dirty \ {o}
  /\ work' = [work EXCEPT ![o] = Lister(o)]
  /\ UNCHANGED <<clusterVars, informerVars, engineVars, stage, first, age, old>>

(* What the handler works on: a node that was there is read again.         *)
Read(o) == IF kind[o] = "node" /\ work[o] # Absent THEN cache[o] ELSE work[o]

(* The second half: the handler runs and the key is given back.            *)
Process(o) ==
  LET s == Read(o)
  IN  /\ work[o] # NoWork
      /\ work' = [work EXCEPT ![o] = NoWork]
      /\ lapsed' = {x \in lapsed : x[1] # o}
      /\ CASE kind[o] = "node"       -> ProcessNode(o, s)
           [] kind[o] = "deployment" -> ProcessDeployment(o, s)
           [] kind[o] = "daemonset"  -> ProcessDaemonSet(o, s)
           [] kind[o] = "job"        -> ProcessJob(o, s)
           [] kind[o] = "cronjob"    -> ProcessCronJob(o, s)
           [] kind[o] = "hpa"        -> ProcessHorizontalPodAutoscaler(o, s)
      /\ UNCHANGED <<clusterVars, informerVars, dirty, stage, age, old>>

-----------------------------------------------------------------------------
Init ==
  /\ kind \in Kinds
  /\ object \in [Object -> UNION {Statuses(k) : k \in Kind} \cup {Absent}]
  /\ \A o \in Object : object[o] \in Statuses(kind[o]) \cup {Absent}
  /\ cache = [o \in Object |-> Absent] /\ listed = {}
  /\ stage = "syncing"
  /\ dirty = {} /\ work = [o \in Object |-> NoWork]
  /\ first = [o \in Object |-> Never]
  /\ open = {} /\ seen = {} /\ lapsed = {}
  /\ age = 0 /\ changes = 0
  /\ old = UNION {Reported(o, object[o]) : o \in Object}

Next ==
  \/ \E o \in Object :
       Change(o) \/ Overdue(o) \/ List(o) \/ Watch(o) \/ Get(o) \/ Process(o)
  \/ Run \/ Stop \/ Resync \/ cleanup \/ Tick

Spec == Init /\ [][Next]_vars

(***************************************************************************)
(* Informers list and watch, a queue is FIFO, so that every key in it is   *)
(* reached, time passes, and the ticker of the resync keeps firing.        *)
(***************************************************************************)
FairSpec ==
  /\ Spec
  /\ WF_vars(Run) /\ WF_vars(Resync) /\ WF_vars(Tick)
  /\ \A o \in Object : WF_vars(List(o) \/ Watch(o)) /\ WF_vars(Get(o) \/ Process(o))

-----------------------------------------------------------------------------
CaughtUp(o) == stage = "serving" /\ cache[o] = object[o] /\ o \notin dirty /\ work[o] = NoWork

Now(o) == Reported(o, object[o])
Unread(o) == PassedOver(o, object[o])

(***************************************************************************)
(* However changes, cache updates and workers interleave, and however many *)
(* changes a workqueue folds into one: once an object's key is worked off, *)
(* nothing is open for an object that is gone or well, and, but for jobs   *)
(* and CronJobs, whose incidents stay as long as anything is wrong,        *)
(* nothing is open that is over.  A condition that a node does not list,   *)
(* or whose reason is ignored, does not close its incident.                *)
(***************************************************************************)
OnlyCurrentIsOpen ==
  \A o \in Object : CaughtUp(o) =>
    /\ Now(o) = {} => OpenOf(o) \subseteq Unread(o)
    /\ kind[o] \notin {"job", "cronjob"} => OpenOf(o) \subseteq Now(o) \cup Unread(o)

(* What needs no time to be reported.                                      *)
AtOnce(o) ==
  {x \in Now(o) \ Unread(o) :
     x[2] \notin {"DaemonSetUnavailable", "HPAMaxedOut", "CronJobNotScheduled"}}

(***************************************************************************)
(* The converse: once the key is worked off, what is wrong is open, or it  *)
(* was known at startup, or it was open when the handler last looked and   *)
(* the engine's cleanup has closed it since, for an object that does not   *)
(* change is not looked at again.                                          *)
(***************************************************************************)
WhatIsWrongIsOpen ==
  \A o \in Object : CaughtUp(o) => AtOnce(o) \subseteq open \cup seen \cup lapsed

(***************************************************************************)
(* What was wrong when kwatch started and never ceased to be does not      *)
(* page until the baseline expires, if the baseline had room for it: every *)
(* cache is complete before the baseline is built, and no worker reaches   *)
(* the engine before the baseline does.                                    *)
(***************************************************************************)
OldIssuesAreQuiet == age < BaselineTTL => old \cap open = {}

(* The handlers' memory of when a trouble began ends with the trouble; for *)
(* a DaemonSet that was deleted it does not.                               *)
MemoryEnds ==
  \A o \in Object :
    CaughtUp(o) /\ first[o] # Never /\ ~ (kind[o] = "daemonset" /\ object[o] = Absent) => Now(o) # {}

(* The variables have their types, the baseline its limit, and the memory  *)
(* of a trouble ends with it.                                              *)
MemoryEndsWithTrouble == TypeOK /\ MemoryEnds

(* What is told only after it has lasted; an object has one such trouble.  *)
Lasting(o) == {x \in Now(o) : x[2] \in {"DaemonSetUnavailable", "HPAMaxedOut"}}
Remembered == {o \in Object : \E k \in Kinds : k[o] \in {"daemonset", "hpa"}}

(***************************************************************************)
(* "After the grace expires we assume it's stuck" (process_daemonset.go).  *)
(* Liveness, under FairSpec: a DaemonSet that stays broken while no node   *)
(* is down, and an HPA that stays maxed out, are reported.  It takes a     *)
(* resync: nothing else makes the handler look again.                      *)
(***************************************************************************)
SustainedIsTold ==
  \A o \in Remembered :
    <>[](Lasting(o) # {} /\ stage = "serving" /\ CountActiveNodeIncidents = 0)
      => <>(Lasting(o) # {} /\ Lasting(o) \subseteq open \cup seen)
=============================================================================
