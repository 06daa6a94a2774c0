# kwatch in TLA+

kwatch watches a Kubernetes cluster and tells people, through chat and paging
services, what is broken. This directory holds TLA+ models of the parts of kwatch
where a notification can be lost, repeated, reordered or wrong, the TLC
configurations that check them on small instances, and TLAPS proofs of what matters
most for every instance. Paths below are relative to the repository; `PROJECT.json`
gives the lines each definition translates.

## 1. The system

    API server --> informers --> workqueues --> handlers, filters --+
                                                                    |  Process, MarkResolved,
    kubelets ---> PVC monitor: sweep and samples -------------------+->  RemovePod, SetSeen, ...
                                                                    |
                              StartCleanup's two tickers ------> correlation engine
                                                                  |             |
                              returned action / LifecycleHook     |             | OnBaselineChange
                                                                  v             v
                                      alert manager (NotifyIncident)     baseline saver
                                        |            |                          |
                              LLM enrichment     one channel and          state store: two
                                 worker          worker per provider      ConfigMaps
                                                     |                          |
                         Slack threads, paging and message services,    startup, upgrader
                         dead letters

| component | source | state | operations | what is hard |
|---|---|---|---|---|
| correlation engine | `internal/correlation/engine.go`, `internal/enricher/` | incident table, per-namespace index, baseline ("seen"), inhibited nodes, last restart counts, storm detector, digest buffer; one mutex | `Process`, `MarkResolved`, `ResolveByResource`, `RemovePod`, `ClearSeenForPod`, `SetSeen`, `cleanup`, `checkLifecycle` | five ways an incident ends, three caches of the table, the hold-down racing new events, storms hiding creates, limits |
| alert delivery | `internal/alert/alert.go` | silences, enrichment channel and breaker, a bounded channel and a worker per provider, dead-letter ring, shutdown flag | `NotifyIncident`, `fanOut`, `enrichOne`, `deliverOne`, `sendWithRetry`, `shutdown`, `DeadLetters` | full channels, retries, concurrent callers, closing channels under senders |
| providers | `internal/alert/*/` | Slack: a bounded map of threads; the paging services: alerts of their own, outside kwatch | `SendIncident`, `SendEvent`, `SendMessage` | which of the engine's actions open and close what, retries that forget |
| baseline saver, leader run | `cmd/kwatch/main.go` | the baseline channel (capacity 1), the snapshot not yet saved, a debounce timer | `OnBaselineChange`, `startBaselineSaver`, the order of the start | debounce, snapshots handed over out of order, shutdown |
| state store | `internal/state/` | two ConfigMaps, with resource versions | read-modify-write with retries, initialisation, migration of the old baseline | conflicts, calls that fail after they took effect, a kill between two writes |
| startup, upgrader | `internal/startup/`, `internal/upgrader/` | cluster ID, version, notified version (in the store) | greet, announce a release | a kill between the message and its record |
| controller | `internal/controller/` | informer caches, one workqueue per kind | enqueue, workers, resync, `buildSeenSet` | changes folded together, a cache that is behind or incomplete, the order of the start |
| workload handlers | `internal/handler/process_*.go` | when a DaemonSet or an HPA was first seen in trouble | one handler per kind | memory that outlives its object, troubles that need time |
| pod handlers and filters | `internal/handler/`, `internal/filter/` | the last container status told, per pod | two filter chains | which conditions of a pod reach the engine, one memory for several containers |
| PVC monitor | `internal/pvc/` | usage cache, alerted claims, map of claims, what is saved | sweep, node sample, restore | two goroutines over one cache, kubelets that do not answer, restarts |
| TLS sweep, CRD watcher, heartbeat | `internal/handler/tls_sweep.go`, `internal/crdwatch/`, `internal/heartbeat/` | what was told; the configuration | | not modelled (section 8) |
| configuration, formats, metrics, health, LLM, Kubernetes utilities | `internal/config/`, `internal/event/`, ... | none, or counters | parsing, text, HTTP | pure or pure I/O: not modelled |

What makes each part correct:

* **engine**: a node inhibits its pods exactly while it has an open incident; what
  the operator was last told of an incident is true; key by key the notifications are
  a story one can follow; with a hold-down nobody reads "resolved" about something that
  still fails; a live baseline entry goes only with its key or for a pod of its name; a storm lets
  few pages through and its digest comes.
* **delivery and providers**: nothing is sent on a closed channel; a notification is for
  every provider in exactly one place; every provider is told part of one story, and
  never an older part after a newer one; a shutdown settles everything; what a provider
  shows as going on comes to an end, in its own thread, unless the code never tells it.
* **baseline saver and store**: the snapshot handed over last is not lost on its way to
  the saver, and what the saver received is written; concurrent writers, failures and
  kills lose no update; what was acknowledged is found again; what is recorded as
  announced was handed to the alert manager.
* **controller, handlers**: once an object's key is worked off, what is open is wrong, and
  what is wrong was told; what was wrong before the start is quiet; per-object memory
  goes with the trouble; every failure of a pod is told, and nothing of a pod on its way out.
* **PVC monitor**: a full volume is told of, and the monitor does not end what it
  reported until the volume is read as emptier, however its two goroutines interleave.

The hazards behind these, each at its line, are listed in `PROJECT.json`.

## 2. Modules

| module | models | uses |
|---|---|---|
| `Engine` | the correlation engine, one action per exported method and path through `Process` | |
| `AlertStream` | what the operator may read about one incident key (abstract) | |
| `EngineAlerts` | the mapping under which `Engine` implements `AlertStream` | `Engine`, `AlertStream` |
| `EnginePager` | the engine with a paging service's own alerts | `Engine` |
| `EngineHistory` | the engine with a history of the latest pages | `Engine` |
| `Delivery` | `NotifyIncident` to the providers' workers, and the shutdown | `Broadcast` |
| `Broadcast` | one story told in part to every provider (abstract) | |
| `DeadLetters` | the dead-letter ring and its reader | |
| `Notifier` | one provider: silences, routes, a lossy queue, retries and their pauses, Slack's threads, dead letters | `DeadLetters` |
| `BaselineSaver` | the baseline's way from the engine's hook to the ConfigMap | |
| `StateStore` | startup, migration, upgrader and saver over the two ConfigMaps, with kills and failed calls | `KwatchState` |
| `KwatchState` | the same content changed by single operations (abstract) | |
| `Controller` | informers, workqueues, workers, seeding and the handlers of every kind but pods | |
| `PodWatch` | pods, both filter chains, the pod half of the seeding, restarts | |
| `Pvc` | the PVC monitor | |
| `EngineProofs` | theorems about the engine, its stories, its pager and its pages | `Engine`, `EngineAlerts`, `EnginePager`, `EngineHistory` |
| `DeliveryProofs`, `NotifierProofs`, `BaselineSaverProofs`, `StateStoreProofs`, `ControllerProofs`, `PodWatchProofs`, `PvcProofs` | theorems about each of these; the ring's are in `NotifierProofs` | the module of the name |
| `MCEngine`, `MCEngineHistory`, `MCEnginePager`, `MCDelivery`, `MCNotifier`, `MCController`, `MCPodWatch` | instances for TLC | |

Definitions named `Bug...` stand beside the definition they would replace: a mistake this
code could have made, under which a property fails in its run. `PROJECT.json` pairs
each property with one. Nothing else uses them.

### Engine

Every exported method of the engine holds `e.mu` from start to end, so each is one atomic
action. The exceptions are the hooks, which run after the unlock: the variable `sent` is
what a call hands over (`Process`'s return value, or the calls of `LifecycleHook`),
`snapshot` whether it calls `OnBaselineChange`. The order in which two goroutines then
deliver is not in this module.

`Process` is split along its returns: `ProcessBaselined`, `ProcessInhibited`, and, past
both gates (`Admit`), `ProcessRecreate` (a resolved incident), `ProcessRevive` (a pending
one), `ProcessRepeat` (an active one), `ProcessNew` and `ProcessDigested` (none).
`edgeAction` decides what is told; `Announced` is its effect on the incident.

*Time.* The code compares the distance between a stored timestamp and `e.now()` with a
configured duration. The model stores the distance, which `Tick` increases and which
stops one past the duration it is compared with, so time is unbounded and the state
space finite. Equality matters: `now.After(t.Add(d))` is `age > d`.

*Map order.* Where the code takes whatever a map iteration meets first
(`findNodeIncident`, ties in `evictToLimit`) the model allows every choice.

*Inputs.* `Event` is what detectors report. `EventAssumption` says what
`handler.emitNodeAlert` guarantees: a node's event names its node. The assumption on
durations is what `ValidateConfig` lets through. `MarkResolved` is called for nodes and
HPAs only, `ResolveByResource` by the other monitors.

### EnginePager, Delivery, DeadLetters

`EnginePager` adds what a paging service keeps: `EventAction` is the mapping of
PagerDuty's `event_action` and of the two calls of Opsgenie and Zenduty, `DedupKey` the
identity `incidentToEvent` gives an alert.

`Delivery` begins where `main` has called `Start`. A call of `NotifyIncident` takes the
lock twice, once for the enqueue and once for the fan-out, with a gap between them that
`calling[c].at` makes visible. `fanOut` holds `a.mu` but the workers receive without it,
so it is three actions per provider, `Offer`, `Evict` and `Refill`, and `fan` is the lock
and the fan-out in one. `sendWithRetry` is one action per attempt, as often as the
provider's own `maxAttempts` says; an attempt that returns an error may have been carried
out (`Attempted`), so `got`, what a provider did, may hold a job several times, and
`delivered` is what it acknowledged. `shutdown` is
`SetStopped`, `CloseEnrich`, `CloseProviders`, `ShutdownDone` in the order of the code,
each with the wait that precedes it. Left out: texts, templates, silences and the skip
action (they change nothing here), the back-off durations, `AddProvider` (only tests use
it after `Start`), and the synchronous path of a manager that was never started.

`DeadLetters` is the ring with its head, and the reader's arithmetic.

### Notifier

One provider without the concurrency of `Delivery`: its channel is a queue that loses
its oldest job when it is full. `Create`, `Update` and `Resolve` are the engine's
notifications, cut short by `silenced`, which `SetSilences` may change at any time; a new
incident may be left to the digest, which opens an alert at a paging service and is
nothing to Slack; its end, and that of an incident `cleanup` finds on hold, is not
notified. Going on hold and coming back tell nobody, so any incident may be on hold.
`deliverOne` is the worker, with routing, the kinds of provider and `sendWithRetry`. A
request may time out after it was carried out. The pause after a failed attempt is
`PauseAfter`: what the attempt asked for (Retry-After, a rate limit), else `backoffFor`,
in `IntBits` bits and wrapping, else, without a maximum, the configured delay. The
histories `shown`, `untold` and `dead` say what the provider's reader sees and which ends
cannot reach it.

### BaselineSaver

A snapshot is the number of the change it was taken after, so "older" and "newer" are
numbers. The engine's side is `Change` and `TakeSnapshot` where the code takes its lock
twice (`MarkResolved`, `RemovePod`, `ResolveByResource`, `checkLifecycle`), and
`ChangeAndSnapshot` where it takes it once (`SetSeen`, `ClearSeenForPod`). The hook is its
two selects and the blocking send: `Offer`, `Drain`, `BlockingSend`. The saver's loop is
the three cases of its `select`, and each write to the API is a step of its own (`Fire`,
then `Saved`), because hooks run meanwhile; a write may fail after it took effect. `main`
ends without waiting for the saver: after `Cancel` no step is assumed.

### StateStore

`UpdateWithRetry` is a call in progress, `call[g]`, of one of three goroutines: `Get`
reads a ConfigMap with its resource version, `Put` writes it if the version is still the
one read. Between them another goroutine may write, the process may be killed, and each
API call may fail, a write also after it took effect. `isConflictError` is translated as it
is: it compares texts. `main` is one action per call of the start: `EnsureClusterID`,
`IsInitialized`, `MarkAsInitialized`, `GetBaseline`, `MigrateLegacyBaseline`, the greeting.
The upgrader hands the announcement to the alert manager, which ignores what the
providers answer, and then records it; GitHub may fail to answer it. `Crash` loses everything but the ConfigMaps;
`Restart` may bring another version. kwatch is deployed as one replica with strategy
Recreate (`deploy/deploy.yaml`), so no two processes write at once.

### Controller

An object's status is reduced to what is wrong with it. `Change` is the cluster, `List`
and `Watch` the informer, `Get` and `Process` a worker: it takes the key off the queue
and reads the cache in one step and tells the engine in another, so that a change may
come between. A key that is changed while it is processed is queued again and not handed
to a second worker, as client-go's queue does. `Run` seeds the baseline when every cache
has synced; `Stop` is the end of the leader's term. `first` is the memory of the
DaemonSet and the HPA handler. The engine is reduced to what is open and its baseline.
It keeps no times: its `cleanup` may close any open incident at any moment, as one that was
not seen for `Window`. `passed` are the conditions of a node that the handler does not
look at, because the node does not list them, or tells nobody of (suppressed reasons).

### PodWatch

The cluster's part moves a pod through scheduling, starting, failing, stopping on request
(exit code 143), back-off, deletion, eviction, a disruption it is the target of, and
incidents of its node, with one status per container; instances of containers start at
times that are known to the second. `Restart` loses kwatch's memory and seeds the
baseline again, in any order up to `maxBaseline` entries. `ProcessPod` is a worker's whole
sync: `executePodFilters` and `executeContainersFilters` in the order of the two chains,
and `isPodHealthy` at the end, in one step: it works on one copy of the pod and one worker
has the pod's key; a `cleanup` in the middle of a sync is left out. `last` is the one container status that
`lastContainerIndex` remembers per pod. An incident ends with its last pod, or by `cleanup`,
at any moment, as one that was not seen for `Window`; both drop its key from the baseline
for every pod. `Owner` is looked up as each side does it: live by the filter, through the
lister at the start.

### Pvc

A sweep is a loop over nodes with one read each (`ReadNode`, `ReadFails`), then
`applySweep` under `p.mu`, then `persist`. A sample reads a node in `SampleNode` and is
applied in `applySample`, any time later. A usage has three levels, divided at
`ClearThreshold` and `Threshold`. `Start` reads back what was saved and restores what was
full; the read, and every save, may fail. `Lapse` is the engine's `cleanup`: any open
incident may have gone unreported for `Window`.

## 3. Runs

| run | question | bounds |
|---|---|---|
| `EngineOutage` | two conditions of one node and a crash-looping pod on it, with hold-down, escalation and reminders: are inhibition, index, "last told" and hold-down consistent, and are its pods quiet? | window 2, hold-down 1, one reminder |
| `EngineStorm` | does what is told of each key follow `AlertStream`, through digests? How many new incidents get through a storm? Are digests reported? | two workloads, threshold 2, window and hold-down 1 |
| `EngineSeed` | persisted and live baselines, expiry, trimming at the limit: does an entry go only with its key or for a pod of its name, and are the pager's open alerts the open incidents? | a StatefulSet of one name in two namespaces and a volume, three entries persisted, room for two |
| `EngineNamesake` | (violated) does the removal of a pod leave the baseline of its namesake in another namespace alone? | as `EngineSeed` |
| `Delivery` | two goroutines, full channels, enrichment, failing providers and a shutdown: does anything panic or vanish? Is every provider told a part of one story, in its order? Does everything settle? | 2 providers, capacities 1, 2 attempts and 1, 2 calls |
| `Notifier` | does everything a provider shows come to an end, in its own thread? Are the dead letters the latest failures, the pauses within their limits? | 2 keys, 2 incidents, queue of 2, 3 attempts, 4-bit durations, a maximum for one kind of provider, one Retry-After above it, 1 thread |
| `BaselineSaver` | three goroutines change the baseline while it is saved, saves fail, kwatch stops: is the snapshot handed over last kept and saved, and nobody blocked for good? | 3 changes, interval 2 |
| `StateStore` | is every change of the ConfigMaps one operation on their content? Does an acknowledged baseline survive? Is what is recorded handed to the alert manager, and the greeting sent once? | 2 starts, 3 snapshots, 2 versions, 2 attempts, 1 failed call |
| `Controller` | once worked off, is what is open wrong, and what is wrong told? Is what was wrong at the start quiet? Is a lasting trouble told? | 2 objects of each pair of kinds, 1 change, baseline of 2 that expires after 1 tick |
| `PodWatch` | is every failure of a pod told, and nothing of one on its way out or known since the start? | one pod of four sorts, up to two containers, 1 restart, baseline of 1, each sort with its own failures and mishaps |
| `Pvc` | does the monitor end nothing while a volume is full, can every incident end, is every full volume told of? | one volume, one node |
| `PodRestart` | (violated) is a pod that crash-looped before a restart of kwatch told of again? | one pod, one failure |

What the properties say is in the comment above each. Some need a word here:

* `ImplementsAlertStream`, `TellsOneStory`, `ImplementsKwatchState` are refinements: the
  detailed module implements the abstract one under a mapping.
* `NewPagesBounded` counts creates of new keys. A resolved incident that fails again is
  paged without a look at the storm detector.
* `PagerExact` is checked, and proved, without storms and hold-down: an incident a digest
  hid opens an alert no resolve closes, and an incident on hold may end without a word
  (section 6).
* `BaselineReleasedByName` says what `RemovePod` does, `RemovalReleasesItsPod` what its
  comment says it does.
* `TellsOneStory` lets a provider be told the same notification several times in a row,
  after attempts that failed only for their answers, and never an older one after a newer
  one. It is about the providers' own workers; a fallback gets what another one gave up,
  at any time. The story is the order of the fan-outs, which need not be the engine's.
* `EveryPageEnds` excepts resolves that were silenced, not routed, dropped from a full
  channel or dead-lettered, and incidents the engine ends without a word: those on hold
  for longer than the window, and those left to a digest (section 6). `ThreadsExact` excepts the
  last two from "in its own thread": the thread of such an incident stays in the map.
* `PauseWithinBounds` limits the pauses kwatch computes; one a provider asked for is taken as
  it is.
* `BaselineKept` is about the snapshot handed over last, which need not be the newest
  (section 6), and says nothing of one still in the channel when the saver exits.
* `RecordedIsHanded` and `ReleaseHanded` end at the alert manager: `Notify` drops the
  providers' errors, so a release that every one of them refused is recorded all the same.
* `WhatIsWrongIsOpen` excepts what `cleanup` closed since the handler last looked: without a
  resync nothing looks again at an object that does not change. An incident of a node's
  condition stays open while the node does not list the condition, or has it with a
  suppressed reason.
* `NotEndedWhileFull` is about the monitor. The engine's `cleanup` ends an incident the sweep
  no longer reports, and the sweep reports only what it reads (section 6); `FullIsTold`
  says that the incident of a mounted volume then comes back.
* `AcknowledgedSurvives` excepts histories in which a Get failed: the code takes a failed
  Get for an absent ConfigMap.
* `GreetedOnce` is about histories without failed calls.
* `SustainedIsTold` needs a resync. The code's default is `resyncSeconds: 0`
  (`internal/config/default_config.go:9`), the documented one 600; with 0 a DaemonSet
  whose status does not change again is never told of.
* `StartupQuiet` is about failures `buildSeenSet` can recognise (`Recognised`);
  `PodRestart` shows one it cannot, section 6 another.
* `FailureIsTold` excepts what the operator does not want to hear of: reasons that are
  forbidden (of the pod, or of one of its containers), names and log patterns, and pods of
  a node with an incident; and containers that ended with exit code 143, which is no
  failure to `ContainerStateFilter`. `CrashIsTold` excepts a container that started
  in the same second as another one (section 6). In both, "told" includes incidents that
  have ended since because nothing was heard of them for `Window`.
* `DrainIsSilent` counts all three ways out that `DisruptionFilter` tests.

*Why the bounds are enough.* The engine treats keys independently except through the
node flag, the storm count, the digest buffer, the namespace and the baseline limit; each
scenario has the two or three keys that meet in one of these, and durations that leave at
least one step before, at and after each deadline. These runs are exhaustive without any
bound on the number of calls. In `Delivery` a history is kept, so calls are bounded by
`MaxCalls`. Where the channels have one slot, two calls fill a channel and evict from it,
or leave one call between the two locks while the other and the shutdown move; one of the
two notifications goes through the enrichment and the other past it, which is how their
order is lost. What a third call could do is covered by the theorems: `NoSendOnClosed`,
`Conservation` and `TellsOneStory` are proved for any number of calls. Providers do not
interact except through the lock and the fallback, so two of them show every order. One of them retries, the other gives up at once. `Notifier` has
two incidents, so that a key comes back and meets what its earlier incident left, and
widths at which the third pause overflows. In `BaselineSaver` three goroutines are what
the hook needs to go wrong: one that filled the channel, one that emptied it, and one
that refills it before the second sends. In `StateStore` two starts allow a kill anywhere
and what follows it, three snapshots a legacy copy, its migration and a later save, two
attempts a retry and its last failure. `Controller` takes objects in pairs: the only
interaction is that a node in trouble silences DaemonSets, and each kind occurs in a
pair; a change while the key is worked on, and one while it is queued, are reached with
one. `cleanup` may close anything at any time, so no bound stands for `Window`. In `PodWatch` a pod has two containers where one memory for both is the question (its
theorems hold for any number);
pods meet in an incident of a common owner, whose end drops the baseline entries of all of
them; with one pod `cleanup` has that effect, and the theorems hold for any number. In `Pvc` one volume and one node already have the sweep, a sample and a restart
overlap; a second volume adds only the map, which is a set.

`Controller` and `Notifier` may stop (nothing changes, all is done), as may `StateStore`
(the last start was killed), so they are checked without deadlock detection.

## 4. Fairness

`EngineStorm` assumes weak fairness of `Tick`, `cleanup` and `checkLifecycle`: time
passes, and the one goroutine of `StartCleanup` serves both its tickers for as long as
kwatch runs. Nothing is assumed of the detectors.

`Delivery` assumes weak fairness of every goroutine's steps: each caller inside a
call, the fan-out in progress, the enrichment worker, each provider's worker, and the
shutdown once begun. Go schedules whatever can run, and a provider call ends, since every
HTTP client here has a timeout. Steps that wait for `a.mu` need no strong fairness in the
model: calls are bounded, so the lock is in the end free for good; in the code the same
rests on `sync.Mutex` not starving a waiter. That a call succeeds is not assumed: the
properties hold when every attempt fails. A caller need not call, nor need a shutdown begin.

`BaselineSaver` assumes weak fairness of each goroutine inside the engine's call or the
hook, of the saver, and of time. A send that waits for room gets it because the saver
keeps receiving; the bound on changes stands for other hooks not taking that room for
ever, which in the code the channel's queue of waiting senders guarantees. That a save
succeeds is not assumed.

`StateStore` assumes weak fairness of `main` and of the upgrader: calls end, its ticker
fires. It is not assumed that kwatch is started again after a kill, so `ReleaseHanded` is
about a kwatch that stays up. Failed calls are bounded by `MaxFaults`: the announcement
depends on GitHub and an API server that answer in the end.

`Controller` assumes weak fairness of each informer, of each object's worker (a queue is
FIFO, so every key in it is reached), of the start, of the resync's ticker and of time.

`Pvc` assumes that the sweep's ticker fires, that whatever was begun is carried on, and
strong fairness of an answer from the API server and from each kubelet: whoever is asked
again and again answers in the end. With a node that never answers every sweep is
incomplete and `FullIsTold` would not hold for volumes the sweep alone can see.

## 5. Proofs

The theorems hold for every value of the constants that satisfies the named assumption of
their module, which is what the code guarantees of them and no more:

* `KeyAssumption`, `EventAssumption`, `ConfigAssumption` (engine): finitely many keys; a
  node's key and its events name the node; names are not empty; the durations
  and limits are what `ValidateConfig` lets through.
* `DeliveryAssumption`, `DeadLetterAssumption`: at least one provider and one slot in
  every channel; any callers, notifications, routes and fallbacks.
* `NotifierAssumption`: the number of retries is in the range that `extractRetry` leaves;
  delay, maxima and what providers ask for are any integers of the width, also zero and
  negative ones. One conjunct, `2 ^ IntBits = 2 * 2 ^ (IntBits
  - 1)`, is true for every `IntBits`; it is there because the provers know nothing of `^`.
* `PodWatchAssumption`: a pod's containers are a list; no failure bears a name that
  kwatch and the kubelet use for something else ("Completed", "CrashLoopBackOff",
  "HighRestartCount", ...); a pull that fails is retried, so `ErrImagePull` comes with
  `ImagePullBackOff`, and a container does not terminate with either; what stands for exit
  code 143 is one of the failures, with the reason "Error". Which instances of containers
  start in the same second is any assignment.
* `SaverAssumption`, `StateStoreAssumption`, `ControllerAssumption`, `PvcAssumption`: the
  ranges of bounds and durations, finitely many objects; the values that stand for
  "nothing" are none of the others.

| theorem | says |
|---|---|
| `TypeCorrect` (`EngineProofs`) | `TypeOK`: among others, reminders never exceed their budget |
| `CachesAlwaysExact` (from `InhibitionExact`, `IndexExact`) | a node is inhibited exactly while it has an open incident; the namespace index is the table's namespaced part |
| `ToldTheTruth` | the last phase and severity told are the incident's own |
| `HoldQuiet` | a pending incident was quiet for as long as it was held |
| `ResolvedOnlyWhenQuiet` | with a hold-down, no Resolved for something recently failing |
| `SeverityNeverLowered` | an open incident's severity never goes down |
| `PodsAlwaysQuiet` | no pod is paged or digested while its node has an open incident |
| `BaselineAlwaysReleasedByName` | a live baseline entry goes only with its key, with the removal of a pod of its name, or with its own pod's recovery |
| `Refinement` (`EngineProofs`) | the engine implements `AlertStream`, with any hold-down or none |
| `PagerAlwaysExact` | without storms and hold-down, the alerts open at the pager are the open incidents |
| `NewPagesAlwaysBounded` | with storm detection on, fewer new incidents than `storm.threshold` are paged in any window |
| `TypeCorrect` (`DeliveryProofs`) | `TypeOK`: among others, no channel exceeds its capacity |
| `NeverSendsOnClosed` | nothing is sent on a channel that shutdown has closed |
| `AlwaysConserved` | for every provider, a notification is in exactly one place |
| `AlwaysOneStory` | the delivery implements `Broadcast` |
| `AlwaysKeepsNewest` | after an eviction there is room for the job being fanned out |
| `DeadLettersExact`, `DeadLettersOfTheManager` (`NotifierProofs`) | the dead-letter list is the last `DlqCap` failures in order: of the ring alone, and as the manager uses it |
| `PagesAlwaysEnd` | once the queue is empty, what a provider shows as going on is, or it was never told the end |
| `ThreadsAlwaysExact` | Slack posts about an incident into its own thread or none, or into one whose incident ended without Slack being told; the map is bounded |
| `PausesAlwaysBounded` | a pause no provider asked for lies between the configured delay and maximum, also when the product wraps, and with any delay and maximum |
| `BaselineAlwaysKept` (`BaselineSaverProofs`) | the snapshot handed over last is in the channel or received last, or a hook is replacing it; at rest, what was received last is saved, unless the write failed |
| `TypeCorrect` (`StateStoreProofs`) | `TypeOK` |
| `RecordedAlwaysHanded` | a release recorded as announced was handed to the alert manager |
| `AcknowledgedAlwaysSurvives` | the next start finds the acknowledged baseline or a newer one |
| `AlwaysGreetedOnce` | without failed calls a cluster is greeted once, whatever the kills |
| `Refinement` (`StateStoreProofs`) | the ConfigMaps change by the operations of `KwatchState` |
| `OnlyCurrentAlwaysOpen`, `WrongAlwaysOpen` (`ControllerProofs`) | once an object's key is worked off, what is open of it is wrong with it or passed over, and what is wrong is open, baselined, or was closed by `cleanup` since |
| `OldAlwaysQuiet` | what was wrong at the start, and has been since, does not page while the baseline lasts, if the baseline had room for it |
| `MemoryAlwaysEnds` | what the DaemonSet and HPA handlers remember of a trouble ends with it |
| `CrashAlwaysTold` (`PodWatchProofs`) | a crash loop that a worker has seen is known, or was until `Window` passed, although one state is remembered per pod, unless another container started in the same second |
| `FailureAlwaysTold` | a failed pod that a worker has seen, no incident of its node silencing it, is known under some reason, or was until `Window` passed |
| `StartupAlwaysQuiet` | what was broken at the start, is recognised by the seeding and had room, is not told again until an incident of its key ends |
| `RecoveredNeverBaselined` | every variable has its type; no baseline entry is left for a pod that has run or gone |
| `DrainAlwaysSilent` | no incident opens for a pod on its way out, but for its restarts |
| `TypeCorrect` (`PvcProofs`) | `TypeOK` |
| `NeverEndedWhileFull` | the monitor does not end what it reported or restored until it is read as emptier or its claim goes |
| `OpenAlwaysWatched` | what is open is where the sweep looks for what to resolve |

*The engine.* The table changes on many paths. Instead of following each property through
all of them, `EngineProofs` proves once that every step takes each incident through
one arrow of a life cycle: it is kept, it ages, it goes on hold, it ends, it starts or
continues failing, or it leaves the table (`IncidentStep`; `CalmStep` for all but the
failing key). The properties about one incident follow from this relation alone.
`NodeInhibition` and `NamespaceIndexed` relate the table to a cache, so they are proved per
action: a set of nodes that lose an open incident is within the set
`refreshNodeInhibition` looks at, and an event of a node raises the flag before it opens
the incident. `ResolvedIsQuiet` is not inductive: a resolve is sent when `held` exceeds the
hold-down, so the proof needs `HoldIsQuiet`, `held <= idle`, which holds because every
event resets both.

`PodQuietDuringNodeOutage` speaks of what is sent: a call of `Process` makes a key visible
only for its own event (`VisibleByEvent`), and past the gate of an inhibited node only
nodes pass, so the exactness of the flag (`InhibitionExact`) is the whole argument.
`BaselineReleasedByName` is proved action by action. Its first version said that only the
entry's own pod releases it. The case `RemovePod` could not be proved, and TLC has the
counterexample: `EngineNamesake` (section 6).

*The engine's stories.* The module's second half says what one call puts into `sent` about one
key (nothing, one notification, the resolves of a set, reminders and a flush), and has a
lemma for each way a key's story goes on: quiet, opened, updated, closed, lapsed. That a resolve
is told exactly for what was told needs `OperatorUpToDate`: the signature last told is a
firing one, so the resolved one differs and `edgeAction` cannot skip it. The abstract
story knows an incident that is `held`; only from there may a told incident end without a
word, which is `cleanup` reaching it before `checkLifecycle` (section 6).

*The pager and the pages.* Without storms and hold-down the story of a key is "silent" or
"firing", and "firing" is an open incident (`ToldIsOpen`). The pager reads the same
notifications as the story, so `PagerExact` follows from `Refinement`'s lemmas; of the
engine's actions only what they may send is needed again (`NothingDigested`). For
`NewPagesBounded` the history is tied to what the storm detector counts: every page is one
of the creates that are still young (`HistoryInv`), and the last page was let through
because those creates, itself included, were fewer than the threshold. Only `ProcessNew`
pages about a key not in the table (`PagedByNew`); time takes the page and the create out of
the window together.

*The delivery.* `NoSendOnClosed` is not inductive. It holds because of the order of
`shutdown`, which `SafeInv` writes down: `stopped` is set first, so no caller starts a
fan-out or an enqueue; the provider channels are closed only after the enrichment worker
has exited, so it starts none either (without the LLM it never gets a job, for no caller
is ever at "enqueue"); and they are closed under the lock a fan-out holds. `NewestKept`
holds because between `Evict` and `Refill` only the worker touches the channel, and it
takes.

*Conservation.* `Places` is a sum over all places a notification can be in. A step moves
a job: it takes one from a term and adds one to another. So the invariant is an
equation, `Balance`: the sum is 1 for an id that was submitted and 0 for one that was not.
That a job is not put where it already is needs no argument of its own; it would make a
term 2. The sum is split by goroutine (`CallSum`, `EnrichSum`, `ChannelSum`, `WorkerSum`),
and an action changes one or two of these.

*One story.* `TellsOneStory` needs the order. `LineInv` takes a provider's places in the
order a job passes them: what it was told last, its worker, its channel from the head, the
fan-out that has not reached it yet. Whatever stands further back comes later in `order`.
What it was told last may be the very job its worker still holds, after an attempt that was
carried out and returned an error: such a job counts as the worker's, and telling it again
does not go back.
That a job does not enter `order` twice is `LeftForGood`, which rests on `Balance`: what was
fanned out is in a channel or past it, so it is with no caller and not in the enrichment.

*The ring.* `LatestFailures` compares the reader's arithmetic with a history. The invariant
that makes it inductive says where each of the latest failures lies, counted back from the
head, that the slots in use are a prefix until the ring is full, and that a slot never
written is empty. The two lemmas on `%` (one step of the head, one step back) carry the
arithmetic.

*One provider.* `EveryPageEnds` looks at an empty queue. The invariant looks at a queue with
jobs: `ShownWillEnd` and `QueuedWillEnd` say that behind everything shown, or about to be
shown, stands its resolve, unless the incident is open or excepted. An end that is not notified
makes an exception in the same step. `ThreadsExact` needs
the same between the incidents of one key: wherever the thread, a job and the open incident
belong to different ones, the earlier one's resolve stands between them, or it ended without
Slack being told (`InTurn`), so in the first case a worker that comes to the later job has forgotten the thread. What a queue does to its jobs
(a send at the end, the eviction of the oldest, the worker taking one) is said once, as a
map from the positions after the step to those before it (`Moved`), and the three
conjuncts are shown to survive any such move.

*The baseline saver.* `BaselineKept` needs `SomethingReceived`, that a running timer or a
write under way has a snapshot to write, and `NothingLeft`, that with the timer off the
last one received was written unless the write failed.

*The store.* `Inv` adds to the types what makes the read-modify-write loop safe. A call in
progress holds a copy that is no newer than the ConfigMap, and equal to it when the
resource versions agree (`Fresh`, in `CallTypes`): so a write that is let through is one
operation on the current content. `Owned` says which goroutine may update what at which
stage of `main`: until the cluster's ID is settled `main` is alone, which is why the ID
read before the write is still missing when it is written (`OwnID`). `ClearSafe` carries
"there is a new copy" from the look at it to the removal of the old one, `HandedFirst` the
order of the announcement and its record. For `AcknowledgedSurvives` two more are needed:
snapshots are numbered in the order they were taken (`Numbered`), and what `main` read of
them is kept until it uses it (`Kept`). `GreetedOnce` rests on the stage: a start that
will greet writes its version before it does (`GreetDue`), so the next start does not; and
that write is of what was read, because `main` is alone then (`Alone`).

*The controller.* `WorkedOff` is the queue's promise, for each object: while the queue is
filled, either its key waits, or a worker has it and read what the cache still says, or
what the handler left fits the cache. A change between the read and the handler puts
the key back, which is why the second case needs no more. `Agrees` allows a CronJob
to have become overdue since the read, the one trouble that comes with time and not with an
event. `OldIsKnown` adds, for what was wrong at the start, that it is still wrong in the
cache and in the baseline. That the seeding had every object is `StartsComplete`; that it
had room for all of it is the property's own condition. `cleanup` adds one more way to fit
what the handler left: it was open then, and lapsed.

*The PVC monitor.* A volume may be read under several nodes, of which the last one counts;
that there is one (`LastReadIsOne`) is a least element of a set of numbers, the one
place where well-foundedness is used. `NotEndedWhileFull` is then inductive together with
`OwedIsCached`: what is owed an incident has at least the clearing level in the cache,
so an incomplete sweep resolves it neither by a reading nor by its absence.

*The pods.* A sync is a loop over a list of containers of any length, in which each turn
changes what the next one compares with. `executeContainersFilters` writes it as a
function of the turn's number. `LoopEnds` shows that such a function exists, `LoopKeeps`
what holds after each of its turns; both use `Induction`, a least counterexample and nothing
more. What holds is `Synced`: what the engine remembers of the pod is of an instance that
has ended, for the reason the status still gives (`InstanceOf`); there is an incident
because of it, or there was one until `Window` passed (`IncidentOf`); and a pod broken since the
start was told of its restarts at most. The first two are why no crash loop is lost. A container is skipped as told before
when its time or its reason is the remembered one's. The reason of an ended instance does
not change (`Succeeds`), so equal times mean equal reasons where no two instances started in one
second (`AloneIsSame`), and for the remembered reason there is an incident of the pod. That the memory is another container's does no harm. For
`StartupQuiet` the turn meets a key the seeding computed by code of its own
(`FailureKeeps`), provided that no container counts as restarted (`NoneSince`). This is not
true of every pod: without the last condition of `Recognised` the proof fails, and TLC
has the counterexample with three containers (section 6). The steps of the kubelet are
lemmas about one status (`Sound`, `Succeeds`); the pods a step leaves alone are one
lemma (`UnmovedKeeps`).

*Only model-checked*: liveness (`DigestReported`, `EverythingSettles`, `HookReturns`,
`ReleaseHanded`, `SustainedIsTold`, `FullIsTold`), since ENABLED and fairness are outside what
the prover supports. Every safety property that a run shows to hold is a theorem.

## 6. Where the code and its description differ

Two runs are there to be violated. `PodRestart` is one. `buildSeenSet` skips every pod in phase
Running, which a pod with a crash-looping container is in
(`internal/controller/controller.go:906`), so after a restart its crash is told again as a
new incident. README.release.md:130-131 says the baseline suppresses that.

`EngineNamesake` is another. `RemovePod` is given a namespace and a name, and releases the
baseline entries of that name in every namespace (`engine.go:736`), so the deletion of `db-0`
in one namespace makes kwatch page about a `db-0` of another one that was broken before
kwatch started. The loop's comment says "Release per-pod baseline slots for this pod", and
`ClearSeenForPod` skips other namespaces' keys (`engine.go:282`).

The models have these too, as the code has them:

* engine: `cleanup` deletes an incident on hold without telling anyone when the window ends
  before the hold-down (`engine.go:846-858`; the silent end that `AlertStream` allows
  `held`); a new incident that crosses a restart tier takes the tier's severity even when its
  own is higher; a node that recovers without having had an incident keeps its baseline entry.
* delivery: a resolve can overtake its page, which takes a detour through the enrichment
  (`alert.go:787`); an incident left to the digest opens a pager alert that no resolve
  closes (`handler.go:230`); a fallback with `SendEvent` accepts a message and does nothing
  (`alert.go:1063`); a resolve retried after its thread was forgotten is posted as a new
  root message (`slack.go:304`); a request that timed out after it was carried out is repeated,
  with nothing a provider could recognise it by (`alert.go:609-644`); the thread of an
  incident that ends on hold, or of which Slack was not told the end otherwise, stays in the map, and
  takes in the next incident of its key if the map is full then (`slack.go:284`); what a provider asks for as
  Retry-After has no upper limit (`alert.go:619-626`).
* baseline and store: of two snapshots the older one may be handed over, and saved, last,
  for the hooks run after the engine's unlock: one hook offers the newer snapshot, another one, with an
  older, drains it and sends its own (`main.go:151-163`). "The latest snapshot always wins"
  (`main.go:314`) is true of the order of the hand-overs only. An announcement that every
  provider refused is recorded as told (`alert.go:674-703`, `upgrader.go:132-138`); `isConflictError` looks for a text the API server's conflict does not
  have, "the object has been modified", so a conflicting update fails at once instead of
  being retried (`retry.go:101-109`).
* controller and handlers: an incident of an object that does not change ends after
  `Window`, as if it were over, unless a resync makes the handler look again, which the default
  `resyncSeconds: 0` does not (`engine.go:842-858`); a deleted DaemonSet's first-unavailable time survives it
  (`process_daemonset.go:43-53`); an incident of a job or CronJob stays open when the reason
  changes; a bare pod is seeded under its name and reported under no owner; pending pods are
  not seeded; crash loops are seeded under the raw reason; the restart-count alert looks at
  none of the disruption, name and namespace filters; one remembered status per pod may hide
  a second container's failure to start under the same reason; and after a restart-count
  alert for one container, another one that restarted more often counts as restarted since,
  so it is told of under the reason of its last termination
  (`container_restarts_filter.go:15`), which the seeding did not foresee.
* pods: a crash is skipped when its time, which is known to the second, or its reason is that
  of the last one told of the pod (`container_reasons_filter.go:45-63`). So of two containers
  that started in the same second only the first crash is told; and a container that goes on
  crashing for the same reason is not heard of again, so its incident ends after `Window` while it
  crashes on, and later crashes for that reason are not told until kwatch is restarted or another
  state of the pod is. A container that ended with exit code 143 is no
  failure to `ContainerStateFilter` (`container_state_filter.go:28`), though `isPodHealthy`
  and `buildSeenSet` count it. The end of an incident drops its key from the baseline for
  every pod of the owner (`engine.go:857`), so what was broken before kwatch started is told then.
* PVC monitor: a volume that is full and no longer mounted is kept, not reported
  (`check_usage.go:213-218`), so the engine resolves its incident after `Window`; "keep firing on
  the still-accurate sample" (`check_usage.go:214`) is true until then. What is saved may not be
  (`pvc.go:192-194`), and a failed read at the start restores nothing (`state.go:231-234`), so
  "a restart keeps firing on high-but-unmounted PVCs" (`pvc.go:102`) needs both. When the first list of claims fails, restored incidents are resolved though
  their volumes are full (`pvc.go:68-73`, `check_usage.go:209`); the first scan marks full
  volumes as notified without reporting them; a kubelet that never answers makes every sweep
  incomplete; a sweep that began before a sample may be applied after it.

## 7. Plan

The parts that carry a notification are modelled, and every safety property the runs check
is proved. What is left, in order:

1. The CRD watcher: several custom resources over one configuration at boot.
2. The TLS sweep's memory of what it told.
3. The engine composed with the delivery on an instance small enough for TLC: two goroutines
   that decide in one order and notify in the other.

## 8. Not modelled

* **CRD watcher**: it replaces configuration which the models take as constants. Its one
  visible effect on the flow of notifications, silences that change at any time, is an action
  of `Notifier`.
* **TLS sweep**: a daily loop over secrets with a set of what it told; one goroutine, no
  failure handling.
* **Message providers** other than Slack: one HTTP call each; what the alert manager makes of
  a failure is in `Notifier` and `Delivery`.
* **Heartbeat, health server, LLM client, HTTP and Kubernetes utilities, rate limiter**: I/O
  without state that a notification depends on, or a wrapper of a library.
* **Configuration, event formats, templates, metrics, version, generated API code**: text,
  parsing and counters. What `ValidateConfig` lets through is in the models' assumptions.
* **Notifications outside the engine's incidents**: the startup summary
  (`handler.ReportStartupSummary`, an incident of its own that is never resolved), the digest's
  summary and plain messages take the same way to the providers; `Notifier` leaves them out,
  and `Delivery` does not look at what a notification says.
* **The wall clock**: that `main` waits ten seconds for a drain that may take longer
  (`main.go:229`) is a matter of durations; the model shows that the drain ends.
* **client-go** is external: its informers, workqueues and optimistic updates are modelled
  from how the code uses them.
