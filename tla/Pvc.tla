-------------------------------- MODULE Pvc --------------------------------
(***************************************************************************)
(* The PVC monitor (internal/pvc): a periodic sweep asks the kubelet of    *)
(* every ready node for the usage of the volumes mounted there, a pod that *)
(* runs has its node sampled out of turn, and both fold what they read     *)
(* into one cache under p.mu.  What the sweep leaves in the cache is saved *)
(* and read back at the next start, so that a volume that is full but not  *)
(* mounted is remembered; saving and reading may fail.                     *)
(*                                                                         *)
(* A usage is one of three levels: below ClearThreshold, from there to     *)
(* Threshold, and Threshold or above.  CriticalThreshold only chooses the  *)
(* severity and is left out.  The engine is reduced to which volumes have  *)
(* an open incident.  No clock: the TTL of the map and the debounce end    *)
(* when the action Elapse says so, and any open incident may have gone     *)
(* unreported for the engine's Window when Lapse says so.                  *)
(***************************************************************************)
EXTENDS Integers, FiniteSets, FiniteSetsExt

CONSTANTS
  PV,
  Nodes,                \* the nodes are 1..Nodes
  NoNode, NoMap, NotRead, Failed, NoSample,
  maxConcurrentSamples,
  notifiedLimit         \* the 1000 of cleanup

Node  == 1..Nodes
Level == 0..2
Clear == 1              \* ClearThreshold
Threshold == 2
NoEntry == -1           \* in lastUsage

ASSUME PvcAssumption ==
  /\ Nodes \in Nat \ {0} /\ NoNode \notin Node
  /\ maxConcurrentSamples \in Nat \ {0}
  /\ notifiedLimit \in Nat

(***************************************************************************)
(* Definitions named Bug... are mistakes this code could have made, each   *)
(* next to the definition it would replace.  Nothing uses them: they show  *)
(* that the properties below can fail.                                     *)
(***************************************************************************)

VARIABLES
  level,       \* pv -> how full it is
  bound,       \* the volumes a claim is bound to
  mount,       \* pv -> the node it is mounted on, or NoNode
  ready,       \* the ready nodes
  stage,       \* where Start is: "down", "boot", "start", "sweep", "persist", "idle"
  pvByPVC,     \* the cached map, as the set of bound volumes, or NoMap
  stale,       \* the map is older than pvByPVCTTL
  sweepMap,    \* the map the sweep works with
  results,     \* what the sweep read: node -> usages, NotRead or Failed
  sample,      \* node -> the usages a sample read and has not applied, or NoSample
  debounced,   \* the nodes sampled less than nodeSampleDebounce ago
  lastUsage,   \* pv -> the last level, or NoEntry
  notifiedPvc,
  firstScan,
  stored,      \* the saved lastUsage
  open,        \* the engine: the volumes with an open incident
  due,         \* history: the volumes reported, with nothing since that ends an incident
  dropped      \* history: cleanup has emptied notifiedPvc

cluster == <<level, bound, mount, ready>>
maps    == <<pvByPVC, stale>>
sweep   == <<sweepMap, results>>
samples == <<sample, debounced>>
memory  == <<lastUsage, notifiedPvc, firstScan>>
vars    == <<level, bound, mount, ready, stage, pvByPVC, stale, sweepMap, results, sample,
             debounced, lastUsage, notifiedPvc, firstScan, stored, open, due, dropped>>

-----------------------------------------------------------------------------
\* What is read, and what is made of it.

\* getNodeUsage: the mounted volumes whose claim is in the map
getNodeUsage(n, map) ==
  {[pv |-> v, pct |-> level[v], node |-> n] : v \in {w \in map : mount[w] = n}}

Reads(usages, v) == {u \in usages : u.pv = v}

\* Results are gone through in the order of the nodes: the last one stays.
LastRead(usages, v) ==
  (CHOOSE u \in Reads(usages, v) : \A w \in Reads(usages, v) : w.node <= u.node).pct

AtLeast(usages, t) == {u.pv : u \in {w \in usages : w.pct >= t}}

\* what is mounted nowhere is taken to have been emptied
BugUnmounted(v, usage) == FALSE

\* Bound but not mounted: the last sample is still accurate, if there is one.
Unmounted(v, usage) == usage[v] >= Clear

CurrentNotified(usages) ==
  AtLeast(usages, Threshold) \cup (notifiedPvc \cap AtLeast(usages, Clear))

\* a sample, too, reports what is known
BugReported(usages, isSweep) == IF firstScan THEN {} ELSE AtLeast(usages, Threshold) \ notifiedPvc

\* The sweep reports again what is known already, a sample what has become known only.
Reported(usages, isSweep) ==
  IF firstScan THEN {}
  ELSE IF isSweep THEN AtLeast(usages, Threshold)
  ELSE AtLeast(usages, Threshold) \ notifiedPvc

\* whatever is read is cached
BugCached(l) == l

\* Only what can keep an incident alive is cached.
Cached(l) == IF l >= Clear THEN l ELSE NoEntry

apply(usages, map, incomplete, isSweep) ==
  LET read    == {u.pv : u \in usages}
      usage   == [v \in PV |-> IF v \notin read THEN lastUsage[v]
                               ELSE Cached(LastRead(usages, v))]
      current == CurrentNotified(usages)
      kept    == {v \in notifiedPvc \ current : v \notin read /\ v \in map /\ Unmounted(v, usage)}
      over    == IF incomplete THEN {} ELSE notifiedPvc \ (current \cup kept)
  IN /\ lastUsage' = [v \in PV |-> IF v \in over THEN NoEntry ELSE usage[v]]
     /\ notifiedPvc' = IF incomplete THEN notifiedPvc \cup current ELSE current \cup kept
     /\ open' = (open \cup Reported(usages, isSweep)) \ over
     /\ firstScan' = (firstScan /\ ~ isSweep)

-----------------------------------------------------------------------------
\* The cluster.

Fill(v, l) ==
  /\ mount[v] # NoNode /\ level[v] # l
  /\ level' = [level EXCEPT ![v] = l]
  /\ UNCHANGED <<bound, mount, ready>>

Mount(v, n) ==
  /\ v \in bound /\ mount[v] = NoNode
  /\ mount' = [mount EXCEPT ![v] = n]
  /\ UNCHANGED <<level, bound, ready>>

Unmount(v) ==
  /\ mount[v] # NoNode
  /\ mount' = [mount EXCEPT ![v] = NoNode]
  /\ UNCHANGED <<level, bound, ready>>

\* A claim goes with its volume, and comes back with an empty one of the same name.
Unbind(v) ==
  /\ v \in bound /\ mount[v] = NoNode
  /\ bound' = bound \ {v}
  /\ level' = [level EXCEPT ![v] = 0]
  /\ UNCHANGED <<mount, ready>>

Bind(v) ==
  /\ v \notin bound
  /\ bound' = bound \cup {v}
  /\ UNCHANGED <<level, mount, ready>>

Toggle(n) ==
  /\ ready' = IF n \in ready THEN ready \ {n} ELSE ready \cup {n}
  /\ UNCHANGED <<level, bound, mount>>

Cluster ==
  /\ \/ \E v \in PV :
          \/ \E l \in Level : Fill(v, l)
          \/ \E n \in Node : Mount(v, n)
          \/ Unmount(v) \/ Unbind(v) \/ Bind(v)
     \/ \E n \in Node : Toggle(n)
  /\ UNCHANGED <<stage, maps, sweep, samples, memory, stored, open, due, dropped>>

-----------------------------------------------------------------------------
\* The monitor.

\* pvcMap: the claims as the API server lists them, or as they were last listed
pvcMap(answers, map) ==
  IF pvByPVC # NoMap /\ ~ stale
  THEN map = pvByPVC /\ UNCHANGED maps
  ELSE IF answers THEN map = bound /\ pvByPVC' = bound /\ stale' = FALSE
  ELSE map = (IF pvByPVC = NoMap THEN {} ELSE pvByPVC) /\ UNCHANGED maps

\* kwatch starts: its controller may run before the monitor has read what was saved.
Boot ==
  /\ stage = "down"
  /\ stage' = "boot"
  /\ UNCHANGED <<cluster, maps, sweep, samples, memory, stored, open, due, dropped>>

\* the incidents are restored, but not that they are known
BugKnown(usage) == {}

\* notifiedPvc as it is derived from what was saved
Known(usage) == {v \in PV : usage[v] >= Threshold}

\* Start, as far as the first sweep: what was full when it was last seen is reported.  If
\* GetPvcUsage fails, or nothing was ever saved, that is what samples have left by now.
Start(answers) ==
  LET seed == IF answers THEN stored ELSE lastUsage IN
    /\ stage = "boot"
    /\ stage' = "start"
    /\ lastUsage' = seed
    /\ notifiedPvc' = notifiedPvc \cup Known(seed)
    /\ open' = open \cup {v \in PV : seed[v] >= Threshold}
    /\ due' = due \cup {v \in PV : seed[v] >= Threshold}
    /\ UNCHANGED <<cluster, maps, sweep, samples, firstScan, stored, dropped>>

\* checkUsage, as far as the goroutines that read the nodes
checkUsage(answers) ==
  /\ stage \in {"start", "idle"}
  /\ \E map \in SUBSET PV :
       /\ pvcMap(answers, map)
       /\ sweepMap' = map
  /\ results' = [n \in Node |-> IF n \in ready THEN NotRead ELSE {}]
  /\ stage' = "sweep"
  /\ UNCHANGED <<cluster, samples, memory, stored, open, due, dropped>>

\* GetNodes fails: nothing is read, what is known is saved.
GetNodesFails ==
  /\ stage \in {"start", "idle"}
  /\ stage' = "persist"
  /\ UNCHANGED <<cluster, maps, sweep, samples, memory, stored, open, due, dropped>>

Read(n, what) ==
  /\ stage = "sweep" /\ results[n] = NotRead
  /\ results' = [results EXCEPT ![n] = what]
  /\ UNCHANGED <<cluster, stage, maps, sweepMap, samples, memory, stored, open, due, dropped>>

ReadNode(n)  == Read(n, getNodeUsage(n, sweepMap))
ReadFails(n) == Read(n, Failed)

\* Owed from the second sweep on; not owed any more once read below ClearThreshold, or once
\* the claim is not in the map, which is empty as long as no list has succeeded, or lapsed.
Owed(usages, gone, isSweep) ==
  (due \cup (IF isSweep /\ ~ firstScan THEN AtLeast(usages, Threshold) ELSE {}))
    \ (gone \cup {u.pv : u \in {w \in usages : w.pct < Clear}})

applySweep ==
  LET good == {n \in Node : results[n] # Failed}
      usages == UNION {results[n] : n \in good} IN
    /\ stage = "sweep" /\ \A n \in Node : results[n] # NotRead
    /\ apply(usages, sweepMap, good # Node, TRUE)
    /\ due' = Owed(usages, PV \ sweepMap, TRUE)
    /\ stage' = "persist"
    /\ sweepMap' = {} /\ results' = [n \in Node |-> {}]
    /\ UNCHANGED <<cluster, maps, samples, stored, dropped>>

\* SavePvcUsage may fail, which is only logged.
persist ==
  /\ stage = "persist"
  /\ stored' \in {stored, lastUsage}
  /\ stage' = "idle"
  /\ UNCHANGED <<cluster, maps, sweep, samples, memory, open, due, dropped>>

\* SampleNode, for a pod that runs on n with one of its volumes.  The sweep's reads take
\* places of the semaphore, too: while they last, a sample may be dropped.  The kubelet may
\* not answer.
SampleNode(n, answers) ==
  LET inFlight == {m \in Node : sample[m] # NoSample} IN
    /\ stage # "down" /\ \E v \in PV : mount[v] = n
    /\ n \notin debounced /\ sample[n] = NoSample
    /\ debounced' = debounced \cup {n}
    /\ \/ /\ Cardinality(inFlight) >= maxConcurrentSamples \/ stage = "sweep" \/ n \notin ready
          /\ UNCHANGED <<maps, sample>>
       \/ /\ Cardinality(inFlight) < maxConcurrentSamples /\ n \in ready
          /\ \E map \in SUBSET PV :
               /\ pvcMap(answers, map)
               /\ sample' \in {sample, [sample EXCEPT ![n] = getNodeUsage(n, map)]}
    /\ UNCHANGED <<cluster, stage, sweep, memory, stored, open, due, dropped>>

applySample(n) ==
  /\ stage # "down" /\ sample[n] # NoSample
  /\ apply(sample[n], {}, TRUE, FALSE)
  /\ due' = Owed(sample[n], {}, FALSE)
  /\ sample' = [sample EXCEPT ![n] = NoSample]
  /\ UNCHANGED <<cluster, stage, maps, sweep, debounced, stored, dropped>>

\* The hourly cleanup
cleanup ==
  /\ stage = "idle" /\ Cardinality(notifiedPvc) > notifiedLimit
  /\ notifiedPvc' = {} /\ dropped' = TRUE
  /\ UNCHANGED <<cluster, stage, maps, sweep, samples, lastUsage, firstScan, stored, open, due>>

\* The engine's cleanup closes what has not been reported for Window, whatever the volume
\* is like; notifiedPvc and lastUsage know nothing of it.
Lapse ==
  \E unseen \in SUBSET open :
    /\ unseen # {}
    /\ open' = open \ unseen /\ due' = due \ unseen
    /\ UNCHANGED <<cluster, stage, maps, sweep, samples, memory, stored, dropped>>

Elapse ==
  /\ stage # "down"
  /\ stale' = TRUE /\ debounced' = {}
  /\ UNCHANGED <<cluster, stage, pvByPVC, sweep, sample, memory, stored, open, due, dropped>>

\* kwatch dies: only what was saved survives.
Crash ==
  /\ stage # "down"
  /\ stage' = "down"
  /\ pvByPVC' = NoMap /\ stale' = FALSE
  /\ sweepMap' = {} /\ results' = [n \in Node |-> {}]
  /\ sample' = [n \in Node |-> NoSample] /\ debounced' = {}
  /\ lastUsage' = [v \in PV |-> NoEntry] /\ notifiedPvc' = {} /\ firstScan' = TRUE
  /\ open' = {} /\ due' = {} /\ dropped' = FALSE
  /\ UNCHANGED <<cluster, stored>>

Init ==
  /\ level \in [PV -> Level] /\ bound \in SUBSET PV
  /\ \A v \in PV : v \notin bound => level[v] = 0
  /\ mount = [v \in PV |-> NoNode] /\ ready = Node
  /\ stage = "down" /\ pvByPVC = NoMap /\ stale = FALSE
  /\ sweepMap = {} /\ results = [n \in Node |-> {}]
  /\ sample = [n \in Node |-> NoSample] /\ debounced = {}
  /\ lastUsage = [v \in PV |-> NoEntry] /\ notifiedPvc = {} /\ firstScan = TRUE
  /\ stored = [v \in PV |-> NoEntry]
  /\ open = {} /\ due = {} /\ dropped = FALSE

Next ==
  \/ Cluster \/ Boot \/ GetNodesFails \/ applySweep \/ persist \/ cleanup
  \/ Lapse \/ Elapse \/ Crash
  \/ \E answers \in BOOLEAN :
       Start(answers) \/ checkUsage(answers) \/ \E n \in Node : SampleNode(n, answers)
  \/ \E n \in Node : ReadNode(n) \/ ReadFails(n) \/ applySample(n)

Spec == Init /\ [][Next]_vars

(***************************************************************************)
(* The ticker of the sweep keeps firing, and whoever is asked again and    *)
(* again, the API server or a kubelet, answers in the end.                 *)
(***************************************************************************)
FairSpec ==
  /\ Spec
  /\ WF_vars(Boot) /\ WF_vars(\E answers \in BOOLEAN : Start(answers))
  /\ WF_vars(applySweep) /\ WF_vars(persist) /\ WF_vars(Elapse)
  /\ SF_vars(checkUsage(TRUE))
  /\ \A n \in Node : SF_vars(ReadNode(n)) /\ WF_vars(ReadNode(n) \/ ReadFails(n))

-----------------------------------------------------------------------------
Usage == [pv : PV, pct : Level, node : Node]

(* Every variable has its type. *)
TypeOK ==
  /\ level \in [PV -> Level] /\ bound \subseteq PV
  /\ mount \in [PV -> Node \cup {NoNode}] /\ ready \subseteq Node
  /\ stage \in {"down", "boot", "start", "sweep", "persist", "idle"}
  /\ pvByPVC = NoMap \/ pvByPVC \subseteq PV
  /\ stale \in BOOLEAN
  /\ sweepMap \subseteq PV
  /\ results \in [Node -> {NotRead, Failed} \cup SUBSET Usage]
  /\ sample \in [Node -> {NoSample} \cup SUBSET Usage]
  /\ debounced \subseteq Node
  /\ lastUsage \in [PV -> {NoEntry} \cup Clear..Threshold]
  /\ stored \in [PV -> {NoEntry} \cup Clear..Threshold]
  /\ notifiedPvc \subseteq PV /\ open \subseteq PV
  /\ firstScan \in BOOLEAN /\ dropped \in BOOLEAN
  /\ due \subseteq PV

(***************************************************************************)
(* "Resolves only when re-mounted < clear, or the PVC is deleted"          *)
(* (check_usage.go), and over a restart from what was saved (pvc.go).  The *)
(* monitor ends no incident that it has reported until a read finds the    *)
(* volume below ClearThreshold or the claim is gone, whatever fails to     *)
(* answer, dies, or is read out of turn.  It does not keep the incident    *)
(* from lapsing: the sweep reports again only what it reads as full.       *)
(***************************************************************************)
NotEndedWhileFull == due \subseteq open

(***************************************************************************)
(* What is open is in notifiedPvc, where the sweep looks for what to       *)
(* resolve: no incident is left that no sweep can end.  It ends with the   *)
(* cleanup of a notifiedPvc of more than 1000 volumes.                     *)
(***************************************************************************)
OpenIsWatched == ~ dropped => open \subseteq notifiedPvc

(***************************************************************************)
(* Liveness, under FairSpec: a volume that is full and stays mounted on a  *)
(* ready node while kwatch runs is reported, though the first scan reports *)
(* nothing and marks it as notified, and sweeps and samples overlap; and   *)
(* if its incident lapses between two sweeps it is reported again.         *)
(***************************************************************************)
FullIsTold ==
  \A v \in PV :
    <>[](mount[v] \in ready /\ level[v] >= Threshold /\ stage # "down") => []<>(v \in open)
=============================================================================
