----------------------------- MODULE PvcProofs -----------------------------
(***************************************************************************)
(* The PVC monitor ends no incident too early and leaves none that no      *)
(* sweep can end: for any volumes and nodes, any interleaving of sweeps    *)
(* and samples, any failures to answer, and any restarts.                  *)
(***************************************************************************)
EXTENDS Pvc, WellFoundedInduction, TLAPS

-----------------------------------------------------------------------------
(* Of several reads of one volume the last one, by node, stays.            *)

(* A nonempty set of naturals has a least element.                         *)
LEMMA Least ==
  ASSUME NEW T \in SUBSET Nat, T # {}
  PROVE  \E x \in T : \A y \in T : x <= y
<1>1. PICK x \in T : \A y \in T : ~ (<<y, x>> \in OpToRel(<, Nat))
  BY NatLessThanWellFounded, WFMin
<1>2. \A y \in T : ~ (y < x)
  BY <1>1 DEF OpToRel
<1>3. QED
  BY <1>2

LEMMA LastReadIsOne ==
  ASSUME NEW usages \in SUBSET Usage, NEW v, Reads(usages, v) # {}
  PROVE  \E u \in Reads(usages, v) : LastRead(usages, v) = u.pct
<1> DEFINE R == Reads(usages, v)
           T == {Nodes - u.node : u \in R}
<1>1. R \subseteq Usage /\ Nodes \in Nat
  BY PvcAssumption DEF Reads
<1>2. \A u \in R : u.node \in Int /\ 1 <= u.node /\ u.node <= Nodes
  BY <1>1 DEF Usage, Node
<1>3. T \in SUBSET Nat /\ T # {}
  BY <1>1, <1>2
<1>4. PICK x \in T : \A y \in T : x <= y
  BY <1>3, Least
<1>5. PICK u \in R : x = Nodes - u.node
  BY <1>4
<1>6. \A w \in R : w.node <= u.node
  <2> SUFFICES ASSUME NEW w \in R PROVE w.node <= u.node
    OBVIOUS
  <2>1. Nodes - u.node <= Nodes - w.node
    BY <1>4, <1>5
  <2>2. QED
    BY <1>1, <1>2, <2>1
<1>7. (CHOOSE z \in R : \A w \in R : w.node <= z.node) \in R
  BY <1>6
<1>8. QED
  BY <1>7 DEF LastRead

-----------------------------------------------------------------------------
(* What is owed is cached, so that it is still owed once nobody mounts it; *)
(* nothing is owed before the monitor has read what was saved.             *)
OwedIsCached == \A v \in due : lastUsage[v] >= Clear
NothingOwedYet == stage \in {"down", "boot"} => due = {}

Inv == TypeOK /\ OwedIsCached /\ NothingOwedYet /\ NotEndedWhileFull /\ OpenIsWatched

LEMMA InitInv == Init => Inv
<1> SUFFICES ASSUME Init PROVE Inv
  OBVIOUS
<1>1. TypeOK
  BY DEF Init, TypeOK, Level
<1>2. QED
  BY <1>1 DEF Init, Inv, OwedIsCached, NothingOwedYet, NotEndedWhileFull, OpenIsWatched

(* The types a reading has, whichever goroutine read it.                   *)
LEMMA GetNodeUsageType ==
  ASSUME TypeOK, NEW n \in Node, NEW map \in SUBSET PV
  PROVE  getNodeUsage(n, map) \subseteq Usage
BY DEF TypeOK, getNodeUsage, Usage

LEMMA CachedType ==
  ASSUME NEW usages \in SUBSET Usage, NEW v, Reads(usages, v) # {}
  PROVE  /\ Cached(LastRead(usages, v)) \in {NoEntry} \cup Clear .. Threshold
         /\ (\A u \in usages : u.pv = v => u.pct >= Clear)
              => Cached(LastRead(usages, v)) >= Clear
<1>1. PICK u \in usages : u.pv = v /\ LastRead(usages, v) = u.pct
  BY LastReadIsOne DEF Reads
<1>2. u.pct \in 0 .. 2
  BY <1>1 DEF Usage, Level
<1>3. QED
  BY <1>1, <1>2 DEF Cached, NoEntry, Clear, Threshold

-----------------------------------------------------------------------------
(* apply: one fold of what was read into the memory.                       *)
LEMMA ApplyStep ==
  ASSUME TypeOK, OwedIsCached, NotEndedWhileFull, OpenIsWatched,
         NEW usages \in SUBSET Usage, NEW map \in SUBSET PV,
         NEW incomplete \in BOOLEAN, NEW isSweep \in BOOLEAN, NEW gone,
         apply(usages, map, incomplete, isSweep),
         ~ incomplete => gone = PV \ map,
         due' = Owed(usages, gone, isSweep), dropped' = dropped
  PROVE  /\ lastUsage' \in [PV -> {NoEntry} \cup Clear .. Threshold]
         /\ notifiedPvc' \subseteq PV /\ open' \subseteq PV /\ due' \subseteq PV
         /\ firstScan' \in BOOLEAN
         /\ OwedIsCached' /\ NotEndedWhileFull' /\ OpenIsWatched'
<1> DEFINE read    == {u.pv : u \in usages}
           usage   == [v \in PV |-> IF v \notin read THEN lastUsage[v]
                                    ELSE Cached(LastRead(usages, v))]
           current == CurrentNotified(usages)
           kept    == {v \in notifiedPvc \ current : v \notin read /\ v \in map /\ Unmounted(v, usage)}
           over    == IF incomplete THEN {} ELSE notifiedPvc \ (current \cup kept)
<1>1. /\ lastUsage' = [v \in PV |-> IF v \in over THEN NoEntry ELSE usage[v]]
      /\ notifiedPvc' = IF incomplete THEN notifiedPvc \cup current ELSE current \cup kept
      /\ open' = (open \cup Reported(usages, isSweep)) \ over
      /\ firstScan' = (firstScan /\ ~ isSweep)
  BY DEF apply
<1>2. /\ AtLeast(usages, Threshold) \subseteq PV /\ AtLeast(usages, Clear) \subseteq PV
      /\ \A v : v \in AtLeast(usages, Threshold) <=> \E u \in usages : u.pv = v /\ u.pct >= Threshold
      /\ \A v : v \in AtLeast(usages, Clear) <=> \E u \in usages : u.pv = v /\ u.pct >= Clear
  BY DEF AtLeast, Usage
<1>3. /\ notifiedPvc \subseteq PV /\ open \subseteq PV /\ due \subseteq PV /\ firstScan \in BOOLEAN
      /\ lastUsage \in [PV -> {NoEntry} \cup Clear .. Threshold]
  BY DEF TypeOK
<1>4. current = AtLeast(usages, Threshold) \cup (notifiedPvc \cap AtLeast(usages, Clear))
  BY DEF CurrentNotified
<1>5. Reported(usages, isSweep) \subseteq AtLeast(usages, Threshold)
  BY DEF Reported
<1>6. \A v \in PV : /\ usage[v] = IF v \notin read THEN lastUsage[v] ELSE Cached(LastRead(usages, v))
                    /\ usage[v] \in {NoEntry} \cup Clear .. Threshold
  <2> SUFFICES ASSUME NEW v \in PV
               PROVE  usage[v] \in {NoEntry} \cup Clear .. Threshold
    OBVIOUS
  <2>1. CASE v \notin read
    BY <1>3, <2>1
  <2>2. CASE v \in read
    <3>1. Reads(usages, v) # {}
      BY <2>2 DEF Reads
    <3>2. QED
      BY <2>2, <3>1, CachedType
  <2>3. QED
    BY <2>1, <2>2
<1>7. kept = {v \in notifiedPvc \ current : v \notin read /\ v \in map /\ usage[v] >= Clear}
  BY DEF Unmounted
<1>8. /\ due' = (due \cup (IF isSweep /\ ~ firstScan THEN AtLeast(usages, Threshold) ELSE {}))
                  \ (gone \cup {u.pv : u \in {w \in usages : w.pct < Clear}})
      /\ \A v \in due' : \A u \in usages : u.pv = v => u.pct >= Clear
  <2>1. due' = (due \cup (IF isSweep /\ ~ firstScan THEN AtLeast(usages, Threshold) ELSE {}))
                 \ (gone \cup {u.pv : u \in {w \in usages : w.pct < Clear}})
    BY DEF Owed
  <2>2. \A u \in usages : u.pct \in Int
    BY DEF Usage, Level
  <2>3. QED
    BY <2>1, <2>2 DEF Clear
<1> HIDE DEF read, usage, current, kept, over
<1>9. due' \subseteq PV
  BY <1>2, <1>3, <1>8
<1>10. \A v \in due' : usage[v] >= Clear
  <2> SUFFICES ASSUME NEW v \in due' PROVE usage[v] >= Clear
    OBVIOUS
  <2>1. CASE v \in read
    <3>1. Reads(usages, v) # {}
      BY <2>1 DEF Reads, read
    <3>2. QED
      BY <1>6, <1>8, <1>9, <2>1, <3>1, CachedType
  <2>2. CASE v \notin read
    <3>1. v \notin AtLeast(usages, Threshold)
      BY <1>2, <2>2 DEF read
    <3>2. v \in due
      BY <1>8, <3>1
    <3>3. QED
      BY <1>6, <1>9, <2>2, <3>2 DEF OwedIsCached
  <2>3. QED
    BY <2>1, <2>2
<1>11. due' \cap over = {}
  <2> SUFFICES ASSUME NEW v \in due', v \in over PROVE FALSE
    OBVIOUS
  <2>1. ~ incomplete /\ v \in notifiedPvc /\ v \notin current /\ v \notin kept
    BY DEF over
  <2>2. v \notin read
    <3>1. v \notin AtLeast(usages, Clear)
      BY <1>4, <2>1
    <3>2. QED
      BY <1>2, <1>8, <3>1 DEF read
  <2>3. v \in map
    BY <1>8, <1>9, <2>1
  <2>4. QED
    BY <1>7, <1>10, <2>1, <2>2, <2>3
<1>12. OwedIsCached'
  <2>1. \A v \in due' : lastUsage'[v] = usage[v]
    BY <1>1, <1>9, <1>11
  <2>2. QED
    BY <1>10, <2>1 DEF OwedIsCached
<1>13. NotEndedWhileFull'
  <2>1. IF isSweep /\ ~ firstScan THEN Reported(usages, isSweep) = AtLeast(usages, Threshold) ELSE TRUE
    BY DEF Reported
  <2>2. due' \subseteq open \cup Reported(usages, isSweep)
    BY <1>8, <2>1 DEF NotEndedWhileFull
  <2>3. QED
    BY <1>1, <1>11, <2>2 DEF NotEndedWhileFull
<1>14. OpenIsWatched'
  BY <1>1, <1>4, <1>5 DEF OpenIsWatched, over
<1>15. lastUsage' \in [PV -> {NoEntry} \cup Clear .. Threshold]
  BY <1>1, <1>6
<1>16. notifiedPvc' \subseteq PV /\ open' \subseteq PV /\ firstScan' \in BOOLEAN
  BY <1>1, <1>2, <1>3, <1>4, <1>5, <1>7
<1>17. QED
  BY <1>9, <1>12, <1>13, <1>14, <1>15, <1>16

-----------------------------------------------------------------------------
(* pvcMap answers with claims that exist.                                  *)
LEMMA PvcMapType ==
  ASSUME TypeOK, NEW answers, NEW map, pvcMap(answers, map)
  PROVE  /\ map \subseteq PV
         /\ pvByPVC' = NoMap \/ pvByPVC' \subseteq PV
         /\ stale' \in BOOLEAN
BY DEF TypeOK, pvcMap, maps

(* The steps that touch neither the memory nor the engine.                 *)
Calm == UNCHANGED <<lastUsage, open, due, dropped, notifiedPvc>>

LEMMA CalmStep ==
  ASSUME Inv, Calm, stage' \in {"down", "boot"} => stage \in {"down", "boot"}
  PROVE  OwedIsCached' /\ NothingOwedYet' /\ NotEndedWhileFull' /\ OpenIsWatched'
BY DEF Inv, Calm, OwedIsCached, NothingOwedYet, NotEndedWhileFull, OpenIsWatched

LEMMA ClusterStep ==
  ASSUME Inv, Cluster
  PROVE  Inv'
<1> USE DEF Inv
<1>1. Calm /\ stage' = stage
  BY DEF Cluster, Calm, memory
<1>2. TypeOK'
  <2>1. /\ UNCHANGED <<stage, maps, sweep, samples, memory, stored, open, due, dropped>>
        /\ TypeOK
    BY DEF Cluster
  <2>2. ASSUME NEW v \in PV, NEW l \in Level, Fill(v, l)
        PROVE  TypeOK'
    BY <2>1, <2>2 DEF Fill, TypeOK, maps, sweep, samples, memory
  <2>3. ASSUME NEW v \in PV, NEW n \in Node, Mount(v, n)
        PROVE  TypeOK'
    BY <2>1, <2>3 DEF Mount, TypeOK, maps, sweep, samples, memory
  <2>4. ASSUME NEW v \in PV, Unmount(v)
        PROVE  TypeOK'
    BY <2>1, <2>4 DEF Unmount, TypeOK, maps, sweep, samples, memory
  <2>5. ASSUME NEW v \in PV, Unbind(v) \/ Bind(v)
        PROVE  TypeOK'
    BY <2>1, <2>5 DEF Unbind, Bind, TypeOK, Level, maps, sweep, samples, memory
  <2>6. ASSUME NEW n \in Node, Toggle(n)
        PROVE  TypeOK'
    BY <2>1, <2>6 DEF Toggle, TypeOK, maps, sweep, samples, memory
  <2>7. QED
    BY <2>2, <2>3, <2>4, <2>5, <2>6 DEF Cluster
<1>3. QED
  BY <1>1, <1>2, CalmStep

LEMMA StartStep ==
  ASSUME Inv, NEW answers \in BOOLEAN, Start(answers)
  PROVE  Inv'
<1> USE DEF Inv
<1> DEFINE seed == IF answers THEN stored ELSE lastUsage
           known == Known(seed)
<1>0. seed \in [PV -> {NoEntry} \cup Clear .. Threshold]
  BY DEF TypeOK
<1>1. /\ stage = "boot" /\ stage' = "start" /\ due = {}
      /\ lastUsage' = seed /\ notifiedPvc' = notifiedPvc \cup known
      /\ open' = open \cup known /\ due' = known
      /\ UNCHANGED <<cluster, maps, sweep, samples, firstScan, stored, dropped>>
  BY DEF Start, Known, NothingOwedYet
<1> HIDE DEF seed
<1>2. known \subseteq PV /\ \A v \in known : seed[v] >= Clear
  BY <1>0 DEF Known, NoEntry, Clear, Threshold
<1> HIDE DEF known
<1>3. TypeOK'
  BY <1>0, <1>1, <1>2 DEF TypeOK, cluster, maps, sweep, samples
<1>4. QED
  BY <1>1, <1>2, <1>3 DEF OwedIsCached, NothingOwedYet, NotEndedWhileFull, OpenIsWatched

(* Boot, and the parts of a sweep up to its application.                   *)
LEMMA SweepStep ==
  ASSUME Inv,
         \/ Boot \/ GetNodesFails \/ persist
         \/ \E answers \in BOOLEAN : checkUsage(answers)
         \/ \E n \in Node : ReadNode(n) \/ ReadFails(n)
  PROVE  Inv'
<1> USE DEF Inv
<1>1. Calm /\ (stage' \in {"down", "boot"} => stage \in {"down", "boot"})
  BY DEF Calm, Boot, GetNodesFails, persist, checkUsage, ReadNode, ReadFails, Read, memory
<1>2. CASE Boot \/ GetNodesFails \/ persist
  <2>1. TypeOK'
    BY <1>2 DEF Boot, GetNodesFails, persist, TypeOK, cluster, maps, sweep, samples, memory
  <2>2. QED
    BY <1>1, <2>1, CalmStep
<1>3. ASSUME NEW answers \in BOOLEAN, checkUsage(answers)
      PROVE  TypeOK'
  <2>1. PICK map \in SUBSET PV : pvcMap(answers, map) /\ sweepMap' = map
    BY <1>3 DEF checkUsage
  <2>2. /\ results' = [n \in Node |-> IF n \in ready THEN NotRead ELSE {}] /\ stage' = "sweep"
        /\ UNCHANGED <<cluster, samples, memory, stored, open, due, dropped>>
    BY <1>3 DEF checkUsage
  <2>3. results' \in [Node -> {NotRead, Failed} \cup SUBSET Usage]
    BY <2>2
  <2>4. QED
    BY <2>1, <2>2, <2>3, PvcMapType DEF TypeOK, cluster, samples, memory
<1>4. ASSUME NEW n \in Node, ReadNode(n) \/ ReadFails(n)
      PROVE  TypeOK'
  <2>1. PICK what : Read(n, what) /\ (what = Failed \/ what \subseteq Usage)
    <3>1. sweepMap \in SUBSET PV
      BY DEF TypeOK
    <3>2. QED
      BY <1>4, <3>1, GetNodeUsageType DEF ReadNode, ReadFails
  <2>2. results \in [Node -> {NotRead, Failed} \cup SUBSET Usage]
    BY DEF TypeOK
  <2>3. results' \in [Node -> {NotRead, Failed} \cup SUBSET Usage]
    BY <2>1, <2>2 DEF Read
  <2>4. QED
    BY <2>1, <2>3 DEF Read, TypeOK, cluster, maps, samples, memory
<1>5. QED
  BY <1>1, <1>2, <1>3, <1>4, CalmStep

LEMMA ApplySweepStep ==
  ASSUME Inv, applySweep
  PROVE  Inv'
<1> USE DEF Inv
<1> DEFINE good   == {n \in Node : results[n] # Failed}
           usages == UNION {results[n] : n \in good}
<1>1. /\ stage = "sweep" /\ stage' = "persist" /\ \A n \in Node : results[n] # NotRead
      /\ apply(usages, sweepMap, good # Node, TRUE)
      /\ due' = Owed(usages, PV \ sweepMap, TRUE)
      /\ sweepMap' = {} /\ results' = [n \in Node |-> {}]
      /\ UNCHANGED <<cluster, maps, samples, stored, dropped>>
  BY DEF applySweep
<1>2. usages \in SUBSET Usage /\ sweepMap \in SUBSET PV
  <2>1. \A n \in good : results[n] \subseteq Usage
    BY <1>1 DEF TypeOK
  <2>2. QED
    BY <2>1 DEF TypeOK
<1> HIDE DEF good, usages
<1>3. /\ lastUsage' \in [PV -> {NoEntry} \cup Clear .. Threshold]
      /\ notifiedPvc' \subseteq PV /\ open' \subseteq PV /\ due' \subseteq PV
      /\ firstScan' \in BOOLEAN
      /\ OwedIsCached' /\ NotEndedWhileFull' /\ OpenIsWatched'
  BY <1>1, <1>2, ApplyStep
<1>4. TypeOK'
  BY <1>1, <1>3 DEF TypeOK, cluster, maps, samples
<1>5. QED
  BY <1>1, <1>3, <1>4 DEF NothingOwedYet

LEMMA ApplySampleStep ==
  ASSUME Inv, NEW n \in Node, applySample(n)
  PROVE  Inv'
<1> USE DEF Inv
<1>1. /\ sample[n] # NoSample
      /\ apply(sample[n], {}, TRUE, FALSE)
      /\ due' = Owed(sample[n], {}, FALSE)
      /\ sample' = [sample EXCEPT ![n] = NoSample]
      /\ UNCHANGED <<cluster, stage, maps, sweep, debounced, stored, dropped>>
  BY DEF applySample
<1>2. sample[n] \in SUBSET Usage
  BY <1>1 DEF TypeOK
<1>3. /\ lastUsage' \in [PV -> {NoEntry} \cup Clear .. Threshold]
      /\ notifiedPvc' \subseteq PV /\ open' \subseteq PV /\ due' \subseteq PV
      /\ firstScan' \in BOOLEAN
      /\ OwedIsCached' /\ NotEndedWhileFull' /\ OpenIsWatched'
  BY <1>1, <1>2, ApplyStep
<1>4. sample' \in [Node -> {NoSample} \cup SUBSET Usage]
  BY <1>1 DEF TypeOK
<1>5. TypeOK'
  BY <1>1, <1>3, <1>4 DEF TypeOK, cluster, maps, sweep
<1>6. NothingOwedYet'
  BY <1>1 DEF NothingOwedYet, Owed
<1>7. QED
  BY <1>3, <1>5, <1>6

LEMMA SampleNodeStep ==
  ASSUME Inv, NEW n \in Node, NEW answers \in BOOLEAN, SampleNode(n, answers)
  PROVE  Inv'
<1> USE DEF Inv
<1>1. Calm /\ stage' = stage
  BY DEF SampleNode, Calm, memory
<1>2. UNCHANGED <<cluster, stage, sweep, memory, stored, open, due, dropped>>
      /\ debounced' = debounced \cup {n}
  BY DEF SampleNode
<1>3. /\ pvByPVC' = NoMap \/ pvByPVC' \subseteq PV
      /\ stale' \in BOOLEAN
      /\ sample' \in [Node -> {NoSample} \cup SUBSET Usage]
  <2>1. CASE UNCHANGED <<maps, sample>>
    BY <2>1 DEF TypeOK, maps
  <2>2. CASE \E map \in SUBSET PV :
               /\ pvcMap(answers, map)
               /\ sample' \in {sample, [sample EXCEPT ![n] = getNodeUsage(n, map)]}
    <3>1. PICK map \in SUBSET PV :
               /\ pvcMap(answers, map)
               /\ sample' \in {sample, [sample EXCEPT ![n] = getNodeUsage(n, map)]}
      BY <2>2
    <3>2. getNodeUsage(n, map) \subseteq Usage
      BY <3>1, GetNodeUsageType
    <3>3. sample \in [Node -> {NoSample} \cup SUBSET Usage]
      BY DEF TypeOK
    <3>4. sample' \in [Node -> {NoSample} \cup SUBSET Usage]
      BY <3>1, <3>2, <3>3
    <3>5. QED
      BY <3>1, <3>4, PvcMapType
  <2>3. QED
    BY <2>1, <2>2 DEF SampleNode
<1>4. TypeOK'
  BY <1>2, <1>3 DEF TypeOK, cluster, sweep, memory
<1>5. QED
  BY <1>1, <1>4, CalmStep

(* The hourly clean-up, the engine's, and the passing of time.             *)
LEMMA TimeStep ==
  ASSUME Inv, cleanup \/ Lapse \/ Elapse
  PROVE  Inv'
<1> USE DEF Inv
<1>1. TypeOK'
  <2>1. CASE cleanup
    BY <2>1 DEF cleanup, TypeOK, cluster, maps, sweep, samples
  <2>2. CASE Elapse
    BY <2>2 DEF Elapse, TypeOK, cluster, sweep, memory
  <2>3. CASE Lapse
    BY <2>3 DEF Lapse, TypeOK, cluster, maps, sweep, samples, memory
  <2>4. QED
    BY <2>1, <2>2, <2>3
<1>2. OwedIsCached' /\ NothingOwedYet' /\ NotEndedWhileFull' /\ OpenIsWatched'
  BY DEF cleanup, Elapse, Lapse, memory, OwedIsCached, NothingOwedYet, NotEndedWhileFull, OpenIsWatched
<1>3. QED
  BY <1>1, <1>2

LEMMA CrashStep ==
  ASSUME Inv, Crash
  PROVE  Inv'
<1>1. TypeOK'
  BY DEF Inv, Crash, TypeOK, cluster
<1>2. OwedIsCached' /\ NothingOwedYet' /\ NotEndedWhileFull' /\ OpenIsWatched'
  BY DEF Inv, Crash, OwedIsCached, NothingOwedYet, NotEndedWhileFull, OpenIsWatched
<1>3. QED
  BY <1>1, <1>2 DEF Inv

THEOREM Invariant == Spec => []Inv
<1>1. Inv /\ [Next]_vars => Inv'
  <2> SUFFICES ASSUME Inv, [Next]_vars PROVE Inv'
    OBVIOUS
  <2>1. CASE Cluster
    BY <2>1, ClusterStep
  <2>2. CASE \E answers \in BOOLEAN : Start(answers)
    BY <2>2, StartStep
  <2>3. CASE \/ Boot \/ GetNodesFails \/ persist
             \/ \E answers \in BOOLEAN : checkUsage(answers)
             \/ \E n \in Node : ReadNode(n) \/ ReadFails(n)
    BY <2>3, SweepStep
  <2>4. CASE applySweep
    BY <2>4, ApplySweepStep
  <2>5. CASE \E n \in Node : applySample(n)
    BY <2>5, ApplySampleStep
  <2>6. CASE \E answers \in BOOLEAN, n \in Node : SampleNode(n, answers)
    BY <2>6, SampleNodeStep
  <2>7. CASE cleanup \/ Lapse \/ Elapse
    BY <2>7, TimeStep
  <2>8. CASE Crash
    BY <2>8, CrashStep
  <2>9. CASE UNCHANGED vars
    BY <2>9 DEF vars, Inv, TypeOK, OwedIsCached, NothingOwedYet, NotEndedWhileFull, OpenIsWatched
  <2>10. QED
    BY <2>1, <2>2, <2>3, <2>4, <2>5, <2>6, <2>7, <2>8, <2>9 DEF Next
<1>2. QED
  BY <1>1, InitInv, PTL DEF Spec

(* Every variable has its type, whatever is read in whatever order.        *)
THEOREM TypeCorrect == Spec => []TypeOK
BY Invariant, PTL DEF Inv

(***************************************************************************)
(* The monitor ends no incident of a volume that it reported, or restored  *)
(* as full, until a read finds the volume emptier or its claim is gone.    *)
(***************************************************************************)
THEOREM NeverEndedWhileFull == Spec => []NotEndedWhileFull
BY Invariant, PTL DEF Inv

(***************************************************************************)
(* What is open is where the sweep looks for what to resolve, as long as   *)
(* the clean-up has not emptied it.                                        *)
(***************************************************************************)
THEOREM OpenAlwaysWatched == Spec => []OpenIsWatched
BY Invariant, PTL DEF Inv
=============================================================================
