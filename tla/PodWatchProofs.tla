--------------------------- MODULE PodWatchProofs ---------------------------
(***************************************************************************)
(* What kwatch tells of pods, for any pods, workloads, containers, reasons *)
(* and filters: the loop over a pod's containers is taken step by step,    *)
(* and a worker's sync is what the loop has done when it ends.             *)
(***************************************************************************)
EXTENDS PodWatch, WellFoundedInduction, TLAPS

-----------------------------------------------------------------------------
(* The inductive invariant.                                                *)

(* A status is one the kubelet can get a container into: what waits was    *)
(* never started or has crashed, what was restarted has a termination.     *)
Began(s) ==
  \/ s.restarts = 0 /\ s.last = Nothing
  \/ s.last # Nothing /\ s.last.n = s.restarts - 1

Sound(s) ==
  \/ /\ s.is = "waiting" /\ s.reason \in Waits \cup {"ContainerCreating"}
     /\ s.restarts = 0 /\ s.last = Nothing
  \/ /\ s.is = "waiting" /\ s.reason = "CrashLoopBackOff"
     /\ s.last # Nothing /\ s.last.n = s.restarts
  \/ s.is = "running" /\ s.reason = "" /\ Began(s)
  \/ s.is = "terminated" /\ s.reason \in Failures \cup {"Completed"} /\ Began(s)

(* The n-th instance of a container with status s has ended, and where the *)
(* status still tells why, it was for reason r.                            *)
Ended(s, n, r) ==
  /\ \/ n < s.restarts
     \/ n = s.restarts /\ s.is = "terminated"
     \/ n = s.restarts /\ s.is = "waiting" /\ s.last # Nothing
  /\ s.last # Nothing /\ s.last.n = n => s.last.reason = r
  /\ s.is = "terminated" /\ s.restarts = n => s.reason = r

(* What the engine remembers of a pod is of an instance that has ended,    *)
InstanceOf(l, statuses) ==
  l # Nothing => \A c \in Container, n \in 0 .. MaxRestarts :
                   l.on = Started(c, n) => Ended(statuses[c], n, l.reason)

(* and there is, or was, an incident that the pod takes part in for it.    *)
IncidentOf(l, p, incidents) ==
  l # Nothing => \E x \in incidents : /\ x[2] = p
                                      /\ x[1][2] \in {KeyReason(l.reason), "HighRestartCount"}

(* No container restarted more often than the one that is remembered.      *)
NoneSince(l, p) ==
  l # Nothing => \A c \in Range(Status(p)) : container[p][c].restarts <= l.restarts

(* Of a pod that was broken at the start, the baseline has what stands for *)
(* it, and nothing was told but of its restarts.                           *)
OnlyRestarts(p, incidents) == \A x \in incidents : x[2] = p => x[1][2] = "HighRestartCount"

Baselined(p) ==
  /\ Present(p)
  /\ Recognised(p) =>
       SeededKeys(p) \X {p} \subseteq seen /\ NoneSince(last[p], p) /\ OnlyRestarts(p, open)

PodInv(p) ==
  /\ \A c \in Container : Sound(container[p][c])
  /\ Present(p) => InstanceOf(last[p], container[p])
  /\ IncidentOf(last[p], p, open \cup lapsed)
  /\ p \in broken => Baselined(p)
  /\ p \in recovered => \A x \in seen : x[2] # p
  /\ p \in synced =>
       /\ ~ Present(p) => last[p] = Nothing
       /\ \A c \in Range(Status(p)) :
            Crashing(p, c) => Told(p, {ReasonOf(container[p][c].last.reason), "HighRestartCount"})
       /\ Reportable(p) => Told(p, Reason)

Inv == TypeOK /\ \A p \in Pod : PodInv(p)

-----------------------------------------------------------------------------
(* The loop over the containers, by induction.                             *)

(* What holds at 0 and of i + 1 whenever it holds of i holds up to n.      *)
LEMMA Induction ==
  ASSUME NEW n \in Nat, NEW S, 0 \in S, \A i \in 0 .. n - 1 : i \in S => i + 1 \in S
  PROVE  \A i \in 0 .. n : i \in S
<1> DEFINE T == {i \in 0 .. n : i \notin S}
<1>1. SUFFICES ASSUME T # {} PROVE FALSE
  OBVIOUS
<1>2. T \subseteq Nat
  OBVIOUS
<1>3. PICK x \in T : \A y \in T : ~ (<<y, x>> \in OpToRel(<, Nat))
  BY <1>1, <1>2, NatLessThanWellFounded, WFMin
<1>4. \A y \in T : ~ (y < x)
  BY <1>2, <1>3 DEF OpToRel
<1>5. x \in 1 .. n /\ x - 1 \in 0 .. n - 1
  OBVIOUS
<1>6. x - 1 \in S
  BY <1>4, <1>5
<1>7. x - 1 + 1 = x
  BY <1>5
<1>8. QED
  BY <1>5, <1>6, <1>7

(* The pod p after the turns of the loop up to the last one.               *)
After(p, e0, f) ==
  f = [i \in 0 .. Len(Status(p)) |->
         IF i = 0 THEN e0 ELSE executeContainerFilters(p, Status(p)[i], f[i - 1])]

(* The turns exist: a loop over finitely many containers ends.             *)
LEMMA LoopEnds ==
  ASSUME NEW p, NEW e0, Len(Status(p)) \in Nat
  PROVE  \E f : After(p, e0, f) /\ executeContainersFilters(p, e0) = f[Len(Status(p))]
<1> DEFINE n       == Len(Status(p))
           Turn(c, e) == executeContainerFilters(p, c, e)
           Upto(m, f) == f = [i \in 0 .. m |-> IF i = 0 THEN e0 ELSE Turn(Status(p)[i], f[i - 1])]
           S == {m \in 0 .. n : \E f : Upto(m, f)}
<1> n \in Nat
  OBVIOUS
<1> HIDE DEF n, Turn
<1>1. 0 \in S
  <2>1. Upto(0, [i \in 0 .. 0 |-> e0])
    OBVIOUS
  <2> HIDE DEF Upto
  <2>2. \E f : Upto(0, f)
    BY <2>1, Zenon
  <2>3. QED
    BY <2>2
<1>2. ASSUME NEW m \in 0 .. n - 1, m \in S
      PROVE  m + 1 \in S
  <2>1. PICK f : Upto(m, f)
    BY <1>2
  <2> DEFINE g == [i \in 0 .. m + 1 |-> IF i = m + 1 THEN Turn(Status(p)[m + 1], f[m]) ELSE f[i]]
  <2>2. \A i \in 0 .. m : g[i] = f[i]
    OBVIOUS
  <2>3. \A i \in 0 .. m : f[i] = IF i = 0 THEN e0 ELSE Turn(Status(p)[i], f[i - 1])
    BY <2>1
  <2>4. \A i \in 0 .. m + 1 : g[i] = IF i = 0 THEN e0 ELSE Turn(Status(p)[i], g[i - 1])
    <3> TAKE i \in 0 .. m + 1
    <3>1. CASE i = 0
      BY <3>1, <2>2, <2>3
    <3>2. CASE i = m + 1
      <4>1. g[i] = Turn(Status(p)[m + 1], f[m]) /\ i - 1 = m /\ i # 0
        BY <3>2
      <4>2. QED
        BY <4>1, <2>2, <3>2
    <3>3. CASE i \in 1 .. m
      <4>1. i - 1 \in 0 .. m /\ i \in 0 .. m /\ i # 0
        BY <3>3
      <4>2. QED
        BY <4>1, <2>2, <2>3
    <3>4. QED
      BY <3>1, <3>2, <3>3
  <2> HIDE DEF g
  <2>5. g = [i \in 0 .. m + 1 |-> g[i]]
    BY DEF g
  <2>6. Upto(m + 1, g)
    BY <2>4, <2>5
  <2>7. QED
    BY <2>6
<1>3. \E f : Upto(n, f)
  <2>1. \A i \in 0 .. n : i \in S
    <3> HIDE DEF S
    <3>1. QED
      BY <1>1, <1>2, Induction
  <2>2. n \in S
    <3> HIDE DEF S
    <3>1. QED
      BY <2>1
  <2> HIDE DEF Upto
  <2>3. QED
    BY <2>2
<1> DEFINE after[i \in 0 .. n] == IF i = 0 THEN e0 ELSE Turn(Status(p)[i], after[i - 1])
<1>4. Upto(n, after)
  BY <1>3, Zenon
<1>5. executeContainersFilters(p, e0) = after[n]
  BY Zenon DEF executeContainersFilters, n, Turn
<1>6. QED
  BY <1>4, <1>5 DEF After, n, Turn

-----------------------------------------------------------------------------
(* What is known of statuses, keys and states.                             *)

LEMMA Statuses ==
  ASSUME TypeOK, NEW p \in Pod
  PROVE  /\ Len(Status(p)) \in Nat
         /\ Range(Status(p)) \subseteq Container
         /\ \A i \in 1 .. Len(Status(p)) : Status(p)[i] \in Range(Status(p))
         /\ \A c \in Range(Status(p)) : \E i \in 1 .. Len(Status(p)) : c = Status(p)[i]
<1>1. spec[p] \in Specs
  BY DEF TypeOK
<1>2. spec[p].containers \in Seq(Container)
  BY <1>1, PodWatchAssumption
<1>3. Status(p) \in Seq(Container)
  BY <1>2 DEF Status
<1>4. DOMAIN Status(p) = 1 .. Len(Status(p)) /\ \A i \in 1 .. Len(Status(p)) : Status(p)[i] \in Container
  BY <1>3
<1>5. \A c \in Range(Status(p)) : \E i \in DOMAIN Status(p) : c = Status(p)[i]
  BY Zenon DEF Range
<1>6. \A i \in DOMAIN Status(p) : Status(p)[i] \in Range(Status(p))
  BY Zenon DEF Range
<1>7. Len(Status(p)) \in Nat
  BY <1>3
<1> HIDE DEF Status
<1>8. QED
  BY <1>4, <1>5, <1>6, <1>7

LEMMA StatusTyped ==
  ASSUME TypeOK, NEW p \in Pod, NEW c \in Container
  PROVE  container[p][c] \in ContainerStatus
  BY DEF TypeOK

LEMMA Reasons ==
  /\ "" \notin Reason /\ "ContainerCreating" \notin Reason
  /\ \A r \in Reason : KeyReason(r) \in Reason
  /\ \A r \in Failures \cup {"Completed"} : KeyReason(r) = ReasonOf(r)
  /\ \A r \in Failures \cup Waits : r \notin SpecialReasons
  BY PodWatchAssumption DEF Reason, KeyReason, ReasonOf, normalizeReason, SpecialReasons

LEMMA Keys ==
  ASSUME NEW owner, NEW reason \in Reason, reason # "CrashLoopBackOff", NEW restarts
  PROVE  IncidentKey(owner, reason, restarts) = <<owner, KeyReason(reason)>>
  BY DEF IncidentKey

LEMMA Owners ==
  ASSUME TypeOK, NEW p \in Pod
  PROVE  /\ Owner(p) \in Workload \cup {NoOwner}
         /\ ResolveOwnerName(p) \in Workload \cup Pod \cup {NoOwner}
  BY DEF TypeOK, Owner, ResolveOwnerName

-----------------------------------------------------------------------------
(* A worker's sync of pod p: what holds of e, the part of the engine that  *)
(* the sync changes, after each of its steps.                              *)

Synced(p, e) ==
  /\ e.open \subseteq Key \X Pod /\ e.last \in {Nothing} \cup ContainerState
  /\ open \subseteq e.open
  /\ \A x \in e.open \ open : x[2] = p /\ (DisruptionFilter(p) => x[1][2] = "HighRestartCount")
  /\ InstanceOf(e.last, container[p])
  /\ IncidentOf(e.last, p, e.open \cup lapsed)
  /\ p \in broken /\ Recognised(p) => OnlyRestarts(p, e.open) /\ NoneSince(e.last, p)

ToldIn(incidents, p, reasons) ==
  \E x \in incidents \cup seen \cup lapsed : x[2] = p /\ x[1][2] \in reasons

(* signalEvent keeps it, if what it is told was seen in the pod's status   *)
(* and is in the baseline where it should be, and the pod is then known    *)
(* under the reason, unless its node silences it.                          *)
LEMMA SignalKeeps ==
  ASSUME TypeOK, NEW p \in Pod, NEW e, Synced(p, e),
         NEW owner \in Workload \cup Pod \cup {NoOwner},
         NEW reason \in Reason \ {"CrashLoopBackOff"}, NEW state \in ContainerState,
         KeyReason(reason) \in {KeyReason(state.reason), "HighRestartCount"},
         InstanceOf(state, container[p]),
         DisruptionFilter(p) => reason = "HighRestartCount",
         p \in broken /\ Recognised(p) =>
           \/ isBaselined(IncidentKey(owner, reason, state.restarts), p)
           \/ reason = "HighRestartCount" /\ NoneSince(state, p)
  PROVE  LET e2 == signalEvent(e, p, owner, reason, state) IN
           /\ Synced(p, e2)
           /\ e.open \subseteq e2.open
           /\ ~ Inhibited(p) => ToldIn(e2.open, p, {KeyReason(reason)})
<1> DEFINE key == IncidentKey(owner, reason, state.restarts)
           e2  == signalEvent(e, p, owner, reason, state)
<1>1. key = <<owner, KeyReason(reason)>> /\ key \in Key
  <2>1. reason \in Reason /\ reason # "CrashLoopBackOff" /\ KeyReason(reason) \in Reason
    BY Reasons
  <2>2. key = <<owner, KeyReason(reason)>>
    BY <2>1, Keys
  <2>3. QED
    BY <2>1, <2>2 DEF Key
<1>2. KeyReason("HighRestartCount") = "HighRestartCount"
  BY PodWatchAssumption DEF KeyReason, ReasonOf, normalizeReason, SpecialReasons
<1>3. key[2] = KeyReason(reason)
  BY <1>1
<1> HIDE DEF key
<1>4. CASE isBaselined(key, p) \/ Inhibited(p)
  <2>1. e2 = e
    BY <1>4 DEF signalEvent, key
  <2>2. isBaselined(key, p) => <<key, p>> \in seen
    BY DEF isBaselined
  <2>3. isBaselined(key, p) => ToldIn(e.open, p, {KeyReason(reason)})
    BY <2>2, <1>3 DEF ToldIn
  <2>4. QED
    BY <1>4, <2>1, <2>3
<1>5. CASE ~ (isBaselined(key, p) \/ Inhibited(p))
  <2>1. e2 = [open |-> e.open \cup {<<key, p>>}, last |-> state]
    BY <1>5 DEF signalEvent, key
  <2>2. e2.open = e.open \cup {<<key, p>>} /\ e2.last = state
    BY <2>1
  <2> HIDE DEF e2
  <2>3. e2.open \subseteq Key \X Pod /\ e2.last \in {Nothing} \cup ContainerState /\ open \subseteq e2.open
    BY <2>2, <1>1 DEF Synced
  <2>4. \A x \in e2.open \ open : x[2] = p /\ (DisruptionFilter(p) => x[1][2] = "HighRestartCount")
    BY <2>2, <1>2, <1>3 DEF Synced
  <2>5. InstanceOf(e2.last, container[p])
    BY <2>2
  <2>6. IncidentOf(e2.last, p, e2.open \cup lapsed)
    <3>1. <<key, p>> \in e2.open /\ <<key, p>>[2] = p /\ <<key, p>>[1][2] = KeyReason(reason)
      BY <2>2, <1>3
    <3>2. QED
      BY <3>1, <2>2 DEF IncidentOf
  <2>7. p \in broken /\ Recognised(p) => OnlyRestarts(p, e2.open) /\ NoneSince(e2.last, p)
    <3>1. SUFFICES ASSUME p \in broken /\ Recognised(p)
                   PROVE  OnlyRestarts(p, e2.open) /\ NoneSince(e2.last, p)
      OBVIOUS
    <3>2. reason = "HighRestartCount" /\ NoneSince(state, p)
      BY <3>1, <1>5 DEF key
    <3>3. OnlyRestarts(p, e.open)
      BY <3>1 DEF Synced
    <3>4. OnlyRestarts(p, e2.open)
      BY <3>2, <3>3, <2>2, <1>2, <1>3 DEF OnlyRestarts
    <3>5. QED
      BY <3>2, <3>4, <2>2
  <2>8. Synced(p, e2)
    BY <2>3, <2>4, <2>5, <2>6, <2>7 DEF Synced
  <2>9. ToldIn(e2.open, p, {KeyReason(reason)})
    <3>1. <<key, p>> \in e2.open /\ <<key, p>>[2] = p /\ <<key, p>>[1][2] = KeyReason(reason)
      BY <2>2, <1>3
    <3>2. QED
      BY <3>1 DEF ToldIn
  <2>10. QED
    BY <2>2, <2>8, <2>9 DEF e2
<1>6. QED
  BY <1>4, <1>5

-----------------------------------------------------------------------------
(* One container.                                                          *)

(* What the pod's containers owe to the kubelet, and the pod to the seed.  *)
SoundPod(p) ==
  /\ \A c \in Container : Sound(container[p][c])
  /\ p \in broken /\ Recognised(p) => SeededKeys(p) \X {p} \subseteq seen

LEMMA StateTyped ==
  ASSUME NEW l \in {Nothing} \cup ContainerState, l # Nothing
  PROVE  /\ l.reason \in Reason /\ l.restarts \in 0 .. MaxRestarts
         /\ l.on \in {Zero} \cup (Container \X (0 .. MaxRestarts))
  BY DEF ContainerState

(* A container that restarted, or crashed, has a termination that says why.*)
LEMMA SoundHasLast ==
  ASSUME TypeOK, NEW p \in Pod, NEW c \in Container, Sound(container[p][c]),
         container[p][c].restarts > 0 \/ container[p][c].reason = "CrashLoopBackOff"
  PROVE  LET s == container[p][c] IN
           /\ s.last # Nothing
           /\ s.last.reason \in Failures \cup {"Completed"}
           /\ s.last.n \in 0 .. MaxRestarts
           /\ Ended(s, s.last.n, s.last.reason)
<1> DEFINE s == container[p][c]
<1>1. s \in ContainerStatus
  BY StatusTyped
<1> HIDE DEF s
<1>2. s.restarts \in 0 .. MaxRestarts /\ MaxRestarts \in Nat /\ s.last \in Termination
  BY <1>1, PodWatchAssumption DEF ContainerStatus
<1>3. Sound(s) /\ (s.restarts > 0 \/ s.reason = "CrashLoopBackOff")
  BY DEF s
<1>4. s.reason = "CrashLoopBackOff" => s.is = "waiting" /\ s.last # Nothing /\ s.last.n = s.restarts
  BY <1>3, PodWatchAssumption DEF Sound, SpecialReasons
<1>5. s.reason # "CrashLoopBackOff" => s.is # "waiting" /\ s.last # Nothing /\ s.last.n = s.restarts - 1
  <2>1. SUFFICES ASSUME s.reason # "CrashLoopBackOff"
                 PROVE  s.is # "waiting" /\ s.last # Nothing /\ s.last.n = s.restarts - 1
    OBVIOUS
  <2>2. s.restarts # 0
    BY <1>2, <1>3, <2>1
  <2>3. s.is \in {"running", "terminated"} /\ Began(s)
    BY <1>3, <2>1, <2>2 DEF Sound
  <2>4. QED
    BY <2>2, <2>3 DEF Began
<1>6. s.last # Nothing /\ s.last.n \in {s.restarts, s.restarts - 1}
  BY <1>4, <1>5
<1>7. s.last \in [reason : Failures \cup {"Completed"}, n : 0 .. MaxRestarts]
  BY <1>2, <1>6 DEF Termination
<1>8. s.last.reason \in Failures \cup {"Completed"} /\ s.last.n \in 0 .. MaxRestarts
  BY <1>7
<1>9. Ended(s, s.last.n, s.last.reason)
  <2>1. CASE s.reason = "CrashLoopBackOff"
    BY <1>4, <2>1 DEF Ended
  <2>2. CASE s.reason # "CrashLoopBackOff"
    BY <1>5, <2>2, <1>2, <1>8 DEF Ended
  <2>3. QED
    BY <2>1, <2>2
<1>10. QED
  BY <1>6, <1>8, <1>9 DEF s

(* What a container that is not skipped is told of for.                    *)
LEMMA FailureIs ==
  ASSUME TypeOK, NEW p \in Pod, NEW c \in Container, Sound(container[p][c]),
         NEW e, e.last \in {Nothing} \cup ContainerState,
         ~ ContainerStateFilter(container[p][c], e)
  PROVE  LET s       == container[p][c]
             failure == Failure(c, s, e)
             state   == [reason |-> failure.reason, on |-> failure.on, restarts |-> s.restarts]
         IN /\ failure.reason \in Failures \cup Waits \cup {"Completed"}
            /\ state \in ContainerState
            /\ state.reason = failure.reason /\ state.restarts = s.restarts
            /\ InstanceOf(state, container[p])
            /\ ~ HasRestarts(s, e) /\ s.reason # "CrashLoopBackOff" =>
                 failure.reason = s.reason /\ s.reason \in Failures \cup Waits
<1> DEFINE s       == container[p][c]
           failure == Failure(c, s, e)
           state   == [reason |-> failure.reason, on |-> failure.on, restarts |-> s.restarts]
<1>1. s \in ContainerStatus
  BY StatusTyped
<1>2. Sound(s) /\ s = container[p][c] /\ ~ ContainerStateFilter(s, e)
  OBVIOUS
<1>3. HasRestarts(s, e) => s.restarts > 0
  <2>1. SUFFICES ASSUME HasRestarts(s, e) PROVE s.restarts > 0
    OBVIOUS
  <2>2. e.last # Nothing /\ s.restarts > e.last.restarts
    BY <2>1 DEF HasRestarts
  <2>3. e.last.restarts \in 0 .. MaxRestarts
    BY <2>2, StateTyped, Zenon
  <2> HIDE DEF s
  <2>4. s.restarts \in 0 .. MaxRestarts /\ MaxRestarts \in Nat
    BY <1>1, PodWatchAssumption DEF ContainerStatus
  <2>5. QED
    BY <2>2, <2>3, <2>4
<1>4. s.restarts > 0 \/ s.reason = "CrashLoopBackOff" =>
        /\ s.last # Nothing /\ s.last.reason \in Failures \cup {"Completed"}
        /\ s.last.n \in 0 .. MaxRestarts
        /\ Ended(s, s.last.n, s.last.reason)
  BY SoundHasLast
<1> HIDE DEF s
<1>5. s.restarts \in 0 .. MaxRestarts /\ MaxRestarts \in Nat
  BY <1>1, PodWatchAssumption DEF ContainerStatus
<1>6. \E n \in 0 .. MaxRestarts, r \in Failures \cup Waits \cup {"Completed"} :
        /\ failure.reason = r
        /\ (failure.on = Started(c, n) /\ Ended(s, n, r)) \/ failure.on = Zero
        /\ ~ HasRestarts(s, e) /\ s.reason # "CrashLoopBackOff" =>
             r = s.reason /\ r \in Failures \cup Waits
  <2>1. CASE s.reason = "CrashLoopBackOff" \/ HasRestarts(s, e)
    <3>1. failure = [reason |-> s.last.reason, on |-> Started(c, s.last.n)]
      BY <1>3, <1>4, <2>1 DEF Failure
    <3>2. failure.reason = s.last.reason /\ failure.on = Started(c, s.last.n)
      BY <3>1
    <3> HIDE DEF failure
    <3>3. QED
      BY <3>2, <1>3, <1>4, <2>1
  <2>2. CASE ~ (s.reason = "CrashLoopBackOff" \/ HasRestarts(s, e))
    <3>1. failure = [reason |-> s.reason,
                     on |-> IF s.is = "terminated" THEN Started(c, s.restarts) ELSE Zero]
      BY <2>2 DEF Failure
    <3>2. failure.reason = s.reason
          /\ failure.on = IF s.is = "terminated" THEN Started(c, s.restarts) ELSE Zero
      BY <3>1
    <3> HIDE DEF failure
    <3>3. s.is \in {"waiting", "terminated"} /\ s.reason \in Failures \cup Waits
      BY <1>2, <2>2 DEF Sound, ContainerStateFilter
    <3>4. s.is = "terminated" => Ended(s, s.restarts, s.reason)
      BY <1>2, <1>5 DEF Sound, Began, Ended
    <3>5. QED
      BY <3>2, <3>3, <3>4, <1>5, <2>2
  <2>3. QED
    BY <2>1, <2>2
<1>7. PICK n \in 0 .. MaxRestarts, r \in Failures \cup Waits \cup {"Completed"} :
        /\ failure.reason = r
        /\ (failure.on = Started(c, n) /\ Ended(s, n, r)) \/ failure.on = Zero
        /\ ~ HasRestarts(s, e) /\ s.reason # "CrashLoopBackOff" =>
             r = s.reason /\ r \in Failures \cup Waits
  BY <1>6
<1> HIDE DEF failure
<1>8. state.reason = r /\ state.restarts = s.restarts /\ state.on = failure.on
  BY <1>7
<1>9. state \in ContainerState
  BY <1>5, <1>7 DEF ContainerState, Reason, Started
<1> HIDE DEF state
<1>10. InstanceOf(state, container[p])
  <2>1. SUFFICES ASSUME NEW d \in Container, NEW m \in 0 .. MaxRestarts, state.on = Started(d, m)
                 PROVE  Ended(container[p][d], m, state.reason)
    BY DEF InstanceOf
  <2>2. d = c /\ m = n /\ Ended(s, n, r)
    BY <1>7, <1>8, <2>1 DEF Started, Zero
  <2>3. QED
    BY <1>2, <1>8, <2>2
<1>11. QED
  BY <1>7, <1>8, <1>9, <1>10 DEF s, failure, state

(* Told of its restarts, a pod is told of the container with the most.     *)
LEMMA HighRestartKeeps ==
  ASSUME TypeOK, NEW p \in Pod, SoundPod(p), NEW c \in Range(Status(p)),
         NEW e, Synced(p, e), container[p][c].restarts > 0
  PROVE  LET e2 == emitHighRestartAlert(p, container[p][c], e) IN
           Synced(p, e2) /\ e.open \subseteq e2.open
<1> DEFINE s     == container[p][c]
           state == [reason |-> s.last.reason, on |-> Zero, restarts |-> s.restarts]
           owner == ResolveOwnerName(p)
<1>1. c \in Container /\ s \in ContainerStatus /\ Range(Status(p)) \subseteq Container
  BY Statuses, StatusTyped
<1>2. Sound(s)
  BY <1>1 DEF SoundPod
<1>3. s.last.reason \in Failures \cup {"Completed"}
  BY <1>1, <1>2, SoundHasLast
<1>4. state.reason = s.last.reason /\ state.on = Zero /\ state.restarts = s.restarts
  OBVIOUS
<1>5. s.restarts \in 0 .. MaxRestarts /\ s.restarts > 0 /\ MaxRestarts \in Nat
  BY <1>1, PodWatchAssumption DEF ContainerStatus
<1>6. state \in ContainerState
  BY <1>3, <1>5 DEF ContainerState, Reason
<1>7. p \in broken /\ Recognised(p) => NoneSince(state, p)
  <2>1. SUFFICES ASSUME p \in broken /\ Recognised(p), NEW d \in Range(Status(p))
                 PROVE  container[p][d].restarts <= state.restarts
    BY DEF NoneSince
  <2>2. container[p][d].restarts > 0 /\ container[p][c].restarts > 0 => c = d
    BY <2>1, Zenon DEF Recognised
  <2>3. container[p][d].restarts \in 0 .. MaxRestarts
    BY <1>1, StatusTyped DEF ContainerStatus
  <2>4. QED
    BY <1>4, <1>5, <2>2, <2>3
<1> HIDE DEF state
<1>8. InstanceOf(state, container[p])
  <2>1. \A d, m : Zero # Started(d, m)
    BY DEF Started, Zero
  <2>2. QED
    BY <1>4, <2>1 DEF InstanceOf
<1>9. KeyReason("HighRestartCount") = "HighRestartCount"
  BY PodWatchAssumption DEF KeyReason, ReasonOf, normalizeReason, SpecialReasons
<1>10. "HighRestartCount" \in Reason \ {"CrashLoopBackOff"}
  BY DEF Reason
<1> DEFINE e2 == signalEvent(e, p, owner, "HighRestartCount", state)
<1>11. owner \in Workload \cup Pod \cup {NoOwner}
  BY Owners
<1> HIDE DEF owner
<1>12. Synced(p, e2) /\ e.open \subseteq e2.open
  BY <1>6, <1>7, <1>8, <1>9, <1>10, <1>11, SignalKeeps
<1> HIDE DEF e2
<1>13. emitHighRestartAlert(p, s, e) \in {e, e2}
  BY DEF emitHighRestartAlert, e2, state, owner
<1>14. QED
  BY <1>12, <1>13

(* A container that no detector skips is told of, unless it was at the     *)
(* start, when the baseline knows its key.                                 *)
LEMMA FailureKeeps ==
  ASSUME TypeOK, NEW p \in Pod, SoundPod(p), NEW c \in Range(Status(p)),
         NEW e, Synced(p, e), ~ DisruptionFilter(p), ~ ContainerStateFilter(container[p][c], e)
  PROVE  LET s       == container[p][c]
             failure == Failure(c, s, e)
             e2      == signalEvent(e, p, Owner(p), failure.reason,
                          [reason |-> failure.reason, on |-> failure.on, restarts |-> s.restarts])
         IN /\ Synced(p, e2)
            /\ e.open \subseteq e2.open
            /\ ~ Inhibited(p) => ToldIn(e2.open, p, {KeyReason(failure.reason)})
            /\ failure.reason \in Reason
<1> DEFINE s       == container[p][c]
           failure == Failure(c, s, e)
           state   == [reason |-> failure.reason, on |-> failure.on, restarts |-> s.restarts]
<1>1. c \in Container /\ s \in ContainerStatus /\ Range(Status(p)) \subseteq Container
  BY Statuses, StatusTyped
<1>2. Sound(s)
  BY <1>1 DEF SoundPod
<1>3. e.last \in {Nothing} \cup ContainerState
  BY DEF Synced
<1>4. /\ failure.reason \in Failures \cup Waits \cup {"Completed"}
      /\ state \in ContainerState
      /\ state.reason = failure.reason /\ state.restarts = s.restarts
      /\ InstanceOf(state, container[p])
      /\ ~ HasRestarts(s, e) /\ s.reason # "CrashLoopBackOff" =>
           failure.reason = s.reason /\ s.reason \in Failures \cup Waits
  BY <1>1, <1>2, <1>3, FailureIs
<1>5. failure.reason \in Reason \ {"CrashLoopBackOff"}
  BY <1>4, PodWatchAssumption DEF Reason, SpecialReasons
<1>6. Owner(p) \in Workload \cup {NoOwner}
  BY Owners
<1> HIDE DEF failure, state
<1>7. p \in broken /\ Recognised(p) => isBaselined(IncidentKey(Owner(p), failure.reason, state.restarts), p)
  <2>1. SUFFICES ASSUME p \in broken /\ Recognised(p)
                 PROVE  isBaselined(IncidentKey(Owner(p), failure.reason, state.restarts), p)
    OBVIOUS
  <2>2. e.last # Nothing => s.restarts <= e.last.restarts
    BY <2>1 DEF Synced, NoneSince
  <2>3. ~ HasRestarts(s, e)
    <3>1. e.last # Nothing => e.last.restarts \in 0 .. MaxRestarts
      BY <1>3, StateTyped, Zenon
    <3>2. s.restarts \in 0 .. MaxRestarts /\ MaxRestarts \in Nat
      BY <1>1, PodWatchAssumption DEF ContainerStatus
    <3> HIDE DEF s
    <3>3. QED
      BY <2>2, <3>1, <3>2 DEF HasRestarts
  <2>4. s.reason # "CrashLoopBackOff"
    BY <2>1, Zenon DEF Recognised
  <2>5. failure.reason = s.reason /\ s.reason \in Failures \cup Waits
    BY <1>4, <2>3, <2>4
  <2>6. <<s.reason, s.restarts>> \in SeededReasons(p)
    BY <2>5, PodWatchAssumption DEF SeededReasons, SpecialReasons
  <2>7. spec[p].owner \in resolvable /\ Phase(p) \notin {"Running", "Succeeded"}
    BY <2>1 DEF Recognised
  <2>8. spec[p].owner # NoOwner
    BY <2>7, PodWatchAssumption DEF TypeOK
  <2>9. ResolveOwnerName(p) = Owner(p) /\ Owner(p) # NoOwner
    BY <2>7, <2>8 DEF ResolveOwnerName, Owner
  <2>10. SeededKeys(p) = {IncidentKey(ResolveOwnerName(p), r[1], r[2]) : r \in SeededReasons(p)}
    BY <2>6, <2>7, <2>9 DEF SeededKeys
  <2>11. IncidentKey(Owner(p), s.reason, s.restarts) \in SeededKeys(p)
    <3> DEFINE r == <<s.reason, s.restarts>>
    <3>1. r \in SeededReasons(p) /\ r[1] = s.reason /\ r[2] = s.restarts
      BY <2>6
    <3> HIDE DEF r, s
    <3>2. QED
      BY <2>9, <2>10, <3>1
  <2>12. SeededKeys(p) \X {p} \subseteq seen
    BY <2>1 DEF SoundPod
  <2>13. QED
    BY <1>4, <2>5, <2>11, <2>12 DEF isBaselined
<1> DEFINE e2 == signalEvent(e, p, Owner(p), failure.reason, state)
<1>8. /\ Synced(p, e2) /\ e.open \subseteq e2.open
      /\ ~ Inhibited(p) => ToldIn(e2.open, p, {KeyReason(failure.reason)})
  BY <1>4, <1>5, <1>6, <1>7, SignalKeeps
<1>9. QED
  BY <1>5, <1>8 DEF failure, state

(* What the engine remembers of a pod, it told.                            *)
LEMMA RememberedIsTold ==
  ASSUME NEW p \in Pod, NEW e, Synced(p, e), e.last # Nothing, NEW incidents, e.open \subseteq incidents
  PROVE  /\ ToldIn(incidents, p, {KeyReason(e.last.reason), "HighRestartCount"})
         /\ ToldIn(incidents, p, Reason)
<1>1. e.last \in {Nothing} \cup ContainerState
  BY DEF Synced
<1>2. e.last.reason \in Reason
  BY <1>1, StateTyped
<1>3. PICK x \in e.open \cup lapsed : x[2] = p /\ x[1][2] \in {KeyReason(e.last.reason), "HighRestartCount"}
  BY DEF Synced, IncidentOf
<1>4. {KeyReason(e.last.reason), "HighRestartCount"} \subseteq Reason
  BY <1>2, Reasons DEF Reason
<1>5. QED
  BY <1>3, <1>4 DEF ToldIn

(* The pod is on its way out in one of the ways that DisruptionFilter      *)
(* tells.                                                                  *)
LEMMA FilteredIsLeaving ==
  ASSUME TypeOK, NEW p \in Pod
  PROVE  DisruptionFilter(p) <=> Leaving(p)
<1>1. leaving[p] \in {"stays", "target", "evicted", "deleted"}
  BY DEF TypeOK
<1>2. leaving[p] = "evicted" => Phase(p) = "Failed"
  BY DEF Phase
<1>3. QED
  BY <1>1, <1>2 DEF DisruptionFilter, Leaving

(* What started in the same second as an instance that did so alone is it. *)
LEMMA AloneIsSame ==
  ASSUME NEW p, NEW c, NEW n, Alone(p, c, n), NEW on \in {Zero} \cup (Container \X (0 .. MaxRestarts)),
         SameTime(p, on, Started(c, n))
  PROVE  on = Started(c, n)
<1>1. CASE on = Zero
  BY <1>1 DEF SameTime
<1>2. CASE on \in Container \X (0 .. MaxRestarts)
  BY <1>2 DEF Alone
<1>3. QED
  BY <1>1, <1>2

(* One turn of the loop.                                                   *)
LEMMA TurnKeeps ==
  ASSUME TypeOK, NEW p \in Pod, SoundPod(p), NEW c \in Range(Status(p)), NEW e, Synced(p, e)
  PROVE  LET e2 == executeContainerFilters(p, c, e) IN
           /\ Synced(p, e2)
           /\ e.open \subseteq e2.open
           /\ Crashing(p, c) /\ ~ Inhibited(p) =>
                ToldIn(e2.open, p, {ReasonOf(container[p][c].last.reason), "HighRestartCount"})
           /\ Reported(p, c) /\ ~ Leaving(p) /\ ~ Inhibited(p) => ToldIn(e2.open, p, Reason)
<1> DEFINE s       == container[p][c]
           failure == Failure(c, s, e)
           e2      == executeContainerFilters(p, c, e)
           told    == signalEvent(e, p, Owner(p), failure.reason,
                        [reason |-> failure.reason, on |-> failure.on, restarts |-> s.restarts])
<1>1. c \in Container /\ s \in ContainerStatus
  BY Statuses, StatusTyped
<1>2. Sound(s)
  BY <1>1 DEF SoundPod
<1>3. e.last \in {Nothing} \cup ContainerState
  BY DEF Synced
<1>4. s.restarts \in 0 .. MaxRestarts /\ MaxRestarts \in Nat /\ ContainerRestartThreshold \in Nat
  BY <1>1, PodWatchAssumption DEF ContainerStatus
<1>5. CASE Skipped(p, c, s, e, failure)
  <2>1. e2 \in {e, emitHighRestartAlert(p, s, e)}
        /\ (e2 # e => ContainerRestartThreshold > 0 /\ s.restarts >= ContainerRestartThreshold)
    BY <1>5 DEF executeContainerFilters
  <2> HIDE DEF e2
  <2>2. e2 # e => s.restarts > 0
    BY <2>1, <1>4
  <2>3. Synced(p, e2) /\ e.open \subseteq e2.open
    BY <2>1, <2>2, HighRestartKeeps
  <2>4. e.last # Nothing =>
          /\ ToldIn(e2.open, p, {KeyReason(e.last.reason), "HighRestartCount"})
          /\ ToldIn(e2.open, p, Reason)
    BY <2>3, RememberedIsTold
  <2>5. ASSUME Crashing(p, c)
        PROVE  ToldIn(e2.open, p, {ReasonOf(s.last.reason), "HighRestartCount"})
    <3>1. s.reason = "CrashLoopBackOff" /\ s.is = "waiting"
      BY <1>2, <2>5, PodWatchAssumption DEF Crashing, Sound, SpecialReasons
    <3>2. s.last # Nothing /\ s.last.reason \in Failures \cup {"Completed"}
          /\ s.last.n \in 0 .. MaxRestarts
      BY <1>1, <1>2, <3>1, SoundHasLast
    <3>3. failure.reason = s.last.reason /\ failure.on = Started(c, s.last.n)
      BY <3>1, <3>2 DEF Failure
    <3> HIDE DEF failure
    <3>4. ToldBefore(p, failure, e)
      BY <1>5, <2>5, <3>1, <3>3, FilteredIsLeaving DEF Skipped, Crashing, ContainerStateFilter
    <3>5. e.last # Nothing /\ (e.last.on = Started(c, s.last.n) \/ e.last.reason = s.last.reason)
      <4>1. /\ e.last # Nothing
            /\ SameTime(p, e.last.on, Started(c, s.last.n)) \/ e.last.reason = s.last.reason
        BY <3>3, <3>4 DEF ToldBefore
      <4>2. e.last.on \in {Zero} \cup (Container \X (0 .. MaxRestarts))
        BY <1>3, <4>1, StateTyped
      <4>3. Alone(p, c, s.last.n)
        BY <2>5 DEF Crashing
      <4>4. QED
        BY <4>1, <4>2, <4>3, AloneIsSame
    <3>6. InstanceOf(e.last, container[p])
      BY DEF Synced
    <3>7. e.last.on = Started(c, s.last.n) => Ended(s, s.last.n, e.last.reason)
      BY <1>1, <3>2, <3>5, <3>6 DEF InstanceOf
    <3>8. e.last.reason = s.last.reason
      BY <3>2, <3>5, <3>7 DEF Ended
    <3>9. KeyReason(e.last.reason) = ReasonOf(s.last.reason)
      BY <3>2, <3>8, Reasons
    <3>10. QED
      BY <2>4, <3>5, <3>9
  <2>6. ASSUME Reported(p, c), ~ Leaving(p)
        PROVE  ToldIn(e2.open, p, Reason)
    <3>1. SUFFICES e.last # Nothing
      BY <2>4
    <3>2. SUFFICES ASSUME e.last = Nothing PROVE FALSE
      OBVIOUS
    <3>3. s.is # "running" /\ s.reason \notin {"ContainerCreating", "Completed"}
          /\ ~ (s.is = "terminated" /\ s.reason \in Stops)
      BY <1>2, <2>6, PodWatchAssumption DEF Sound, SpecialReasons, Reported, Failed
    <3>4. failure = Failure(c, s, [open |-> {}, last |-> Nothing])
      BY <3>2 DEF Failure, HasRestarts
    <3> HIDE DEF failure, s
    <3>5. c \notin ContainerNames /\ ReasonOf(failure.reason) \notin ForbiddenReasons
      BY <2>6, <3>4 DEF Reported, s
    <3>6. QED
      BY <1>5, <2>6, <3>2, <3>3, <3>5, FilteredIsLeaving DEF Skipped, ContainerStateFilter, ToldBefore
  <2>7. QED
    BY <2>3, <2>5, <2>6 DEF e2
<1>6. CASE ~ Skipped(p, c, s, e, failure)
  <2>1. ~ DisruptionFilter(p) /\ ~ ContainerStateFilter(s, e)
    BY <1>6 DEF Skipped
  <2>2. /\ Synced(p, told) /\ e.open \subseteq told.open
        /\ ~ Inhibited(p) => ToldIn(told.open, p, {KeyReason(failure.reason)})
        /\ failure.reason \in Reason
    BY <2>1, FailureKeeps
  <2>3. e2 = IF ContainerLogsFilter(c, s) THEN e ELSE told
    BY <1>6 DEF executeContainerFilters
  <2> HIDE DEF e2, told
  <2>4. Synced(p, e2) /\ e.open \subseteq e2.open
    BY <2>2, <2>3
  <2>5. c \notin LogPatterns /\ ~ Inhibited(p) => ToldIn(e2.open, p, Reason)
    <3>1. KeyReason(failure.reason) \in Reason
      BY <2>2, Reasons
    <3>2. QED
      BY <2>2, <2>3, <3>1 DEF ContainerLogsFilter, ToldIn
  <2>6. ASSUME Crashing(p, c), ~ Inhibited(p)
        PROVE  ToldIn(e2.open, p, {ReasonOf(s.last.reason), "HighRestartCount"})
    <3>1. s.reason = "CrashLoopBackOff" /\ c \notin LogPatterns
      BY <2>6 DEF Crashing
    <3>2. s.last # Nothing /\ s.last.reason \in Failures \cup {"Completed"}
      BY <1>1, <1>2, <3>1, SoundHasLast
    <3>3. failure.reason = s.last.reason
      BY <3>1, <3>2 DEF Failure
    <3> HIDE DEF failure
    <3>4. KeyReason(failure.reason) = ReasonOf(s.last.reason)
      BY <3>2, <3>3, Reasons
    <3>5. QED
      BY <2>2, <2>6, <2>3, <3>1, <3>4 DEF ContainerLogsFilter, ToldIn
  <2>7. Reported(p, c) => c \notin LogPatterns
    BY DEF Reported
  <2>8. QED
    BY <2>4, <2>5, <2>6, <2>7 DEF e2
<1>7. QED
  BY <1>5, <1>6

-----------------------------------------------------------------------------
(* One pod.                                                                *)

(* The pod has something to tell that is not of a container.               *)
PodFailing(p) ==
  \/ stage[p] = "refused" /\ "Unschedulable" \notin ForbiddenReasons
  \/ stage[p] \in {"bound", "kubelet"} /\ Phase(p) = "Pending" /\ p \in overdue

LEMMA PodFiltersKeep ==
  ASSUME TypeOK, NEW p \in Pod, SoundPod(p), NEW e, Synced(p, e)
  PROVE  LET e2 == executePodFilters(p, e) IN
           /\ Synced(p, e2)
           /\ e.open \subseteq e2.open
           /\ ~ Leaving(p) /\ PodFailing(p) /\ ~ Inhibited(p) => ToldIn(e2.open, p, Reason)
<1> DEFINE reason == IF PodReason(p) = "" THEN "PodPending" ELSE PodReason(p)
           state  == [reason |-> reason, on |-> Zero, restarts |-> 0]
           told   == signalEvent(e, p, Owner(p), reason, state)
           silent == DisruptionFilter(p) \/ PodStatusFilter(p, e)
                     \/ ~ (stage[p] = "refused" \/ PendingPodFilter(p, e))
           e2     == executePodFilters(p, e)
<1>1. e2 = IF silent THEN e ELSE told
  BY DEF executePodFilters
<1>2. stage[p] # "kubelet" => Phase(p) \in {"Pending", "Failed"} /\ Status(p) = <<>>
  BY DEF Phase, Status
<1>3. CASE silent
  <2>1. e2 = e
    BY <1>1, <1>3
  <2>2. ASSUME ~ Leaving(p), PodFailing(p), e.last = Nothing
        PROVE  FALSE
    <3>1. ~ DisruptionFilter(p)
      BY <2>2, FilteredIsLeaving
    <3>2. Phase(p) # "Succeeded" /\ stage[p] # "new"
      BY <2>2, <1>2 DEF PodFailing
    <3>3. ~ PodStatusFilter(p, e)
      BY <2>2, <3>2 DEF PodStatusFilter, PodFailing, PodReason
    <3>4. stage[p] = "refused" \/ PendingPodFilter(p, e)
      BY <2>2 DEF PodFailing, PendingPodFilter
    <3>5. QED
      BY <1>3, <3>1, <3>3, <3>4
  <2> HIDE DEF e2
  <2>3. e.last # Nothing => ToldIn(e2.open, p, Reason)
    BY <2>1, RememberedIsTold
  <2>4. QED
    BY <2>1, <2>2, <2>3 DEF e2
<1>4. CASE ~ silent
  <2>1. e2 = told /\ ~ DisruptionFilter(p) /\ (stage[p] = "refused" \/ PendingPodFilter(p, e))
    BY <1>1, <1>4
  <2>2. reason \in {"PodPending", "Unschedulable"}
    BY DEF PodReason
  <2>3. p \in broken /\ Recognised(p) => isBaselined(IncidentKey(Owner(p), reason, state.restarts), p)
    <3>1. SUFFICES ASSUME p \in broken /\ Recognised(p)
                   PROVE  isBaselined(IncidentKey(Owner(p), reason, 0), p)
      OBVIOUS
    <3>2. spec[p].owner \in resolvable /\ Phase(p) \notin {"Running", "Succeeded"} /\ p \notin overdue
      BY <3>1 DEF Recognised
    <3>3. stage[p] = "refused"
      BY <2>1, <3>2 DEF PendingPodFilter
    <3>4. reason = "Unschedulable"
      BY <3>3 DEF PodReason
    <3>5. SeededReasons(p) = {}
      BY <1>2, <3>3 DEF SeededReasons, Range
    <3>6. spec[p].owner # NoOwner
      BY <3>2, PodWatchAssumption DEF TypeOK
    <3>7. ResolveOwnerName(p) = Owner(p) /\ Owner(p) # NoOwner
      BY <3>2, <3>6 DEF ResolveOwnerName, Owner
    <3>8. SeededKeys(p) = {IncidentKey(Owner(p), "Unschedulable", 0)}
      BY <3>2, <3>3, <3>5, <3>7 DEF SeededKeys
    <3>9. QED
      BY <3>1, <3>4, <3>8 DEF SoundPod, isBaselined
  <2> HIDE DEF reason
  <2>4. state.reason = reason /\ state.on = Zero /\ state.restarts = 0
    OBVIOUS
  <2>5. reason \in Reason \ {"CrashLoopBackOff"} /\ state \in ContainerState
    BY <2>2, PodWatchAssumption DEF Reason, ContainerState
  <2> HIDE DEF state
  <2>6. InstanceOf(state, container[p])
    <3>1. \A d, m : Zero # Started(d, m)
      BY DEF Started, Zero
    <3>2. QED
      BY <2>4, <3>1 DEF InstanceOf
  <2>7. Owner(p) \in Workload \cup Pod \cup {NoOwner}
    BY Owners
  <2>8. /\ Synced(p, told) /\ e.open \subseteq told.open
        /\ ~ Inhibited(p) => ToldIn(told.open, p, {KeyReason(reason)})
    BY <2>1, <2>3, <2>4, <2>5, <2>6, <2>7, SignalKeeps
  <2> HIDE DEF told, e2
  <2>9. ~ Inhibited(p) => ToldIn(told.open, p, Reason)
    BY <2>5, <2>8, Reasons DEF ToldIn
  <2>10. QED
    BY <2>1, <2>8, <2>9 DEF e2
<1>5. QED
  BY <1>3, <1>4

(* The whole loop: nothing a turn has told is taken back by a later one.   *)
LEMMA LoopKeeps ==
  ASSUME TypeOK, NEW p \in Pod, SoundPod(p), NEW e, Synced(p, e)
  PROVE  LET e2 == executeContainersFilters(p, e) IN
           /\ Synced(p, e2)
           /\ e.open \subseteq e2.open
           /\ \A c \in Range(Status(p)) :
                /\ Crashing(p, c) /\ ~ Inhibited(p) =>
                     ToldIn(e2.open, p, {ReasonOf(container[p][c].last.reason), "HighRestartCount"})
                /\ Reported(p, c) /\ ~ Leaving(p) /\ ~ Inhibited(p) => ToldIn(e2.open, p, Reason)
<1> DEFINE n     == Len(Status(p))
           Turn(c, x) == executeContainerFilters(p, c, x)
           Known(c, incidents) ==
             /\ Crashing(p, c) /\ ~ Inhibited(p) =>
                  ToldIn(incidents, p, {ReasonOf(container[p][c].last.reason), "HighRestartCount"})
             /\ Reported(p, c) /\ ~ Leaving(p) /\ ~ Inhibited(p) => ToldIn(incidents, p, Reason)
<1>1. n \in Nat /\ \A i \in 1 .. n : Status(p)[i] \in Range(Status(p))
  BY Statuses
<1>2. \A c \in Range(Status(p)) : \E i \in 1 .. n : c = Status(p)[i]
  BY Statuses
<1>3. PICK f : After(p, e, f) /\ executeContainersFilters(p, e) = f[n]
  BY <1>1, LoopEnds
<1>4. \A i \in 0 .. n : f[i] = IF i = 0 THEN e ELSE Turn(Status(p)[i], f[i - 1])
  BY <1>3 DEF After
<1>5. ASSUME NEW c \in Range(Status(p)), NEW x, Synced(p, x)
      PROVE  Synced(p, Turn(c, x)) /\ x.open \subseteq Turn(c, x).open /\ Known(c, Turn(c, x).open)
  BY <1>5, TurnKeeps
<1>6. ASSUME NEW c, NEW a, NEW b, a \subseteq b, Known(c, a)
      PROVE  Known(c, b)
  BY <1>6 DEF ToldIn
<1> DEFINE Good(i) == /\ Synced(p, f[i]) /\ e.open \subseteq f[i].open
                      /\ \A j \in 1 .. i : Known(Status(p)[j], f[i].open)
           S == {i \in 0 .. n : Good(i)}
<1> HIDE DEF n, Turn, Known
<1>7. 0 \in S
  <2>1. f[0] = e
    BY <1>1, <1>4
  <2>2. QED
    BY <1>1, <2>1
<1>8. ASSUME NEW i \in 0 .. n - 1, i \in S
      PROVE  i + 1 \in S
  <2>1. i + 1 \in 1 .. n /\ i + 1 \in 0 .. n /\ i + 1 # 0 /\ i + 1 - 1 = i
    BY <1>1
  <2>2. f[i + 1] = Turn(Status(p)[i + 1], f[i])
    BY <1>4, <2>1
  <2>3. Good(i)
    BY <1>8
  <2>4. /\ Synced(p, f[i + 1]) /\ f[i].open \subseteq f[i + 1].open
        /\ Known(Status(p)[i + 1], f[i + 1].open)
    BY <1>1, <1>5, <2>1, <2>2, <2>3
  <2>5. \A j \in 1 .. i : Known(Status(p)[j], f[i + 1].open)
    BY <1>6, <2>3, <2>4
  <2>6. \A j \in 1 .. i + 1 : Known(Status(p)[j], f[i + 1].open)
    <3>1. \A j \in 1 .. i + 1 : j \in 1 .. i \/ j = i + 1
      BY <2>1
    <3>2. QED
      BY <2>4, <2>5, <3>1
  <2>7. QED
    BY <2>1, <2>3, <2>4, <2>6
<1>9. \A i \in 0 .. n : i \in S
  <2> HIDE DEF S
  <2>1. QED
    BY <1>1, <1>7, <1>8, Induction
<1>10. Good(n)
  <2>1. n \in 0 .. n
    BY <1>1
  <2>2. n \in S
    BY <1>9, <2>1
  <2>3. QED
    BY <2>2
<1>11. QED
  BY <1>2, <1>3, <1>10 DEF Known

-----------------------------------------------------------------------------
(* Pods that a step leaves alone.                                          *)

(* Nothing that kwatch reads of p changes.                                 *)
Unmoved(p) ==
  /\ spec' = spec /\ stage'[p] = stage[p] /\ container'[p] = container[p]
  /\ p \in overdue' <=> p \in overdue
  /\ leaving'[p] = leaving[p]
  /\ spec[p].owner \in resolvable' <=> spec[p].owner \in resolvable

(* The engine learns nothing of p, and forgets nothing but incidents.      *)
Unheard(p) ==
  /\ last'[p] = last[p]
  /\ \A x : x[2] = p =>
       /\ x \in open' => x \in open
       /\ x \in seen' => x \in seen
       /\ x \in open \cup lapsed => x \in open' \cup lapsed'
       /\ x \in seen => x \in seen' \/ (x \in lapsed' /\ p \notin broken')

LEMMA UnmovedReads ==
  ASSUME NEW p, Unmoved(p)
  PROVE  /\ Status(p)' = Status(p)
         /\ Present(p)' = Present(p)
         /\ Phase(p)' = Phase(p)
         /\ SeededKeys(p)' = SeededKeys(p)
         /\ Recognised(p)' = Recognised(p)
         /\ Failing(p)' = Failing(p)
         /\ Reportable(p)' = Reportable(p)
         /\ \A c : Crashing(p, c)' = Crashing(p, c)
<1>1. Status(p)' = Status(p)
  BY DEF Unmoved, Status
<1>2. Present(p)' = Present(p)
  BY DEF Unmoved, Present
<1>3. Phase(p)' = Phase(p)
  BY <1>1 DEF Unmoved, Phase, IsIn
<1>4. ResolveOwnerName(p)' = ResolveOwnerName(p)
  BY DEF Unmoved, ResolveOwnerName, Owner
<1>5. SeededReasons(p)' = SeededReasons(p)
  BY <1>1 DEF Unmoved, SeededReasons
<1>6. SeededKeys(p)' = SeededKeys(p)
  BY <1>3, <1>4, <1>5 DEF Unmoved, SeededKeys
<1>7. Recognised(p)' = Recognised(p)
  BY <1>1, <1>3 DEF Unmoved, Recognised
<1>8. Failing(p)' = Failing(p)
  BY <1>1, <1>3 DEF Unmoved, Failing, Failed
<1>9. Leaving(p)' = Leaving(p) /\ \A c : Reported(p, c)' = Reported(p, c)
  BY DEF Unmoved, Leaving, Reported, Failed
<1>10. Reportable(p)' = Reportable(p)
  BY <1>1, <1>3, <1>9 DEF Unmoved, Reportable
<1>11. \A c : Crashing(p, c)' = Crashing(p, c)
  BY <1>9 DEF Unmoved, Crashing, Alone, SameTime
<1>12. QED
  BY <1>1, <1>2, <1>3, <1>6, <1>7, <1>8, <1>10, <1>11

LEMMA UnmovedKeeps ==
  ASSUME NEW p \in Pod, PodInv(p), Unmoved(p), Unheard(p),
         p \in synced' => p \in synced, p \in broken' => p \in broken,
         p \in recovered' => p \in recovered
  PROVE  PodInv(p)'
<1>1. \A c \in Container : Sound(container'[p][c])
  BY DEF PodInv, Unmoved
<1>2. Present(p)' => InstanceOf(last'[p], container'[p])
  BY UnmovedReads DEF PodInv, Unmoved, Unheard
<1>3. IncidentOf(last'[p], p, open' \cup lapsed')
  BY DEF PodInv, Unheard, IncidentOf
<1>4. NoneSince(last[p], p) => NoneSince(last[p], p)'
  BY UnmovedReads DEF NoneSince, Unmoved, Unheard
<1>5. p \in broken' => Baselined(p)'
  <2>1. SUFFICES ASSUME p \in broken' PROVE Baselined(p)'
    OBVIOUS
  <2>2. Baselined(p)
    BY <2>1 DEF PodInv
  <2>3. Present(p)'
    BY <2>2, UnmovedReads DEF Baselined
  <2>4. ASSUME Recognised(p)'
        PROVE  SeededKeys(p)' \X {p} \subseteq seen' /\ NoneSince(last[p], p)' /\ OnlyRestarts(p, open')
    <3>1. SeededKeys(p) \X {p} \subseteq seen /\ NoneSince(last[p], p) /\ OnlyRestarts(p, open)
      BY <2>2, <2>4, UnmovedReads DEF Baselined
    <3>2. \A x \in SeededKeys(p) \X {p} : x[2] = p
      OBVIOUS
    <3>3. SeededKeys(p) \X {p} \subseteq seen'
      BY <2>1, <3>1, <3>2 DEF Unheard
    <3>4. OnlyRestarts(p, open')
      BY <3>1 DEF OnlyRestarts, Unheard
    <3>5. QED
      BY <3>1, <3>3, <3>4, <1>4, UnmovedReads
  <2>5. QED
    BY <2>3, <2>4 DEF Baselined
<1>6. p \in recovered' => \A x \in seen' : x[2] # p
  BY DEF PodInv, Unheard
<1>7. \A reasons : Told(p, reasons) => Told(p, reasons)'
  BY DEF Told, Unheard
<1>8. ASSUME p \in synced'
      PROVE  /\ ~ Present(p)' => last'[p] = Nothing
             /\ \A c \in Range(Status(p)') :
                  Crashing(p, c)' => Told(p, {ReasonOf(container[p][c].last.reason), "HighRestartCount"})'
             /\ Reportable(p)' => Told(p, Reason)'
  <2>1. /\ ~ Present(p) => last[p] = Nothing
        /\ \A c \in Range(Status(p)) :
             Crashing(p, c) => Told(p, {ReasonOf(container[p][c].last.reason), "HighRestartCount"})
        /\ Reportable(p) => Told(p, Reason)
    BY <1>8 DEF PodInv
  <2>2. ~ Present(p)' => last'[p] = Nothing
    BY <2>1, UnmovedReads DEF Unheard
  <2>3. ASSUME NEW c \in Range(Status(p)'), Crashing(p, c)'
        PROVE  Told(p, {ReasonOf(container[p][c].last.reason), "HighRestartCount"})'
    <3>1. Told(p, {ReasonOf(container[p][c].last.reason), "HighRestartCount"})
      BY <2>1, <2>3, UnmovedReads
    <3>2. ReasonOf(container[p][c].last.reason)' = ReasonOf(container[p][c].last.reason)
      BY DEF Unmoved, ReasonOf
    <3>3. QED
      BY <3>1, <3>2 DEF Told, Unheard
  <2>4. Reportable(p)' => Told(p, Reason)'
    BY <2>1, UnmovedReads DEF Told, Unheard, Reason
  <2>5. QED
    BY <2>2, <2>3, <2>4
<1>9. QED
  BY <1>1, <1>2, <1>3, <1>5, <1>6, <1>8 DEF PodInv

-----------------------------------------------------------------------------
(* A worker's sync.                                                        *)

LEMMA PodsAreSound ==
  ASSUME Inv, NEW p \in Pod, NEW e, e.open = open, e.last = last[p], Present(p)
  PROVE  SoundPod(p) /\ Synced(p, e)
<1>1. TypeOK /\ PodInv(p)
  BY DEF Inv
<1>2. SoundPod(p)
  BY <1>1 DEF SoundPod, PodInv, Baselined
<1>3. e.open \subseteq Key \X Pod /\ e.last \in {Nothing} \cup ContainerState
  BY <1>1 DEF TypeOK
<1>4. InstanceOf(e.last, container[p]) /\ IncidentOf(e.last, p, e.open \cup lapsed)
  BY <1>1 DEF PodInv
<1>5. p \in broken /\ Recognised(p) => OnlyRestarts(p, e.open) /\ NoneSince(e.last, p)
  BY <1>1 DEF PodInv, Baselined
<1>6. QED
  BY <1>2, <1>3, <1>4, <1>5 DEF Synced

(* A pod with something to tell is not healthy.                            *)
LEMMA HealthyIsQuiet ==
  ASSUME TypeOK, NEW p \in Pod, SoundPod(p), isPodHealthy(p)
  PROVE  /\ ~ Recognised(p) \/ Phase(p) \notin {"Pending", "Failed"}
         /\ ~ PodFailing(p)
         /\ \A c \in Range(Status(p)) :
              container[p][c].reason \notin Failures \cup Waits \cup {"CrashLoopBackOff"}
<1>1. Phase(p) \in {"Running", "Succeeded"}
  BY DEF isPodHealthy
<1>2. ~ PodFailing(p)
  BY <1>1 DEF PodFailing, Phase
<1>3. ASSUME NEW c \in Range(Status(p))
      PROVE  container[p][c].reason \notin Failures \cup Waits \cup {"CrashLoopBackOff"}
  <2> DEFINE s == container[p][c]
  <2>1. c \in Container /\ Sound(s)
    BY Statuses DEF SoundPod
  <2>2. \/ s.is = "running"
        \/ s.is = "waiting" /\ s.reason = "ContainerCreating"
        \/ s.is = "terminated" /\ s.reason = "Completed"
    BY Zenon DEF isPodHealthy
  <2> HIDE DEF s
  <2>3. s.reason \in {"", "ContainerCreating", "Completed"}
    BY <2>1, <2>2 DEF Sound
  <2>4. QED
    BY <2>3, PodWatchAssumption DEF s, SpecialReasons
<1>4. QED
  BY <1>1, <1>2, <1>3

LEMMA ReadyIsHealthy ==
  ASSUME NEW p, Ready(p)
  PROVE  isPodHealthy(p)
<1>1. /\ stage[p] = "kubelet" /\ leaving[p] # "evicted"
      /\ \A c \in Range(Status(p)) : container[p][c].is = "running"
  BY DEF Ready
<1>2. CASE Range(Status(p)) = {}
  <2>1. ~ \E c \in Range(Status(p)) : container[p][c].is = "waiting" /\ container[p][c].last = Nothing
    BY <1>2
  <2>2. Phase(p) \in {"Running", "Succeeded"}
    BY <1>1, <1>2, <2>1 DEF Phase
  <2>3. QED
    BY <1>2, <2>2 DEF isPodHealthy
<1>3. CASE Range(Status(p)) # {}
  <2>1. IsIn(p, "running")
    BY <1>1, <1>3 DEF IsIn
  <2>2. Phase(p) = "Running"
    BY <1>1, <2>1 DEF Phase
  <2>3. QED
    BY <1>1, <2>2 DEF isPodHealthy
<1>4. QED
  BY <1>2, <1>3

(* What a sync does to a pod that is there.                                *)
LEMMA SyncOfPresent ==
  ASSUME Inv, NEW p \in Pod, ProcessPod(p), Present(p)
  PROVE  \E e : /\ Synced(p, e) /\ open' = e.open /\ last' = [last EXCEPT ![p] = e.last]
                /\ seen' = IF isPodHealthy(p) THEN Without(seen, p) ELSE seen
                /\ lapsed' = lapsed \ e.open
                /\ \A c \in Range(Status(p)) :
                     Crashing(p, c) /\ ~ Inhibited(p) =>
                       ToldIn(e.open, p, {ReasonOf(container[p][c].last.reason), "HighRestartCount"})
                /\ Reportable(p) /\ ~ Inhibited(p) => ToldIn(e.open, p, Reason)
<1> DEFINE e0 == [open |-> open, last |-> last[p]]
           e1 == executePodFilters(p, e0)
           e2 == executeContainersFilters(p, e1)
<1>1. TypeOK
  BY DEF Inv
<1>2. e0.open = open /\ e0.last = last[p]
  OBVIOUS
<1>3. /\ open' = e2.open /\ last' = [last EXCEPT ![p] = e2.last]
      /\ seen' = IF isPodHealthy(p) THEN Without(seen, p) ELSE seen
      /\ lapsed' = lapsed \ e2.open
  BY DEF ProcessPod, ProcessPodObject
<1> HIDE DEF e0
<1>4. SoundPod(p) /\ Synced(p, e0)
  BY <1>2, PodsAreSound
<1>5. /\ Synced(p, e1)
      /\ ~ Leaving(p) /\ PodFailing(p) /\ ~ Inhibited(p) => ToldIn(e1.open, p, Reason)
  BY <1>1, <1>4, PodFiltersKeep
<1> HIDE DEF e1
<1>6. /\ Synced(p, e2)
      /\ e1.open \subseteq e2.open
      /\ \A c \in Range(Status(p)) :
           /\ Crashing(p, c) /\ ~ Inhibited(p) =>
                ToldIn(e2.open, p, {ReasonOf(container[p][c].last.reason), "HighRestartCount"})
           /\ Reported(p, c) /\ ~ Leaving(p) /\ ~ Inhibited(p) => ToldIn(e2.open, p, Reason)
  BY <1>1, <1>4, <1>5, LoopKeeps
<1> HIDE DEF e2
<1>7. Reportable(p) /\ ~ Inhibited(p) => ToldIn(e2.open, p, Reason)
  <2>1. SUFFICES ASSUME Reportable(p), ~ Inhibited(p) PROVE ToldIn(e2.open, p, Reason)
    OBVIOUS
  <2>2. ~ Leaving(p) /\ (PodFailing(p) \/ \E c \in Range(Status(p)) : Reported(p, c))
    BY <2>1 DEF Reportable, PodFailing
  <2>3. CASE PodFailing(p)
    BY <1>5, <1>6, <2>1, <2>2, <2>3 DEF ToldIn
  <2>4. CASE \E c \in Range(Status(p)) : Reported(p, c)
    BY <1>6, <2>1, <2>2, <2>4
  <2>5. QED
    BY <2>2, <2>3, <2>4
<1>8. QED
  BY <1>3, <1>6, <1>7

LEMMA ProcessPresentKeeps ==
  ASSUME Inv, NEW p \in Pod, ProcessPod(p), Present(p)
  PROVE  Inv'
<1>1. PICK e : /\ Synced(p, e) /\ open' = e.open /\ last' = [last EXCEPT ![p] = e.last]
               /\ seen' = IF isPodHealthy(p) THEN Without(seen, p) ELSE seen
               /\ lapsed' = lapsed \ e.open
               /\ \A c \in Range(Status(p)) :
                    Crashing(p, c) /\ ~ Inhibited(p) =>
                      ToldIn(e.open, p, {ReasonOf(container[p][c].last.reason), "HighRestartCount"})
               /\ Reportable(p) /\ ~ Inhibited(p) => ToldIn(e.open, p, Reason)
  BY SyncOfPresent
<1>2. /\ UNCHANGED <<cluster, broken>>
      /\ synced' = IF Inhibited(p) THEN synced ELSE synced \cup {p}
      /\ recovered' = IF Ready(p) THEN recovered \cup {p} ELSE recovered
  BY DEF ProcessPod, ProcessPodObject
<1>3. TypeOK /\ PodInv(p) /\ \A q \in Pod : PodInv(q)
  BY DEF Inv
<1>4. TypeOK'
  <2>1. e.open \subseteq Key \X Pod /\ e.last \in {Nothing} \cup ContainerState
    BY <1>1 DEF Synced
  <2>2. last' \in [Pod -> {Nothing} \cup ContainerState]
    BY <1>1, <1>3, <2>1 DEF TypeOK
  <2>3. seen' \subseteq seen /\ lapsed' \subseteq lapsed
    BY <1>1 DEF Without
  <2>4. synced' \subseteq Pod /\ recovered' \subseteq Pod
    BY <1>2, <1>3 DEF TypeOK
  <2>5. QED
    BY <1>1, <1>2, <1>3, <2>1, <2>2, <2>3, <2>4 DEF TypeOK, cluster, Key, Reason, ContainerStatus,
       Termination, ContainerState
<1>5. \A q \in Pod : Unmoved(q)
  BY <1>2 DEF Unmoved, cluster
<1>6. ASSUME NEW q \in Pod, q # p
      PROVE  PodInv(q)'
  <2>1. last'[q] = last[q]
    BY <1>1, <1>6
  <2>2. ASSUME NEW x, x[2] = q
        PROVE  /\ x \in open' => x \in open
               /\ x \in seen' => x \in seen
               /\ x \in open \cup lapsed => x \in open' \cup lapsed'
               /\ x \in seen => x \in seen' \/ (x \in lapsed' /\ q \notin broken')
    <3>1. open \subseteq e.open /\ (x \in e.open => x \in open)
      BY <1>1, <1>6, <2>2 DEF Synced
    <3>2. open' = e.open /\ lapsed' = lapsed \ e.open
      BY <1>1
    <3>3. (x \in seen' => x \in seen) /\ (x \in seen => x \in seen')
      BY <1>1, <1>6, <2>2 DEF Without
    <3>4. QED
      BY <3>1, <3>2, <3>3
  <2>3. Unheard(q)
    BY <2>1, <2>2 DEF Unheard
  <2>4. (q \in synced' => q \in synced) /\ (q \in recovered' => q \in recovered)
        /\ (q \in broken' => q \in broken)
    BY <1>2, <1>6
  <2>5. QED
    BY <1>3, <1>5, <2>3, <2>4, UnmovedKeeps
<1>7. PodInv(p)'
  <2>1. SoundPod(p)
    BY PodsAreSound, <1>3 DEF SoundPod, PodInv, Baselined
  <2>2. last'[p] = e.last /\ container' = container /\ broken' = broken
    BY <1>1, <1>2, <1>3 DEF TypeOK, cluster
  <2>3. /\ Status(p)' = Status(p) /\ Present(p)' = Present(p) /\ SeededKeys(p)' = SeededKeys(p)
        /\ Recognised(p)' = Recognised(p) /\ Reportable(p)' = Reportable(p)
        /\ \A c : Crashing(p, c)' = Crashing(p, c)
    BY <1>5, UnmovedReads
  <2>4. \A c \in Container : Sound(container'[p][c])
    BY <2>1, <2>2 DEF SoundPod
  <2>5. InstanceOf(last'[p], container'[p]) /\ IncidentOf(last'[p], p, open' \cup lapsed')
    <3>1. open' \cup lapsed' = e.open \cup lapsed
      BY <1>1
    <3>2. QED
      BY <1>1, <2>2, <3>1 DEF Synced
  <2>6. p \in broken' => Baselined(p)'
    <3>1. SUFFICES ASSUME p \in broken, Recognised(p)
                   PROVE  /\ SeededKeys(p) \X {p} \subseteq seen'
                          /\ NoneSince(last[p], p)' /\ OnlyRestarts(p, open')
      BY <2>2, <2>3 DEF Baselined
    <3>2. ~ isPodHealthy(p)
      BY <1>3, <2>1, <3>1, HealthyIsQuiet DEF isPodHealthy, Recognised
    <3>3. SeededKeys(p) \X {p} \subseteq seen'
      BY <1>1, <2>1, <3>1, <3>2 DEF SoundPod
    <3>4. OnlyRestarts(p, open') /\ NoneSince(e.last, p)
      BY <1>1, <3>1 DEF Synced
    <3>5. NoneSince(last[p], p)'
      BY <2>2, <2>3, <3>4 DEF NoneSince
    <3>6. QED
      BY <3>3, <3>4, <3>5
  <2>7. p \in recovered' => \A x \in seen' : x[2] # p
    <3>1. CASE Ready(p)
      BY <1>1, <3>1, ReadyIsHealthy DEF Without
    <3>2. CASE ~ Ready(p)
      BY <1>1, <1>2, <1>3, <3>2 DEF Without, PodInv
    <3>3. QED
      BY <3>1, <3>2
  <2>8. isPodHealthy(p) => ~ Reportable(p) /\ \A c \in Range(Status(p)) : ~ Crashing(p, c)
    <3>1. SUFFICES ASSUME isPodHealthy(p)
                   PROVE  ~ Reportable(p) /\ \A c \in Range(Status(p)) : ~ Crashing(p, c)
      OBVIOUS
    <3>2. /\ ~ PodFailing(p)
          /\ \A c \in Range(Status(p)) :
               container[p][c].reason \notin Failures \cup Waits \cup {"CrashLoopBackOff"}
      BY <1>3, <2>1, <3>1, HealthyIsQuiet
    <3>3. QED
      BY <3>2 DEF Reportable, Reported, Failed, PodFailing, Crashing
  <2>9. ASSUME NEW reasons, ToldIn(e.open, p, reasons), ~ isPodHealthy(p)
        PROVE  Told(p, reasons)'
    <3>1. open' = e.open /\ seen' = seen /\ lapsed' = lapsed \ e.open
      BY <1>1, <2>9
    <3>2. open' \cup seen' \cup lapsed' = e.open \cup seen \cup lapsed
      BY <3>1
    <3>3. \E x \in open' \cup seen' \cup lapsed' : x[2] = p /\ x[1][2] \in reasons
      BY <2>9, <3>2 DEF ToldIn
    <3>4. QED
      BY <3>3 DEF Told
  <2>10. ASSUME NEW reasons, Told(p, reasons), ~ isPodHealthy(p)
         PROVE  Told(p, reasons)'
    <3>1. open \subseteq e.open
      BY <1>1 DEF Synced
    <3>2. QED
      BY <2>9, <2>10, <3>1 DEF Told, ToldIn
  <2>11. p \in synced' => /\ \A c \in Range(Status(p)') :
                               Crashing(p, c)' =>
                                 Told(p, {ReasonOf(container[p][c].last.reason), "HighRestartCount"})'
                          /\ Reportable(p)' => Told(p, Reason)'
    <3>1. SUFFICES ASSUME p \in synced', ~ isPodHealthy(p)
                   PROVE  /\ \A c \in Range(Status(p)) :
                               Crashing(p, c) =>
                                 Told(p, {ReasonOf(container[p][c].last.reason), "HighRestartCount"})'
                          /\ Reportable(p) => Told(p, Reason)'
      BY <2>3, <2>8
    <3>2. ASSUME NEW c \in Range(Status(p)), Crashing(p, c)
          PROVE  Told(p, {ReasonOf(container[p][c].last.reason), "HighRestartCount"})'
      <4> DEFINE reasons == {ReasonOf(container[p][c].last.reason), "HighRestartCount"}
      <4>1. reasons' = reasons
        BY <2>2 DEF ReasonOf
      <4>2. CASE Inhibited(p)
        <5>1. p \in synced
          BY <1>2, <3>1, <4>2
        <5>2. Told(p, reasons)
          BY <1>3, <3>2, <5>1 DEF PodInv
        <5> HIDE DEF reasons
        <5>3. QED
          BY <2>10, <3>1, <4>1, <5>2 DEF reasons, Told
      <4>3. CASE ~ Inhibited(p)
        <5>1. ToldIn(e.open, p, reasons)
          BY <1>1, <3>2, <4>3
        <5> HIDE DEF reasons
        <5>2. QED
          BY <2>9, <3>1, <4>1, <5>1 DEF reasons, Told
      <4>4. QED
        BY <4>2, <4>3
    <3>3. ASSUME Reportable(p)
          PROVE  Told(p, Reason)'
      <4>1. CASE Inhibited(p)
        <5>1. p \in synced
          BY <1>2, <3>1, <4>1
        <5>2. Told(p, Reason)
          BY <1>3, <3>3, <5>1 DEF PodInv
        <5>3. QED
          BY <2>10, <3>1, <5>2 DEF Told, Reason
      <4>2. CASE ~ Inhibited(p)
        BY <1>1, <2>9, <3>1, <3>3, <4>2 DEF Told, Reason
      <4>3. QED
        BY <4>1, <4>2
    <3>4. QED
      BY <3>2, <3>3
  <2>12. QED
    BY <2>3, <2>4, <2>5, <2>6, <2>7, <2>11 DEF PodInv
<1>8. QED
  BY <1>4, <1>6, <1>7 DEF Inv

LEMMA ProcessAbsentKeeps ==
  ASSUME Inv, NEW p \in Pod, ProcessPod(p), ~ Present(p)
  PROVE  Inv'
<1> DEFINE keys == {x[1] : x \in open} \ {x[1] : x \in Without(open, p)}
<1>1. /\ open' = Without(open, p) /\ seen' = Without(seen \ Under(seen, keys), p)
      /\ lapsed' = Without(lapsed \cup Under(seen, keys), p)
      /\ broken' = broken \ {x[2] : x \in Under(seen, keys)}
      /\ last' = [last EXCEPT ![p] = Nothing]
      /\ UNCHANGED cluster /\ synced' \subseteq synced \cup {p} /\ recovered' = recovered \cup {p}
  BY DEF ProcessPod, RemovePod
<1> HIDE DEF keys
<1>2. TypeOK /\ PodInv(p) /\ \A q \in Pod : PodInv(q)
  BY DEF Inv
<1>3. TypeOK'
  <2>1. open' \subseteq open /\ seen' \subseteq seen /\ lapsed' \subseteq lapsed \cup seen
        /\ broken' \subseteq broken
    BY <1>1 DEF Without, Under
  <2>2. last' \in [Pod -> {Nothing} \cup ContainerState]
    BY <1>1, <1>2 DEF TypeOK
  <2>3. QED
    BY <1>1, <1>2, <2>1, <2>2 DEF TypeOK, cluster, Key, Reason, ContainerStatus, Termination,
       ContainerState
<1>4. \A q \in Pod : Unmoved(q)
  BY <1>1 DEF Unmoved, cluster
<1>5. ASSUME NEW q \in Pod, q # p
      PROVE  PodInv(q)'
  <2>1. last'[q] = last[q]
    BY <1>1, <1>5
  <2>2. ASSUME NEW x, x[2] = q
        PROVE  /\ x \in open' => x \in open
               /\ x \in seen' => x \in seen
               /\ x \in open \cup lapsed => x \in open' \cup lapsed'
               /\ x \in seen => x \in seen' \/ (x \in lapsed' /\ q \notin broken')
    BY <1>1, <1>5, <2>2 DEF Without, Under
  <2>3. Unheard(q)
    BY <2>1, <2>2 DEF Unheard
  <2>4. (q \in synced' => q \in synced) /\ (q \in recovered' => q \in recovered)
        /\ (q \in broken' => q \in broken)
    BY <1>1, <1>5
  <2>5. QED
    BY <1>2, <1>4, <2>3, <2>4, UnmovedKeeps
<1>6. PodInv(p)'
  <2>1. last'[p] = Nothing /\ container' = container /\ broken' \subseteq broken
    BY <1>1, <1>2 DEF TypeOK, cluster
  <2>2. Status(p) = <<>> /\ ~ Reportable(p)
    BY DEF Present, Status, Reportable, Range
  <2>3. /\ Status(p)' = <<>> /\ ~ Present(p)'
    BY <1>4, <2>2, UnmovedReads
  <2>4. ~ Reportable(p)' /\ Range(Status(p)') = {}
    BY <1>4, <2>2, <2>3, UnmovedReads DEF Range
  <2>5. p \notin broken'
    BY <1>2, <2>1 DEF PodInv, Baselined
  <2>6. \A x \in seen' : x[2] # p
    BY <1>1 DEF Without
  <2>7. \A c \in Container : Sound(container'[p][c])
    BY <1>2, <2>1 DEF PodInv
  <2>8. IncidentOf(last'[p], p, open' \cup lapsed')
    BY <2>1 DEF IncidentOf
  <2>9. QED
    BY <2>1, <2>3, <2>4, <2>5, <2>6, <2>7, <2>8 DEF PodInv
<1>7. QED
  BY <1>3, <1>5, <1>6 DEF Inv

-----------------------------------------------------------------------------
(* What happens to pods while no worker looks.                             *)

(* A pod that changed is owed nothing until it is synced, and what broke   *)
(* before the start is no longer what it is.                               *)
LEMMA ChangedKeeps ==
  ASSUME NEW p \in Pod, PodInv(p), Unheard(p),
         \A c \in Container : Sound(container'[p][c]),
         Present(p)' => InstanceOf(last[p], container'[p]),
         p \notin synced', p \in broken' => Baselined(p)',
         p \in recovered' => p \in recovered
  PROVE  PodInv(p)'
<1>1. IncidentOf(last'[p], p, open' \cup lapsed')
  BY DEF PodInv, IncidentOf, Unheard
<1>2. p \in recovered' => \A x \in seen' : x[2] # p
  BY DEF PodInv, Unheard
<1>3. Present(p)' => InstanceOf(last'[p], container'[p])
  BY DEF Unheard
<1>4. QED
  BY <1>1, <1>2, <1>3 DEF PodInv

LEMMA EngineUnheard ==
  ASSUME UNCHANGED engine, NEW p
  PROVE  Unheard(p)
  BY DEF engine, Unheard

(* The steps that leave the containers alone.                              *)
LEMMA MoveKeeps ==
  ASSUME Inv, NEW p \in Pod, NEW from, NEW to \in {"new", "refused", "bound", "kubelet"},
         Move(p, from, to), StatusKept,
         Present(p) \/ p \in synced
  PROVE  Inv'
<1>1. TypeOK /\ PodInv(p) /\ \A q \in Pod : PodInv(q)
  BY DEF Inv
<1>2. /\ stage' = [stage EXCEPT ![p] = to]
      /\ synced' = synced \ {p} /\ broken' = broken \ {p}
      /\ UNCHANGED <<engine, recovered>>
      /\ UNCHANGED <<spec, container, overdue, leaving, troubled, resolvable>>
  BY DEF Move, Changed, StatusKept
<1>3. TypeOK'
  <2>1. stage' \in [Pod -> {"absent", "new", "refused", "bound", "kubelet"}]
    BY <1>1, <1>2 DEF TypeOK
  <2>2. QED
    BY <1>1, <1>2, <2>1 DEF TypeOK, engine, Key, Reason, ContainerStatus, Termination, ContainerState
<1>4. ASSUME NEW q \in Pod, q # p
      PROVE  PodInv(q)'
  <2>1. Unmoved(q)
    BY <1>2, <1>4 DEF Unmoved
  <2>2. Unheard(q)
    BY <1>2, EngineUnheard
  <2>3. QED
    BY <1>1, <1>2, <2>1, <2>2, UnmovedKeeps
<1>5. PodInv(p)'
  <2>1. InstanceOf(last[p], container[p])
    <3>1. CASE Present(p)
      BY <1>1, <3>1 DEF PodInv
    <3>2. CASE ~ Present(p)
      <4>1. last[p] = Nothing
        BY <1>1, <3>2 DEF PodInv
      <4>2. QED
        BY <4>1 DEF InstanceOf
    <3>3. QED
      BY <3>1, <3>2
  <2>2. \A c \in Container : Sound(container'[p][c])
    BY <1>1, <1>2 DEF PodInv
  <2>3. Unheard(p)
    BY <1>2, EngineUnheard
  <2>4. QED
    BY <1>1, <1>2, <2>1, <2>2, <2>3, ChangedKeeps
<1>6. QED
  BY <1>3, <1>4, <1>5 DEF Inv

LEMMA MarkKeeps ==
  ASSUME Inv, NEW p \in Pod, Changed(p), UNCHANGED <<spec, stage, container, resolvable>>,
         overdue' \subseteq Pod, leaving' \in [Pod -> {"stays", "target", "evicted", "deleted"}],
         UNCHANGED troubled, Present(p),
         \A q \in Pod \ {p} : (q \in overdue' <=> q \in overdue) /\ leaving'[q] = leaving[q]
  PROVE  Inv'
<1>1. TypeOK /\ PodInv(p) /\ \A q \in Pod : PodInv(q)
  BY DEF Inv
<1>2. /\ synced' = synced \ {p} /\ broken' = broken \ {p}
      /\ UNCHANGED <<engine, recovered>>
  BY DEF Changed
<1>3. TypeOK'
  BY <1>1, <1>2 DEF TypeOK, engine, Key, Reason, ContainerStatus, Termination, ContainerState
<1>4. ASSUME NEW q \in Pod, q # p
      PROVE  PodInv(q)'
  <2>1. Unmoved(q)
    BY <1>2, <1>4 DEF Unmoved
  <2>2. Unheard(q)
    BY <1>2, EngineUnheard
  <2>3. QED
    BY <1>1, <1>2, <2>1, <2>2, UnmovedKeeps
<1>5. PodInv(p)'
  <2>1. InstanceOf(last[p], container[p]) /\ \A c \in Container : Sound(container'[p][c])
    BY <1>1 DEF PodInv
  <2>2. Unheard(p)
    BY <1>2, EngineUnheard
  <2>3. QED
    BY <1>1, <1>2, <2>1, <2>2, ChangedKeeps
<1>6. QED
  BY <1>3, <1>4, <1>5 DEF Inv

LEMMA DeleteKeeps ==
  ASSUME Inv, NEW p \in Pod, DeletePod(p)
  PROVE  Inv'
<1>1. TypeOK /\ PodInv(p) /\ \A q \in Pod : PodInv(q)
  BY DEF Inv
<1>2. /\ stage' = [stage EXCEPT ![p] = "absent"]
      /\ synced' = synced \ {p} /\ broken' = broken \ {p}
      /\ UNCHANGED <<engine, recovered>>
      /\ container' = [container EXCEPT ![p] = NoStatus]
      /\ overdue' = overdue \ {p} /\ leaving' = [leaving EXCEPT ![p] = "stays"]
      /\ troubled' = troubled \ {p} /\ UNCHANGED <<spec, resolvable>>
  BY DEF DeletePod, Move, Changed
<1>3. Creating \in ContainerStatus /\ Sound(Creating)
  BY PodWatchAssumption DEF Creating, ContainerStatus, Sound, Termination
<1>4. TypeOK'
  <2>1. stage' \in [Pod -> {"absent", "new", "refused", "bound", "kubelet"}]
    BY <1>1, <1>2 DEF TypeOK
  <2>2. NoStatus \in [Container -> ContainerStatus]
    BY <1>3 DEF NoStatus
  <2>3. container' \in [Pod -> [Container -> ContainerStatus]]
    BY <1>1, <1>2, <2>2 DEF TypeOK
  <2>4. /\ overdue' \subseteq Pod /\ troubled' \subseteq Pod
        /\ leaving' \in [Pod -> {"stays", "target", "evicted", "deleted"}]
    BY <1>1, <1>2 DEF TypeOK
  <2>5. QED
    BY <1>1, <1>2, <2>1, <2>3, <2>4 DEF TypeOK, engine, Key, Reason, ContainerStatus, Termination,
       ContainerState
<1>5. ASSUME NEW q \in Pod, q # p
      PROVE  PodInv(q)'
  <2>1. Unmoved(q)
    BY <1>1, <1>2, <1>5 DEF Unmoved, TypeOK
  <2>2. Unheard(q)
    BY <1>2, EngineUnheard
  <2>3. QED
    BY <1>1, <1>2, <2>1, <2>2, UnmovedKeeps
<1>6. PodInv(p)'
  <2>1. ~ Present(p)'
    BY <1>1, <1>2 DEF TypeOK, Present
  <2>2. \A c \in Container : Sound(container'[p][c])
    BY <1>1, <1>2, <1>3 DEF TypeOK, NoStatus
  <2>3. Unheard(p)
    BY <1>2, EngineUnheard
  <2>4. QED
    BY <1>1, <1>2, <2>1, <2>2, <2>3, ChangedKeeps
<1>7. QED
  BY <1>4, <1>5, <1>6 DEF Inv

LEMMA ReplicaSetGoneKeeps ==
  ASSUME Inv, NEW w, ReplicaSetGone(w)
  PROVE  Inv'
<1> DEFINE members == {p \in Pod : spec[p].owner = w}
<1>1. TypeOK /\ \A q \in Pod : PodInv(q)
  BY DEF Inv
<1>2. /\ resolvable' = resolvable \ {w}
      /\ synced' = synced \ members /\ broken' = broken \ members
      /\ UNCHANGED <<spec, stage, container, overdue, leaving, troubled, engine, recovered>>
  BY DEF ReplicaSetGone
<1>3. TypeOK'
  BY <1>1, <1>2 DEF TypeOK, engine, Key, Reason, ContainerStatus, Termination, ContainerState
<1>4. ASSUME NEW q \in Pod
      PROVE  PodInv(q)'
  <2>1. Unheard(q) /\ PodInv(q)
    BY <1>1, <1>2, EngineUnheard
  <2>2. CASE q \in members
    <3>1. Present(q)' = Present(q)
      BY <1>2 DEF Present
    <3>2. \A c \in Container : Sound(container'[q][c])
      BY <1>2, <2>1 DEF PodInv
    <3>3. Present(q)' => InstanceOf(last[q], container'[q])
      BY <1>2, <2>1, <3>1 DEF PodInv
    <3>4. q \notin synced' /\ q \notin broken' /\ recovered' = recovered
      BY <1>2, <2>2
    <3>5. QED
      BY <2>1, <3>2, <3>3, <3>4, ChangedKeeps
  <2>3. CASE q \notin members
    <3>1. Unmoved(q)
      BY <1>2, <2>3 DEF Unmoved
    <3>2. QED
      BY <1>2, <2>1, <3>1, UnmovedKeeps
  <2>4. QED
    BY <2>2, <2>3
<1>5. QED
  BY <1>3, <1>4 DEF Inv

-----------------------------------------------------------------------------
(* The kubelet moves a container.                                          *)

(* t is a status again, and what has ended stays ended.                    *)
Succeeds(s, t) ==
  /\ t \in ContainerStatus /\ Sound(t)
  /\ \A r : \A n \in 0 .. MaxRestarts : Ended(s, n, r) => Ended(t, n, r)

LEMMA SetKeeps ==
  ASSUME Inv, NEW p \in Pod, NEW c \in Container, NEW t, Set(p, c, t),
         Succeeds(container[p][c], t),
         broken' \subseteq broken, broken \ {p} \subseteq broken', p \in broken' => Baselined(p)'
  PROVE  Inv'
<1>1. TypeOK /\ PodInv(p) /\ \A q \in Pod : PodInv(q)
  BY DEF Inv
<1>2. /\ container' = [container EXCEPT ![p][c] = t]
      /\ synced' = synced \ {p}
      /\ UNCHANGED <<spec, stage, overdue, leaving, troubled, resolvable, engine, recovered>>
  BY DEF Set
<1>3. container \in [Pod -> [Container -> ContainerStatus]]
  BY <1>1 DEF TypeOK
<1>4. t \in ContainerStatus /\ Sound(t)
  BY DEF Succeeds
<1>5. TypeOK'
  <2>1. container' \in [Pod -> [Container -> ContainerStatus]]
    <3> HIDE DEF ContainerStatus
    <3>1. QED
      BY <1>2, <1>3, <1>4
  <2>2. QED
    BY <1>1, <1>2, <2>1 DEF TypeOK, engine, Key, Reason, ContainerStatus, Termination, ContainerState
<1>6. ASSUME NEW q \in Pod, q # p
      PROVE  PodInv(q)'
  <2>1. container'[q] = container[q]
    BY <1>2, <1>3, <1>6
  <2>2. Unmoved(q)
    BY <1>2, <2>1 DEF Unmoved
  <2>3. Unheard(q)
    BY <1>2, EngineUnheard
  <2>4. QED
    BY <1>1, <1>2, <1>6, <2>2, <2>3, UnmovedKeeps
<1>7. PodInv(p)'
  <2>1. container'[p][c] = t /\ \A d \in Container : d # c => container'[p][d] = container[p][d]
    BY <1>2, <1>3
  <2>2. \A d \in Container : Sound(container'[p][d])
    BY <1>1, <1>4, <2>1 DEF PodInv
  <2>3. ASSUME Present(p)'
        PROVE  InstanceOf(last[p], container'[p])
    <3>1. InstanceOf(last[p], container[p])
      BY <1>1, <1>2, <2>3 DEF PodInv, Present
    <3>2. ASSUME NEW d \in Container, NEW n \in 0 .. MaxRestarts, last[p] # Nothing,
                 last[p].on = Started(d, n)
          PROVE  Ended(container'[p][d], n, last[p].reason)
      <4>1. Ended(container[p][d], n, last[p].reason)
        BY <3>1, <3>2 DEF InstanceOf
      <4>2. CASE d = c
        BY <2>1, <4>1, <4>2 DEF Succeeds
      <4>3. CASE d # c
        BY <2>1, <4>1, <4>3
      <4>4. QED
        BY <4>2, <4>3
    <3>3. QED
      BY <3>2 DEF InstanceOf
  <2>4. Unheard(p)
    BY <1>2, EngineUnheard
  <2>5. QED
    BY <1>1, <1>2, <2>2, <2>3, <2>4, ChangedKeeps
<1>8. QED
  BY <1>5, <1>6, <1>7 DEF Inv

LEMMA StatusFields ==
  ASSUME NEW s \in ContainerStatus
  PROVE  /\ s.is \in {"waiting", "running", "terminated"}
         /\ s.reason \in Reason \cup {"", "ContainerCreating"}
         /\ s.restarts \in 0 .. MaxRestarts /\ MaxRestarts \in Nat
         /\ s.last \in Termination
<1>1. /\ s.is \in {"waiting", "running", "terminated"}
      /\ s.reason \in Reason \cup {"", "ContainerCreating"}
      /\ s.restarts \in 0 .. MaxRestarts /\ s.last \in Termination
  BY DEF ContainerStatus
<1>2. QED
  BY <1>1, PodWatchAssumption

LEMMA SomeTermination ==
  ASSUME NEW r \in Failures \cup {"Completed"}, NEW n \in 0 .. MaxRestarts
  PROVE  /\ [reason |-> r, n |-> n] \in Termination
         /\ [reason |-> r, n |-> n] # Nothing
<1>1. r # ""
  BY PodWatchAssumption DEF SpecialReasons
<1>2. [reason |-> r, n |-> n] # Nothing
  BY <1>1 DEF Nothing
<1>3. QED
  BY <1>2 DEF Termination

LEMMA StartKeeps ==
  ASSUME Inv, NEW p \in Pod, NEW c \in Container, Start(p, c)
  PROVE  Inv'
<1> DEFINE s     == container[p][c]
           again == s.last # Nothing \/ s.is = "terminated"
           t     == [is |-> "running", reason |-> "",
                     restarts |-> s.restarts + (IF again THEN 1 ELSE 0),
                     last |-> IF s.is = "terminated" THEN [reason |-> s.reason, n |-> s.restarts]
                              ELSE s.last]
<1>1. Set(p, c, t) /\ broken' = broken \ {p} /\ s.is # "running"
      /\ (again => s.restarts < MaxRestarts)
  BY DEF Start
<1>2. s \in ContainerStatus /\ Sound(s)
  BY StatusTyped DEF Inv, PodInv
<1> HIDE DEF s
<1>3. /\ again => t.restarts = s.restarts + 1
      /\ ~ again => t.restarts = s.restarts + 0
  OBVIOUS
<1>4. s.is = "terminated" =>
        /\ t.last \in Termination /\ t.last # Nothing
        /\ t.last.reason = s.reason /\ t.last.n = s.restarts
  <2>1. SUFFICES ASSUME s.is = "terminated"
                 PROVE  /\ t.last \in Termination /\ t.last # Nothing
                        /\ t.last.reason = s.reason /\ t.last.n = s.restarts
    OBVIOUS
  <2>2. s.reason \in Failures \cup {"Completed"} /\ s.restarts \in 0 .. MaxRestarts
    BY <1>2, <2>1, StatusFields DEF Sound
  <2>3. t.last = [reason |-> s.reason, n |-> s.restarts]
    BY <2>1
  <2> HIDE DEF t
  <2>4. QED
    BY <2>2, <2>3, SomeTermination
<1>5. s.is # "terminated" => t.last = s.last /\ s.is = "waiting" /\ t.last \in Termination
  <2>1. s.is # "terminated" => t.last = s.last
    OBVIOUS
  <2> HIDE DEF t
  <2>2. QED
    BY <1>1, <1>2, <2>1, StatusFields
<1>6. t.is = "running" /\ t.reason = ""
  OBVIOUS
<1>7. t \in [is : {"running"}, reason : {""}, restarts : {t.restarts}, last : {t.last}]
  OBVIOUS
<1>8. s.restarts \in 0 .. MaxRestarts /\ MaxRestarts \in Nat
  BY <1>2, StatusFields
<1> HIDE DEF t
<1>9. t.restarts \in 0 .. MaxRestarts
  BY <1>1, <1>3, <1>8
<1>10. t \in ContainerStatus
  BY <1>4, <1>5, <1>7, <1>9 DEF ContainerStatus
<1>11. Began(t)
  <2>1. CASE s.is = "terminated"
    BY <1>3, <1>4, <1>8, <2>1 DEF Began
  <2>2. CASE s.is # "terminated" /\ s.last # Nothing
    <3>1. s.last.n = s.restarts
      BY <1>2, <1>5, <2>2 DEF Sound
    <3>2. QED
      BY <1>3, <1>5, <1>8, <2>2, <3>1 DEF Began
  <2>3. CASE s.is # "terminated" /\ s.last = Nothing
    <3>1. s.restarts = 0
      BY <1>2, <1>5, <2>3 DEF Sound
    <3>2. QED
      BY <1>3, <1>5, <2>3, <3>1 DEF Began
  <2>4. QED
    BY <2>1, <2>2, <2>3
<1>12. ASSUME NEW n \in 0 .. MaxRestarts, NEW r, Ended(s, n, r)
       PROVE  Ended(t, n, r)
  <2>1. n < t.restarts
    <3>1. CASE again
      BY <1>3, <1>12, <1>8, <3>1 DEF Ended
    <3>2. CASE ~ again
      BY <1>3, <1>12, <1>8, <3>2 DEF Ended
    <3>3. QED
      BY <3>1, <3>2
  <2>2. t.last # Nothing /\ t.last.n = n => t.last.reason = r
    <3>1. CASE s.is = "terminated"
      BY <1>4, <1>12, <3>1 DEF Ended
    <3>2. CASE s.is # "terminated"
      BY <1>5, <1>12, <3>2 DEF Ended
    <3>3. QED
      BY <3>1, <3>2
  <2>3. QED
    BY <1>6, <2>1, <2>2 DEF Ended
<1>13. Succeeds(s, t)
  BY <1>10, <1>11, <1>12, <1>6 DEF Succeeds, Sound
<1>14. QED
  BY <1>1, <1>13, SetKeeps DEF s

LEMMA TerminateKeeps ==
  ASSUME Inv, NEW p \in Pod, NEW c \in Container, NEW r \in Failures \cup {"Completed"},
         Terminate(p, c, r)
  PROVE  Inv'
<1> DEFINE s == container[p][c]
           t == [s EXCEPT !.is = "terminated", !.reason = r]
<1>1. Set(p, c, t) /\ broken' = broken \ {p} /\ s.is = "running"
  BY DEF Terminate
<1>2. s \in ContainerStatus /\ Sound(s)
  BY StatusTyped DEF Inv, PodInv
<1> HIDE DEF s
<1>3. t \in ContainerStatus /\ t.is = "terminated" /\ t.reason = r
      /\ t.restarts = s.restarts /\ t.last = s.last
  BY <1>2 DEF ContainerStatus, Reason
<1> HIDE DEF t
<1>4. Sound(t)
  BY <1>1, <1>2, <1>3 DEF Sound, Began
<1>5. ASSUME NEW n \in 0 .. MaxRestarts, NEW x, Ended(s, n, x)
      PROVE  Ended(t, n, x)
  <2>1. n < s.restarts
    BY <1>1, <1>5 DEF Ended
  <2>2. s.restarts \in 0 .. MaxRestarts
    BY <1>2, StatusFields
  <2>3. s.last # Nothing /\ s.last.n = n => s.last.reason = x
    BY <1>5 DEF Ended
  <2>4. t.restarts # n
    BY <1>3, <2>1, <2>2
  <2>5. QED
    BY <1>3, <2>1, <2>3, <2>4 DEF Ended
<1>6. Succeeds(s, t)
  BY <1>3, <1>4, <1>5 DEF Succeeds
<1>7. QED
  BY <1>1, <1>6, SetKeeps DEF s

LEMMA BackOffKeeps ==
  ASSUME Inv, NEW p \in Pod, NEW c \in Container, BackOff(p, c)
  PROVE  Inv'
<1> DEFINE s == container[p][c]
           l == [reason |-> s.reason, n |-> s.restarts]
           t == [s EXCEPT !.is = "waiting", !.reason = "CrashLoopBackOff", !.last = l]
<1>1. Set(p, c, t) /\ broken' = broken \ {p} /\ s.is = "terminated"
  BY DEF BackOff
<1>2. s \in ContainerStatus /\ Sound(s)
  BY StatusTyped DEF Inv, PodInv
<1> HIDE DEF s
<1>3. s.reason \in Failures \cup {"Completed"} /\ s.restarts \in 0 .. MaxRestarts
  BY <1>1, <1>2, StatusFields DEF Sound
<1>4. l \in Termination /\ l # Nothing /\ l.reason = s.reason /\ l.n = s.restarts
  BY <1>3, SomeTermination
<1> HIDE DEF l
<1>5. t \in ContainerStatus /\ t.is = "waiting" /\ t.reason = "CrashLoopBackOff"
      /\ t.restarts = s.restarts /\ t.last = l
  BY <1>2, <1>4 DEF ContainerStatus, Reason
<1> HIDE DEF t
<1>6. Sound(t)
  BY <1>4, <1>5 DEF Sound
<1>7. ASSUME NEW n \in 0 .. MaxRestarts, NEW x, Ended(s, n, x)
      PROVE  Ended(t, n, x)
  BY <1>1, <1>4, <1>5, <1>7 DEF Ended
<1>8. Succeeds(s, t)
  BY <1>5, <1>6, <1>7 DEF Succeeds
<1>9. QED
  BY <1>1, <1>8, SetKeeps DEF s

(* The two reasons of a failed pull have one key: what the seed has of a   *)
(* pod stands for it when the kubelet goes from the one to the other.      *)
LEMMA PullKeepsSeed ==
  ASSUME Inv, NEW p \in Pod, NEW c \in Range(Status(p)), NEW r, FailToStart(p, c, r), p \in broken'
  PROVE  Baselined(p)'
<1> DEFINE s == container[p][c]
           t == [s EXCEPT !.reason = r]
           pull == {"ErrImagePull", "ImagePullBackOff"}
<1>1. /\ s.is = "waiting" /\ s.last = Nothing
      /\ container' = [container EXCEPT ![p][c] = t]
      /\ UNCHANGED <<spec, stage, overdue, leaving, troubled, resolvable, engine, recovered>>
  BY DEF FailToStart, Set
<1>2. {r, s.reason} = pull /\ p \in broken
  BY DEF FailToStart
<1>3. TypeOK /\ PodInv(p) /\ c \in Container /\ s \in ContainerStatus
  BY Statuses, StatusTyped DEF Inv
<1>4. t.is = s.is /\ t.restarts = s.restarts /\ t.last = s.last /\ t.reason = r
  BY <1>3 DEF ContainerStatus
<1>5. container'[p][c] = t /\ \A d \in Container : d # c => container'[p][d] = container[p][d]
  BY <1>1, <1>3 DEF TypeOK
<1>6. Status(p)' = Status(p) /\ Range(Status(p)) \subseteq Container
  BY <1>1, <1>3, Statuses DEF Status
<1> HIDE DEF s, t
<1>7. \A d \in Range(Status(p)) : /\ container'[p][d].is = container[p][d].is
                                  /\ container'[p][d].restarts = container[p][d].restarts
                                  /\ container'[p][d].last = container[p][d].last
                                  /\ \/ container'[p][d].reason = container[p][d].reason
                                     \/ container'[p][d].reason \in pull /\ container[p][d].reason \in pull
  <2> TAKE d \in Range(Status(p))
  <2>1. CASE d = c
    BY <1>2, <1>4, <1>5, <2>1 DEF s
  <2>2. CASE d # c
    BY <1>5, <1>6, <2>2
  <2>3. QED
    BY <2>1, <2>2
<1>8. Phase(p)' = Phase(p)
  BY <1>1, <1>6, <1>7 DEF Phase, IsIn
<1>9. Baselined(p)
  BY <1>2, <1>3 DEF PodInv
<1>10. Present(p)'
  BY <1>1, <1>9 DEF Present, Baselined
<1>11. ASSUME Recognised(p)'
       PROVE  SeededKeys(p)' \X {p} \subseteq seen' /\ NoneSince(last[p], p)' /\ OnlyRestarts(p, open')
  <2>1. Recognised(p)
    <3>1. spec[p].owner \in resolvable /\ Phase(p) \in {"Pending", "Failed"} /\ p \notin overdue
      BY <1>1, <1>8, <1>11 DEF Recognised
    <3>2. \A d \in Range(Status(p)) : container[p][d].reason # "CrashLoopBackOff"
      BY <1>6, <1>7, <1>11 DEF Recognised
    <3>3. \A a, b \in Range(Status(p)) :
             container[p][a].restarts > 0 /\ container[p][b].restarts > 0 => a = b
      BY <1>6, <1>7, <1>11 DEF Recognised
    <3>4. QED
      BY <3>1, <3>2, <3>3 DEF Recognised
  <2>2. SeededKeys(p) \X {p} \subseteq seen /\ NoneSince(last[p], p) /\ OnlyRestarts(p, open)
    BY <1>9, <2>1 DEF Baselined
  <2>3. ResolveOwnerName(p)' = ResolveOwnerName(p)
    BY <1>1 DEF ResolveOwnerName, Owner
  <2>4. c \in {d \in Range(Status(p)) : container[p][d].reason \notin {"", "ContainerCreating", "Completed"}}
    BY <1>2 DEF s
  <2>5. SeededReasons(p) # {}
    BY <2>4 DEF SeededReasons
  <2>6. stage[p] = "kubelet"
    BY DEF Status, Range
  <2>7. ASSUME NEW k \in SeededKeys(p)'
        PROVE  k \in SeededKeys(p)
    <3>1. Phase(p) \notin {"Running", "Succeeded"} /\ ResolveOwnerName(p) # NoOwner
      BY <1>8, <2>3, <2>7 DEF SeededKeys
    <3>2. stage'[p] # "refused"
      BY <1>1, <2>6
    <3>3. k \in {IncidentKey(ResolveOwnerName(p), x[1], x[2]) : x \in SeededReasons(p)'}
      BY <1>8, <2>3, <2>7, <3>1, <3>2 DEF SeededKeys
    <3>4. PICK x \in SeededReasons(p)' : k = IncidentKey(ResolveOwnerName(p), x[1], x[2])
      BY <3>3
    <3>5. PICK d \in Range(Status(p)) :
             /\ x = <<container'[p][d].reason, container'[p][d].restarts>>
             /\ container'[p][d].reason \notin {"", "ContainerCreating", "Completed"}
      BY <3>4, <1>6 DEF SeededReasons
    <3> DEFINE y == <<container[p][d].reason, container[p][d].restarts>>
    <3>6. container[p][d].reason \notin {"", "ContainerCreating", "Completed"}
      BY <1>7, <3>5
    <3>7. y \in SeededReasons(p)
      BY <3>6 DEF SeededReasons
    <3>8. IncidentKey(ResolveOwnerName(p), x[1], x[2]) = IncidentKey(ResolveOwnerName(p), y[1], y[2])
      BY <1>7, <3>5, PodWatchAssumption DEF IncidentKey, KeyReason, ReasonOf, normalizeReason
    <3>9. QED
      BY <2>5, <3>1, <3>4, <3>7, <3>8 DEF SeededKeys
  <2>8. SeededKeys(p)' \X {p} \subseteq seen'
    BY <1>1, <2>2, <2>7 DEF engine
  <2>9. NoneSince(last[p], p)'
    BY <1>1, <1>6, <1>7, <2>2 DEF NoneSince, engine
  <2>10. OnlyRestarts(p, open')
    BY <1>1, <2>2 DEF engine
  <2>11. QED
    BY <2>8, <2>9, <2>10
<1>12. QED
  BY <1>10, <1>11 DEF Baselined

LEMMA FailToStartKeeps ==
  ASSUME Inv, NEW p \in Pod, NEW c \in Range(Status(p)), NEW r \in Waits, FailToStart(p, c, r)
  PROVE  Inv'
<1> DEFINE s == container[p][c]
           t == [s EXCEPT !.reason = r]
<1>1. /\ s.is = "waiting" /\ s.last = Nothing /\ Set(p, c, t)
      /\ broken' = broken \/ broken' = broken \ {p}
  BY DEF FailToStart
<1>2. c \in Container /\ s \in ContainerStatus /\ Sound(s)
  BY Statuses, StatusTyped DEF Inv, PodInv
<1> HIDE DEF s
<1>3. t \in ContainerStatus /\ t.is = s.is /\ t.restarts = s.restarts /\ t.last = s.last /\ t.reason = r
  BY <1>2 DEF ContainerStatus, Reason
<1> HIDE DEF t
<1>4. s.restarts = 0
  BY <1>1, <1>2 DEF Sound
<1>5. Sound(t)
  BY <1>1, <1>3, <1>4 DEF Sound
<1>6. ASSUME NEW n \in 0 .. MaxRestarts, NEW x, Ended(s, n, x)
      PROVE  Ended(t, n, x)
  BY <1>1, <1>4, <1>6 DEF Ended
<1>7. Succeeds(s, t)
  BY <1>3, <1>5, <1>6 DEF Succeeds
<1>8. QED
  BY <1>1, <1>2, <1>7, PullKeepsSeed, SetKeeps DEF s

-----------------------------------------------------------------------------
(* The start.                                                              *)

LEMMA KeyTyped ==
  ASSUME NEW owner \in Workload \cup Pod \cup {NoOwner}, NEW reason \in Reason, NEW restarts
  PROVE  IncidentKey(owner, reason, restarts) \in Key
<1>1. KeyReason(reason) \in Reason /\ "CrashLoopHighFrequency" \in Reason
  BY Reasons DEF Reason
<1>2. QED
  BY <1>1 DEF IncidentKey, Key

LEMMA SeededKeysTyped ==
  ASSUME TypeOK, NEW p \in Pod
  PROVE  SeededKeys(p) \subseteq Key
<1>1. ResolveOwnerName(p) \in Workload \cup Pod \cup {NoOwner}
  BY Owners
<1>2. IncidentKey(ResolveOwnerName(p), "Unschedulable", 0) \in Key
  BY <1>1, KeyTyped DEF Reason
<1>3. ASSUME NEW r \in SeededReasons(p)
      PROVE  IncidentKey(ResolveOwnerName(p), r[1], r[2]) \in Key
  <2>1. PICK c \in Range(Status(p)) : /\ r = <<container[p][c].reason, container[p][c].restarts>>
                                      /\ container[p][c].reason \notin {"", "ContainerCreating", "Completed"}
    BY DEF SeededReasons
  <2>2. container[p][c].reason \in Reason \cup {"", "ContainerCreating"}
    BY Statuses, StatusTyped, StatusFields
  <2>3. r[1] \in Reason
    BY <2>1, <2>2
  <2>4. QED
    BY <1>1, <2>3, KeyTyped
<1>4. QED
  BY <1>2, <1>3 DEF SeededKeys

LEMMA InitKeeps == Init => Inv
<1> SUFFICES ASSUME Init PROVE Inv
  OBVIOUS
<1>1. Creating \in ContainerStatus /\ Sound(Creating)
  BY PodWatchAssumption DEF Creating, ContainerStatus, Sound, Termination
<1>2. NoStatus \in [Container -> ContainerStatus] /\ \A c \in Container : NoStatus[c] = Creating
  BY <1>1 DEF NoStatus
<1>3. \A p \in Pod : container[p] = NoStatus /\ stage[p] = "absent" /\ last[p] = Nothing
  BY DEF Init
<1>4. TypeOK
  <2>1. stage \in [Pod -> {"absent", "new", "refused", "bound", "kubelet"}]
    BY DEF Init
  <2>2. container \in [Pod -> [Container -> ContainerStatus]]
    BY <1>2 DEF Init
  <2>3. last \in [Pod -> {Nothing} \cup ContainerState]
    BY DEF Init
  <2>4. QED
    BY <2>1, <2>2, <2>3 DEF Init, TypeOK
<1>5. ASSUME NEW p \in Pod
      PROVE  PodInv(p)
  <2>1. ~ Present(p) /\ Range(Status(p)) = {}
    BY <1>3 DEF Present, Status, Range
  <2>2. ~ Reportable(p)
    BY <1>3, <2>1 DEF Reportable
  <2>3. \A c \in Container : Sound(container[p][c])
    BY <1>1, <1>2, <1>3
  <2>4. IncidentOf(last[p], p, open \cup lapsed)
    BY <1>3 DEF IncidentOf
  <2>5. p \notin broken /\ p \notin recovered
    BY DEF Init
  <2>6. QED
    BY <1>3, <2>1, <2>2, <2>3, <2>4, <2>5 DEF PodInv
<1>6. QED
  BY <1>4, <1>5 DEF Inv

LEMMA RestartKeeps ==
  ASSUME Inv, Restart
  PROVE  Inv'
<1>1. TypeOK /\ \A q \in Pod : PodInv(q)
  BY DEF Inv
<1>2. PICK built \in buildSeenSet :
        /\ seen' = IF built = {} THEN seen ELSE built
        /\ broken' = {p \in Pod : Failing(p) /\ SeededKeys(p) \X {p} \subseteq built}
  BY DEF Restart
<1>3. /\ open' = {} /\ lapsed' = {} /\ last' = [p \in Pod |-> Nothing]
      /\ synced' = {} /\ recovered' = {} /\ troubled' = {}
      /\ UNCHANGED <<spec, stage, container, overdue, leaving, resolvable>>
  BY DEF Restart
<1>4. TypeOK'
  <2>1. last' \in [Pod -> {Nothing} \cup ContainerState]
    BY <1>3
  <2>2. Found \subseteq Key \X Pod
    BY <1>1, SeededKeysTyped DEF Found
  <2>3. built \subseteq Key \X Pod
    BY <2>2 DEF buildSeenSet
  <2>4. seen' \subseteq Key \X Pod /\ broken' \subseteq Pod
    BY <1>1, <1>2, <2>3 DEF TypeOK
  <2>5. QED
    BY <1>1, <1>3, <2>1, <2>4 DEF TypeOK, Key, Reason, ContainerStatus, Termination, ContainerState
<1>5. ASSUME NEW p \in Pod
      PROVE  PodInv(p)'
  <2>1. Unmoved(p)
    BY <1>3 DEF Unmoved
  <2>2. last'[p] = Nothing
    BY <1>3
  <2>3. \A c \in Container : Sound(container'[p][c])
    BY <1>1, <1>3 DEF PodInv
  <2>4. /\ InstanceOf(last'[p], container'[p]) /\ IncidentOf(last'[p], p, open' \cup lapsed')
        /\ NoneSince(last[p], p)'
    BY <2>2 DEF InstanceOf, IncidentOf, NoneSince
  <2>5. p \in broken' => Baselined(p)'
    <3>1. SUFFICES ASSUME Failing(p), SeededKeys(p) \X {p} \subseteq built PROVE Baselined(p)'
      BY <1>2
    <3>2. Present(p)
      BY <3>1 DEF Failing, Present, Status, Range
    <3>3. SeededKeys(p) \X {p} \subseteq seen'
      BY <1>2, <3>1
    <3>4. OnlyRestarts(p, open')
      BY <1>3 DEF OnlyRestarts
    <3>5. QED
      BY <2>1, <2>4, <3>2, <3>3, <3>4, UnmovedReads DEF Baselined
  <2>6. QED
    BY <1>3, <2>3, <2>4, <2>5 DEF PodInv
<1>6. QED
  BY <1>4, <1>5 DEF Inv

(* An incident ends for want of news: what it was told of is known still.  *)
LEMMA CleanupKeeps ==
  ASSUME Inv, NEW key, cleanup(key)
  PROVE  Inv'
<1>1. TypeOK /\ \A q \in Pod : PodInv(q)
  BY DEF Inv
<1>2. /\ open' = open \ Under(open, {key})
      /\ seen' = seen \ Under(seen, {key})
      /\ lapsed' = lapsed \cup Under(open \cup seen, {key})
      /\ broken' = broken \ {x[2] : x \in Under(seen, {key})}
      /\ UNCHANGED <<cluster, last, synced, recovered>>
  BY DEF cleanup
<1>3. TypeOK'
  <2>1. open' \subseteq open /\ seen' \subseteq seen /\ lapsed' \subseteq lapsed \cup open \cup seen
        /\ broken' \subseteq broken
    BY <1>2 DEF Under
  <2>2. QED
    BY <1>1, <1>2, <2>1 DEF TypeOK, cluster, Key, Reason, ContainerStatus, Termination, ContainerState
<1>4. ASSUME NEW q \in Pod
      PROVE  PodInv(q)'
  <2>1. Unmoved(q)
    BY <1>2 DEF Unmoved, cluster
  <2>2. ASSUME NEW x, x[2] = q
        PROVE  /\ x \in open' => x \in open
               /\ x \in seen' => x \in seen
               /\ x \in open \cup lapsed => x \in open' \cup lapsed'
               /\ x \in seen => x \in seen' \/ (x \in lapsed' /\ q \notin broken')
    BY <1>2, <2>2 DEF Under
  <2>3. Unheard(q)
    BY <1>2, <2>2 DEF Unheard
  <2>4. QED
    BY <1>1, <1>2, <2>1, <2>3, UnmovedKeeps
<1>5. QED
  BY <1>3, <1>4 DEF Inv

(* What happens to a node silences its pods and changes nothing of them.   *)
LEMMA NodeIncidentKeeps ==
  ASSUME Inv, NEW p \in Pod, NodeIncident(p)
  PROVE  Inv'
<1>1. TypeOK /\ \A q \in Pod : PodInv(q)
  BY DEF Inv
<1>2. /\ troubled' \in {troubled \ {p}, troubled \cup {p}}
      /\ UNCHANGED <<spec, stage, container, overdue, leaving, resolvable, engine,
                     synced, recovered, broken>>
  BY DEF NodeIncident
<1>3. TypeOK'
  BY <1>1, <1>2 DEF TypeOK, engine, Key, Reason, ContainerStatus, Termination, ContainerState
<1>4. ASSUME NEW q \in Pod
      PROVE  PodInv(q)'
  <2>1. Unmoved(q) /\ Unheard(q)
    BY <1>2, EngineUnheard DEF Unmoved
  <2>2. QED
    BY <1>1, <1>2, <2>1, UnmovedKeeps
<1>5. QED
  BY <1>3, <1>4 DEF Inv

-----------------------------------------------------------------------------
(* Every step.                                                             *)

LEMMA KubeletKeeps ==
  ASSUME Inv, NEW p \in Pod, Kubelet(p)
  PROVE  Inv'
<1>1. CASE Report(p)
  <2>1. Present(p)
    BY <1>1 DEF Report, Move, Present
  <2>2. QED
    BY <1>1, <2>1, MoveKeeps DEF Report
<1>2. Range(Status(p)) \subseteq Container
  BY Statuses DEF Inv
<1>3. CASE \E c \in Range(Status(p)), r \in Failures \cup {"Completed"} : Terminate(p, c, r)
  BY <1>2, <1>3, TerminateKeeps
<1>4. ASSUME NEW c \in Range(Status(p)),
             Start(p, c) \/ BackOff(p, c) \/ \E r \in Waits : FailToStart(p, c, r)
      PROVE  Inv'
  BY <1>2, <1>4, StartKeeps, BackOffKeeps, FailToStartKeeps
<1>5. QED
  BY <1>1, <1>3, <1>4 DEF Kubelet

LEMMA PodStepKeeps ==
  ASSUME Inv, NEW p \in Pod,
         \/ CreatePod(p) \/ Refuse(p) \/ Schedule(p) \/ Linger(p) \/ DeletePod(p)
         \/ \E how \in {"target", "evicted", "deleted"} : Disrupt(p, how)
         \/ Kubelet(p) \/ NodeIncident(p) \/ ProcessPod(p)
  PROVE  Inv'
<1>1. CASE CreatePod(p)
  BY <1>1, MoveKeeps DEF CreatePod
<1>2. CASE Refuse(p)
  <2>1. Present(p)
    BY <1>2 DEF Refuse, Move, Present
  <2>2. QED
    BY <1>2, <2>1, MoveKeeps DEF Refuse
<1>3. CASE Schedule(p)
  <2>1. Present(p)
    BY <1>3 DEF Schedule, Move, Present
  <2>2. QED
    BY <1>3, <2>1, MoveKeeps DEF Schedule
<1>4. CASE Linger(p)
  <2>1. overdue' \subseteq Pod /\ leaving' \in [Pod -> {"stays", "target", "evicted", "deleted"}]
    BY <1>4 DEF Linger, Inv, TypeOK
  <2>2. QED
    BY <1>4, <2>1, MarkKeeps DEF Linger
<1>5. ASSUME NEW how \in {"target", "evicted", "deleted"}, Disrupt(p, how)
      PROVE  Inv'
  <2>1. /\ overdue' \subseteq Pod /\ leaving' \in [Pod -> {"stays", "target", "evicted", "deleted"}]
        /\ \A q \in Pod \ {p} : leaving'[q] = leaving[q]
    BY <1>5 DEF Disrupt, Inv, TypeOK
  <2>2. QED
    BY <1>5, <2>1, MarkKeeps DEF Disrupt
<1>6. CASE DeletePod(p)
  BY <1>6, DeleteKeeps
<1>7. CASE Kubelet(p)
  BY <1>7, KubeletKeeps
<1>8. CASE ProcessPod(p)
  BY <1>8, ProcessPresentKeeps, ProcessAbsentKeeps
<1>9. CASE NodeIncident(p)
  BY <1>9, NodeIncidentKeeps
<1>10. QED
  BY <1>1, <1>2, <1>3, <1>4, <1>5, <1>6, <1>7, <1>8, <1>9

LEMMA StutterKeeps ==
  ASSUME Inv, UNCHANGED vars
  PROVE  Inv'
<1>1. TypeOK /\ \A q \in Pod : PodInv(q)
  BY DEF Inv
<1>2. TypeOK'
  BY <1>1 DEF TypeOK, vars, Key, Reason, ContainerStatus, Termination, ContainerState
<1>3. ASSUME NEW q \in Pod PROVE PodInv(q)'
  <2>1. Unmoved(q) /\ Unheard(q)
    BY DEF vars, Unmoved, Unheard
  <2>2. synced' = synced /\ broken' = broken /\ recovered' = recovered
    BY DEF vars
  <2>3. QED
    BY <1>1, <2>1, <2>2, UnmovedKeeps
<1>4. QED
  BY <1>2, <1>3 DEF Inv

LEMMA InvHolds == Spec => []Inv
<1>1. Inv /\ [Next]_vars => Inv'
  <2>1. SUFFICES ASSUME Inv, Next PROVE Inv'
    BY StutterKeeps
  <2>2. CASE \E p \in Pod : \/ CreatePod(p) \/ Refuse(p) \/ Schedule(p) \/ Linger(p) \/ DeletePod(p)
                            \/ \E how \in {"target", "evicted", "deleted"} : Disrupt(p, how)
                            \/ Kubelet(p) \/ NodeIncident(p) \/ ProcessPod(p)
    BY <2>1, <2>2, PodStepKeeps
  <2>3. CASE \E w \in Deployments : ReplicaSetGone(w)
    BY <2>1, <2>3, ReplicaSetGoneKeeps
  <2>4. CASE Restart
    BY <2>1, <2>4, RestartKeeps
  <2>5. CASE \E key \in {x[1] : x \in open} : cleanup(key)
    BY <2>1, <2>5, CleanupKeeps
  <2>6. QED
    BY <2>1, <2>2, <2>3, <2>4, <2>5 DEF Next
<1>2. QED
  BY <1>1, InitKeeps, PTL DEF Spec

-----------------------------------------------------------------------------
(* The theorems.                                                           *)

(* The loop compares a container with one remembered state per pod, and    *)
(* still no crash loop that a worker has seen is lost: what is remembered  *)
(* is of an instance that has ended, and there is an incident for it       *)
(* (execute_containers_filters.go, container_reasons_filter.go).           *)
THEOREM CrashAlwaysTold == Spec => []CrashIsTold
<1>1. Inv => CrashIsTold
  BY DEF Inv, PodInv, TypeOK, CrashIsTold
<1>2. QED
  BY <1>1, InvHolds, PTL

(* A failed pod that a worker has seen is known under some reason: either  *)
(* a detector of a container raises one, or the pod's filters, or an       *)
(* earlier one silenced them (execute_pod_filters.go).                     *)
THEOREM FailureAlwaysTold == Spec => []FailureIsTold
<1>1. Inv => FailureIsTold
  BY DEF Inv, PodInv, TypeOK, FailureIsTold
<1>2. QED
  BY <1>1, InvHolds, PTL

(* The key that buildSeenSet computes at the start is the key that the     *)
(* handlers compute later: an issue of before the start is not told again. *)
THEOREM StartupAlwaysQuiet == Spec => []StartupQuiet
<1>1. Inv => StartupQuiet
  BY DEF Inv, PodInv, TypeOK, StartupQuiet, Baselined, OnlyRestarts
<1>2. QED
  BY <1>1, InvHolds, PTL

(* Every variable has its type, and process_pod.go forgets the baseline of *)
(* a pod that runs or is gone, for good until the next start.              *)
THEOREM RecoveredNeverBaselined == Spec => []RecoveredIsNotBaselined
<1>1. Inv => RecoveredIsNotBaselined
  BY DEF Inv, PodInv, TypeOK, RecoveredIsNotBaselined, BaselineForgets
<1>2. QED
  BY <1>1, InvHolds, PTL

(* No chain of filters opens an incident for a pod on its way out, other   *)
(* than for its restarts (disruption_filter.go).                           *)
THEOREM DrainAlwaysSilent == Spec => DrainIsSilent
<1> DEFINE Silent == \A x \in open' \ open :
                       Leaving(x[2]) => x[1][2] = "HighRestartCount"
<1>1. ASSUME Inv, NEW p \in Pod, ProcessPod(p)
      PROVE  Silent
  <2>1. CASE Present(p)
    <3>1. PICK e : Synced(p, e) /\ open' = e.open
      BY <1>1, <2>1, SyncOfPresent
    <3>2. DisruptionFilter(p) <=> Leaving(p)
      BY <1>1, FilteredIsLeaving DEF Inv
    <3>3. QED
      BY <3>1, <3>2 DEF Synced
  <2>2. CASE ~ Present(p)
    BY <1>1, <2>2 DEF ProcessPod, RemovePod, Without
  <2>3. QED
    BY <2>1, <2>2
<1>2. ASSUME NEW p \in Pod,
             \/ CreatePod(p) \/ Refuse(p) \/ Schedule(p) \/ Linger(p) \/ DeletePod(p)
             \/ \E how \in {"target", "evicted", "deleted"} : Disrupt(p, how)
             \/ Kubelet(p) \/ NodeIncident(p)
      PROVE  UNCHANGED open
  BY <1>2 DEF CreatePod, Refuse, Schedule, Linger, Disrupt, DeletePod, Kubelet, Report, Move, Changed,
     Terminate, Start, BackOff, FailToStart, Set, NodeIncident, engine
<1>3. Inv /\ [Next]_vars => [Silent]_vars
  <2>1. SUFFICES ASSUME Inv, Next PROVE Silent
    OBVIOUS
  <2>2. CASE \E p \in Pod : ProcessPod(p)
    BY <1>1, <2>1, <2>2
  <2>3. CASE \E w \in Deployments : ReplicaSetGone(w)
    BY <2>3 DEF ReplicaSetGone, engine
  <2>4. CASE Restart
    BY <2>4 DEF Restart
  <2>5. CASE \E p \in Pod : \/ CreatePod(p) \/ Refuse(p) \/ Schedule(p) \/ Linger(p) \/ DeletePod(p)
                            \/ \E how \in {"target", "evicted", "deleted"} : Disrupt(p, how)
                            \/ Kubelet(p) \/ NodeIncident(p)
    BY <1>2, <2>5
  <2>6. CASE \E key \in {x[1] : x \in open} : cleanup(key)
    BY <2>6 DEF cleanup
  <2>7. QED
    BY <2>1, <2>2, <2>3, <2>4, <2>5, <2>6 DEF Next
<1>4. QED
  BY <1>3, InvHolds, PTL DEF Spec, DrainIsSilent

=============================================================================
