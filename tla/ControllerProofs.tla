-------------------------- MODULE ControllerProofs --------------------------
(***************************************************************************)
(* The invariants of the controller, for any objects, kinds and durations: *)
(* an object is worked off, or its key waits, or a worker has it and read  *)
(* what the cache still says.                                              *)
(***************************************************************************)
EXTENDS Controller, FiniteSetTheorems, TLAPS

(* An object keeps its kind, and only two handlers remember anything.      *)
KindsKept ==
  \A o \in Object :
    /\ object[o] \in Statuses(kind[o]) \cup {Absent}
    /\ cache[o] \in Statuses(kind[o]) \cup {Absent}
    /\ work[o] \in Statuses(kind[o]) \cup {Absent, NoWork}
    /\ kind[o] \notin {"daemonset", "hpa"} => first[o] = Never

(* Until every cache is complete no worker runs and the engine is empty.   *)
StartsComplete ==
  /\ stage = "syncing" => open = {} /\ seen = {} /\ work = [o \in Object |-> NoWork]
  /\ stage # "syncing" => listed = Object
  /\ \A o \in Object \ listed : cache[o] = Absent

(* A cached status is a CronJob's that was read before it was overdue.     *)
Agrees(o, s, t) ==
  \/ s = t
  \/ /\ kind[o] = "cronjob" /\ s # Absent /\ t # Absent
     /\ t.wrong = s.wrong \cup {"CronJobNotScheduled"} /\ t.passed = s.passed

(* What a handler that was given the status s leaves.                      *)
OpenFits(o, s) ==
  /\ Reported(o, s) = {} => OpenOf(o) \subseteq PassedOver(o, s)
  /\ kind[o] \notin {"job", "cronjob"} => OpenOf(o) \subseteq Reported(o, s) \cup PassedOver(o, s)

AtOnceOf(o, s) ==
  {x \in Reported(o, s) \ PassedOver(o, s) : x[2] \notin {"DaemonSetUnavailable", "HPAMaxedOut", "CronJobNotScheduled"}}

ToldOf(o, s) == AtOnceOf(o, s) \subseteq open \cup seen \cup lapsed

MemoryFits(o, s) ==
  first[o] # Never /\ ~ (kind[o] = "daemonset" /\ s = Absent) => Reported(o, s) # {}

Fits3(o, s) == OpenFits(o, s) /\ ToldOf(o, s) /\ MemoryFits(o, s)

(* No key of the object waits, and the queue is still filled.              *)
Reached(o) == stage # "stopped" /\ o \notin dirty

WorkedOffOf(o) ==
  Reached(o) => IF work[o] = NoWork THEN Fits3(o, cache[o]) ELSE Agrees(o, work[o], cache[o])

WorkedOff == \A o \in Object : WorkedOffOf(o)

(* What is old is still wrong, in the cache too, and in the baseline.      *)
OldIsKnown ==
  /\ \A x \in old : /\ x \in Reported(x[1], object[x[1]])
                    /\ x[1] \in listed => x \in Reported(x[1], cache[x[1]])
  /\ stage # "syncing" /\ age < BaselineTTL => old \subseteq seen /\ old \cap open = {}

Inv == TypeOK /\ KindsKept /\ StartsComplete /\ WorkedOff /\ OldIsKnown

-----------------------------------------------------------------------------
(* Kinds, statuses and what is made of them.                               *)

LEMMA ReasonsOfKind ==
  /\ Reasons["daemonset"] = {"DaemonSetUnavailable"}
  /\ Reasons["deployment"] = {"ProgressDeadlineExceeded"}
  /\ Reasons["cronjob"] = {"CronJobSuspended", "CronJobNotScheduled"}
  /\ \A k \in Kind : Reasons[k] \subseteq Reason
<1>1. \A k \in Kind : Reasons[k] \subseteq Reason
  BY DEF Reason
<1>2. QED
  BY <1>1 DEF Reasons

LEMMA Sentinels ==
  Absent \notin Status /\ NoWork \notin Status /\ NoWork # Absent /\ Never \notin Nat
BY ControllerAssumption

LEMMA StatusType ==
  ASSUME NEW k \in Kind, NEW s \in Statuses(k)
  PROVE  s \in Status /\ s.wrong \subseteq Reasons[k] /\ s # Absent /\ s # NoWork
<1>1. s \in [wrong : SUBSET Reasons[k], settled : BOOLEAN, passed : SUBSET Passable]
  BY DEF Statuses
<1>2. s \in Status /\ s.wrong \subseteq Reasons[k]
  BY <1>1, ReasonsOfKind DEF Status
<1>3. QED
  BY <1>2, Sentinels

LEMMA DetectIs ==
  ASSUME NEW k \in Kind, NEW s
  PROVE  Detect(k, s) = IF s = Absent THEN {}
                        ELSE IF k = "cronjob" /\ "CronJobSuspended" \in s.wrong
                             THEN {"CronJobSuspended"} ELSE s.wrong
<1>1. CASE k = "node"
  BY <1>1 DEF Detect, NodeConditionReasons
<1>2. CASE k = "deployment"
  BY <1>2 DEF Detect, DetectDeploymentIssue
<1>3. CASE k = "daemonset"
  BY <1>3 DEF Detect, DetectDaemonSetIssue
<1>4. CASE k = "job"
  BY <1>4 DEF Detect, DetectJobIssue
<1>5. CASE k = "cronjob"
  BY <1>5 DEF Detect, DetectCronJobIssue
<1>6. CASE k = "hpa"
  BY <1>6 DEF Detect, DetectHPAIssues
<1>7. QED
  BY <1>1, <1>2, <1>3, <1>4, <1>5, <1>6 DEF Kind

LEMMA Detected ==
  ASSUME NEW k \in Kind, NEW s \in Statuses(k) \cup {Absent}
  PROVE  Detect(k, s) \subseteq Reasons[k]
BY DetectIs, StatusType

LEMMA ReportedIs ==
  ASSUME NEW o, NEW s, NEW x
  PROVE  /\ x \in Reported(o, s) => x[1] = o /\ x[2] \in Detect(kind[o], s) /\ x = <<x[1], x[2]>>
         /\ \A r : <<o, r>> \in Reported(o, s) <=> r \in Detect(kind[o], s)
         /\ Reported(o, s) = {} <=> Detect(kind[o], s) = {}
<1>1. \A r : r \in Detect(kind[o], s) => <<o, r>> \in Reported(o, s)
  BY DEF Reported
<1>2. ASSUME NEW y \in Reported(o, s)
      PROVE  y[1] = o /\ y[2] \in Detect(kind[o], s) /\ y = <<y[1], y[2]>>
  <2>1. PICK r \in Detect(kind[o], s) : y = <<o, r>>
    BY DEF Reported
  <2>2. y[1] = o /\ y[2] = r
    BY <2>1
  <2>3. QED
    BY <2>1, <2>2
<1>3. ASSUME NEW r, <<o, r>> \in Reported(o, s)
      PROVE  r \in Detect(kind[o], s)
  <2>1. PICK q \in Detect(kind[o], s) : <<o, r>> = <<o, q>>
    BY <1>3 DEF Reported
  <2>2. QED
    BY <2>1
<1>4. Reported(o, s) = {} <=> Detect(kind[o], s) = {}
  BY <1>1, <1>2
<1>5. QED
  BY <1>1, <1>2, <1>3, <1>4

Late(s) == [s EXCEPT !.wrong = @ \cup {"CronJobNotScheduled"}]

LEMMA LateType ==
  ASSUME NEW s \in Statuses("cronjob")
  PROVE  /\ Late(s) \in Statuses("cronjob")
         /\ Late(s).wrong = s.wrong \cup {"CronJobNotScheduled"} /\ Late(s).passed = s.passed
         /\ Late(s) # Absent
         /\ Detect("cronjob", s) \subseteq Detect("cronjob", Late(s))
<1>0. "cronjob" \in Kind
  BY DEF Kind
<1>1. /\ s \in [wrong : SUBSET Reasons["cronjob"], settled : BOOLEAN, passed : SUBSET Passable]
      /\ s.settled /\ s.passed = {}
  BY DEF Statuses
<1>2. /\ Late(s) \in [wrong : SUBSET Reasons["cronjob"], settled : BOOLEAN, passed : SUBSET Passable]
      /\ Late(s).settled /\ Late(s).passed = s.passed /\ Late(s).wrong = s.wrong \cup {"CronJobNotScheduled"}
  BY <1>1, ReasonsOfKind DEF Late
<1>3. Late(s) \in Statuses("cronjob")
  BY <1>2 DEF Statuses
<1>4. s # Absent /\ Late(s) # Absent
  BY <1>0, <1>3, StatusType
<1>5. QED
  BY <1>0, <1>2, <1>3, <1>4, DetectIs

(* Being overdue changes nothing of what a handler had to do.              *)
LEMMA AgreeFits ==
  ASSUME NEW o \in Object, kind[o] \in Kind, NEW s, NEW t, Agrees(o, s, t), Fits3(o, s)
  PROVE  Fits3(o, t)
<1>1. CASE s = t
  BY <1>1
<1>2. CASE /\ kind[o] = "cronjob" /\ s # Absent /\ t # Absent
           /\ t.wrong = s.wrong \cup {"CronJobNotScheduled"} /\ t.passed = s.passed
  <2>0. PassedOver(o, t) = PassedOver(o, s)
    BY <1>2 DEF PassedOver
  <2>1. /\ Detect(kind[o], t) # {}
        /\ \A r : r # "CronJobNotScheduled" => (r \in Detect(kind[o], t) <=> r \in Detect(kind[o], s))
    BY <1>2, DetectIs
  <2>2. Reported(o, t) # {}
    BY <2>1, ReportedIs
  <2>3. AtOnceOf(o, t) \subseteq AtOnceOf(o, s)
    <3> SUFFICES ASSUME NEW x \in AtOnceOf(o, t) PROVE x \in AtOnceOf(o, s)
      OBVIOUS
    <3>1. x \in Reported(o, t) /\ x[2] # "CronJobNotScheduled" /\ x \notin PassedOver(o, s)
      BY <2>0 DEF AtOnceOf
    <3>2. x = <<o, x[2]>> /\ x[2] \in Detect(kind[o], s)
      BY <2>1, <3>1, ReportedIs
    <3>3. x \in Reported(o, s)
      BY <3>2, ReportedIs
    <3>4. QED
      BY <3>1, <3>3 DEF AtOnceOf
  <2>4. QED
    BY <1>2, <2>0, <2>2, <2>3 DEF Fits3, OpenFits, ToldOf, MemoryFits
<1>3. QED
  BY <1>1, <1>2 DEF Agrees

-----------------------------------------------------------------------------
(* What any of the handlers does with the status it was given.             *)

Handle(o, s) ==
  CASE kind[o] = "node"       -> ProcessNode(o, s)
    [] kind[o] = "deployment" -> ProcessDeployment(o, s)
    [] kind[o] = "daemonset"  -> ProcessDaemonSet(o, s)
    [] kind[o] = "job"        -> ProcessJob(o, s)
    [] kind[o] = "cronjob"    -> ProcessCronJob(o, s)
    [] kind[o] = "hpa"        -> ProcessHorizontalPodAutoscaler(o, s)

EngineCalls(o, s, signalled, resolved) ==
  /\ Engine(signalled, resolved)
  /\ signalled \subseteq Reported(o, s) /\ resolved \subseteq OpenOf(o) \ signalled
  /\ AtOnceOf(o, s) \subseteq signalled
  /\ Reported(o, s) = {} => OpenOf(o) \ resolved \subseteq PassedOver(o, s)
  /\ kind[o] \notin {"job", "cronjob"} =>
       OpenOf(o) \ resolved \subseteq Reported(o, s) \cup PassedOver(o, s)

Remembers(o, s) ==
  /\ UNCHANGED first \/ Forget(o) \/ Mark(o)
  /\ kind[o] \notin {"daemonset", "hpa"} => UNCHANGED first
  /\ kind[o] \in {"daemonset", "hpa"} /\ s # Absent => Forget(o) \/ Reported(o, s) # {}
  /\ kind[o] = "hpa" => Forget(o) \/ Reported(o, s) # {}

LEMMA Handled ==
  ASSUME TypeOK, NEW o \in Object, kind[o] \in Kind,
         NEW s \in Statuses(kind[o]) \cup {Absent}, Handle(o, s)
  PROVE  /\ \E signalled, resolved : EngineCalls(o, s, signalled, resolved)
         /\ Remembers(o, s)
<1> DEFINE found == Reported(o, s)
<1>1. \A x \in OpenOf(o) : x[1] = o /\ x = <<o, x[2]>> /\ x[2] \in Reasons[kind[o]]
  BY DEF TypeOK, OpenOf, Issue
<1>2. AtOnceOf(o, s) \subseteq found /\ (s = Absent => found = {})
  BY DetectIs, ReportedIs DEF AtOnceOf
<1>3. ASSUME ResolveByResource(o), AtOnceOf(o, s) = {}
      PROVE  EngineCalls(o, s, {}, OpenOf(o))
  BY <1>3 DEF ResolveByResource, EngineCalls
<1>4. ASSUME Engine(found, OpenOf(o) \ found)
      PROVE  EngineCalls(o, s, found, OpenOf(o) \ found)
  BY <1>2, <1>4 DEF EngineCalls
<1>5. CASE kind[o] = "node"
  <2>1. Handle(o, s) <=> ProcessNode(o, s)
    BY <1>5 DEF Handle
  <2>2. UNCHANGED first
    BY <2>1 DEF ProcessNode
  <2>3. CASE s = Absent
    BY <1>2, <1>3, <2>1, <2>2, <2>3, <1>5 DEF ProcessNode, Remembers
  <2>4. CASE s # Absent
    <3> DEFINE told == emitted(o, s)
               over == OpenOf(o) \ (found \cup PassedOver(o, s))
    <3>1. Engine(told, over)
      BY <2>1, <2>4 DEF ProcessNode
    <3>2. told \subseteq found /\ AtOnceOf(o, s) \subseteq told
      BY DEF emitted, AtOnceOf
    <3>3. EngineCalls(o, s, told, over)
      <4> HIDE DEF told, found
      <4>1. /\ found = {} => OpenOf(o) \ over \subseteq PassedOver(o, s)
            /\ OpenOf(o) \ over \subseteq found \cup PassedOver(o, s)
            /\ over \subseteq OpenOf(o) \ told
        BY <3>2
      <4> USE DEF found
      <4>2. QED
        BY <3>1, <3>2, <4>1 DEF EngineCalls
    <3>4. QED
      BY <2>2, <3>3, <1>5 DEF Remembers
  <2>5. QED
    BY <2>3, <2>4
<1>6. CASE kind[o] \in {"deployment", "job", "cronjob"}
  <2>1. /\ UNCHANGED first
        /\ IF Detect(kind[o], s) = {} THEN ResolveByResource(o) ELSE Engine(found, {})
    <3>1. CASE kind[o] = "deployment"
      <4>1. ProcessDeployment(o, s)
        BY <3>1 DEF Handle
      <4>2. s = Absent \/ DetectDeploymentIssue(s) = {} <=> Detect(kind[o], s) = {}
        BY <3>1 DEF Detect
      <4>3. QED
        BY <4>1, <4>2 DEF ProcessDeployment
    <3>2. CASE kind[o] = "job"
      <4>1. ProcessJob(o, s)
        BY <3>2 DEF Handle
      <4>2. s = Absent \/ DetectJobIssue(s) = {} <=> Detect(kind[o], s) = {}
        BY <3>2 DEF Detect
      <4>3. QED
        BY <4>1, <4>2 DEF ProcessJob
    <3>3. CASE kind[o] = "cronjob"
      <4>1. ProcessCronJob(o, s)
        BY <3>3 DEF Handle
      <4>2. s = Absent \/ DetectCronJobIssue(s) = {} <=> Detect(kind[o], s) = {}
        BY <3>3 DEF Detect
      <4>3. QED
        BY <4>1, <4>2 DEF ProcessCronJob
    <3>4. QED
      BY <1>6, <3>1, <3>2, <3>3
  <2>2. CASE Detect(kind[o], s) = {}
    <3>1. found = {}
      BY <2>2, ReportedIs
    <3>2. QED
      BY <1>2, <1>3, <1>6, <2>1, <2>2, <3>1 DEF Remembers
  <2>3. CASE Detect(kind[o], s) # {}
    <3>1. found # {} /\ Engine(found, {})
      BY <2>1, <2>3, ReportedIs
    <3>2. kind[o] = "deployment" => OpenOf(o) \subseteq found
      <4>1. CASE kind[o] = "deployment"
        <5>1. Detect(kind[o], s) = Reasons[kind[o]]
          BY <2>3, <4>1, Detected, ReasonsOfKind
        <5>2. QED
          BY <1>1, <5>1, ReportedIs
      <4>2. QED
        BY <4>1
    <3>3. EngineCalls(o, s, found, {})
      BY <1>2, <1>6, <3>1, <3>2 DEF EngineCalls
    <3>4. QED
      BY <1>6, <2>1, <3>3 DEF Remembers
  <2>4. QED
    BY <2>2, <2>3
<1>7. CASE kind[o] = "daemonset"
  <2>0. ProcessDaemonSet(o, s) /\ AtOnceOf(o, s) = {}
    <3>1. \A x \in found : x[2] = "DaemonSetUnavailable"
      BY <1>7, ReportedIs, Detected, ReasonsOfKind
    <3>2. AtOnceOf(o, s) = {}
      BY <3>1 DEF AtOnceOf
    <3>3. QED
      BY <1>7, <3>2 DEF Handle
  <2>1. CASE s = Absent
    <3>1. ResolveByResource(o) /\ UNCHANGED first
      BY <2>0, <2>1 DEF ProcessDaemonSet
    <3>2. QED
      BY <1>3, <1>7, <2>0, <2>1, <3>1 DEF Remembers
  <2>2. CASE s # Absent /\ DetectDaemonSetIssue(s) = {}
    <3>1. ResolveByResource(o) /\ Forget(o)
      BY <2>0, <2>2 DEF ProcessDaemonSet
    <3>2. QED
      BY <1>3, <1>7, <2>0, <3>1 DEF Remembers
  <2>3. CASE s # Absent /\ DetectDaemonSetIssue(s) # {}
    <3>1. \/ ResolveByResource(o) /\ Forget(o)
          \/ Mark(o) /\ (UNCHANGED <<open, seen>> \/ signalEvent(o, "DaemonSetUnavailable"))
      BY <2>0, <2>3 DEF ProcessDaemonSet
    <3>2. Detect(kind[o], s) = {"DaemonSetUnavailable"}
      <4>1. Detect(kind[o], s) = DetectDaemonSetIssue(s)
        BY <1>7, <2>3 DEF Detect
      <4>2. QED
        BY <1>7, <2>3, <4>1, Detected, ReasonsOfKind
    <3>3. found = {<<o, "DaemonSetUnavailable">>} /\ OpenOf(o) \subseteq found
      <4>1. found = {<<o, "DaemonSetUnavailable">>}
        BY <3>2 DEF Reported
      <4>2. QED
        BY <1>1, <1>7, <4>1, ReasonsOfKind
    <3>4. CASE ResolveByResource(o) /\ Forget(o)
      BY <1>3, <1>7, <2>0, <3>4 DEF Remembers
    <3>5. CASE Mark(o) /\ UNCHANGED <<open, seen>>
      <4>1. Engine({}, {})
        BY <3>5 DEF Engine
      <4>2. EngineCalls(o, s, {}, {})
        BY <2>0, <3>3, <4>1 DEF EngineCalls
      <4>3. QED
        BY <1>7, <3>3, <3>5, <4>2 DEF Remembers
    <3>6. CASE Mark(o) /\ signalEvent(o, "DaemonSetUnavailable")
      <4>1. EngineCalls(o, s, found, {})
        BY <2>0, <3>3, <3>6 DEF EngineCalls, signalEvent
      <4>2. QED
        BY <1>7, <3>3, <3>6, <4>1 DEF Remembers
    <3>7. QED
      BY <3>1, <3>4, <3>5, <3>6
  <2>4. QED
    BY <2>1, <2>2, <2>3
<1>8. CASE kind[o] = "hpa"
  <2> DEFINE maxed == <<o, "HPAMaxedOut">>
             wait  == maxed \in found /\ Known(o) < Sustained
             told  == IF wait THEN found \ {maxed} ELSE found
  <2>1. /\ Engine(told, OpenOf(o) \ found)
        /\ IF maxed \in found THEN Mark(o) ELSE Forget(o)
    BY <1>8 DEF Handle, ProcessHorizontalPodAutoscaler
  <2>2. told \subseteq found /\ AtOnceOf(o, s) \subseteq told
    <3>1. maxed \notin AtOnceOf(o, s)
      BY DEF AtOnceOf
    <3>2. QED
      BY <1>2, <3>1
  <2> HIDE DEF told
  <2>3. EngineCalls(o, s, told, OpenOf(o) \ found)
    BY <1>8, <2>1, <2>2 DEF EngineCalls
  <2>4. QED
    BY <1>8, <2>1, <2>3 DEF Remembers
<1>9. QED
  BY <1>5, <1>6, <1>7, <1>8 DEF Kind

-----------------------------------------------------------------------------
(* What the calls do to the engine.                                        *)

LEMMA CallsEffect ==
  ASSUME TypeOK, NEW o \in Object, kind[o] \in Kind, kind' = kind,
         NEW s \in Statuses(kind[o]) \cup {Absent},
         NEW signalled, NEW resolved, EngineCalls(o, s, signalled, resolved)
  PROVE  /\ \A x : x[1] # o => (x \in open' <=> x \in open) /\ (x \in seen' <=> x \in seen)
         /\ \A p \in Object : p # o => OpenOf(p)' = OpenOf(p)
         /\ OpenOf(o)' \subseteq (OpenOf(o) \ resolved) \cup signalled
         /\ signalled \subseteq open' \cup seen'
         /\ seen' \subseteq seen
         /\ open' \subseteq Issue /\ \A x \in open' : x[2] \in Reasons[kind[x[1]]]
         /\ age < BaselineTTL /\ old \subseteq seen /\ old \cap open = {}
              => old \subseteq seen' /\ old \cap open' = {}
<1>1. /\ open' = (open \ resolved) \cup {x \in signalled : ~ isBaselined(x)}
      /\ seen' = (seen \ (resolved \cap open)) \ {x \in signalled : ~ isBaselined(x)}
      /\ resolved \subseteq OpenOf(o) \ signalled /\ signalled \subseteq Reported(o, s)
  BY DEF EngineCalls, Engine
<1>2. \A x \in signalled : x[1] = o /\ x \in Issue /\ x[2] \in Reasons[kind[x[1]]]
  <2> SUFFICES ASSUME NEW x \in signalled
               PROVE  x[1] = o /\ x \in Issue /\ x[2] \in Reasons[kind[x[1]]]
    OBVIOUS
  <2>1. x[1] = o /\ x[2] \in Detect(kind[o], s) /\ x = <<x[1], x[2]>>
    BY <1>1, ReportedIs
  <2>2. x[2] \in Reasons[kind[o]] /\ x[2] \in Reason
    BY <2>1, Detected, ReasonsOfKind
  <2>3. <<o, x[2]>> \in Issue
    BY <2>2 DEF Issue
  <2>4. x = <<o, x[2]>>
    BY <2>1
  <2>5. x \in Issue
    BY <2>3, <2>4
  <2>6. QED
    BY <2>1, <2>2, <2>5
<1>3. \A x \in resolved : x \in open /\ x[1] = o
  BY <1>1 DEF OpenOf
<1>4. \A x : x[1] # o => (x \in open' <=> x \in open) /\ (x \in seen' <=> x \in seen)
  BY <1>1, <1>2, <1>3
<1>5. \A p \in Object : p # o => OpenOf(p)' = OpenOf(p)
  BY <1>4 DEF OpenOf
<1>6. OpenOf(o)' \subseteq (OpenOf(o) \ resolved) \cup signalled
  BY <1>1 DEF OpenOf
<1>7. signalled \subseteq open' \cup seen'
  BY <1>1 DEF isBaselined
<1>8. open' \subseteq Issue /\ \A x \in open' : x[2] \in Reasons[kind[x[1]]]
  BY <1>1, <1>2 DEF TypeOK
<1>9. age < BaselineTTL /\ old \subseteq seen /\ old \cap open = {}
        => old \subseteq seen' /\ old \cap open' = {}
  BY <1>1 DEF isBaselined
<1>10. QED
  BY <1>1, <1>4, <1>5, <1>6, <1>7, <1>8, <1>9

LEMMA PatienceType == Patience \in Nat /\ Sustained \in Nat /\ 0 \in 0 .. Patience
BY ControllerAssumption DEF Patience

(* Taken together: what holds once the handler is done with s.             *)
LEMMA HandleFits ==
  ASSUME Inv, NEW o \in Object, NEW s \in Statuses(kind[o]) \cup {Absent}, Handle(o, s),
         kind' = kind
  PROVE  /\ Fits3(o, s)'
         /\ \A p \in Object : p # o => OpenOf(p)' = OpenOf(p)
         /\ \A p \in Object : p # o \/ kind[p] \notin {"daemonset", "hpa"} => first'[p] = first[p]
         /\ \A x : x[1] # o => (x \in open \cup seen <=> x \in open' \cup seen')
         /\ first' \in [Object -> 0 .. Patience \cup {Never}]
         /\ seen' \subseteq seen
         /\ open' \subseteq Issue /\ \A x \in open' : x[2] \in Reasons[kind[x[1]]]
         /\ age < BaselineTTL /\ old \subseteq seen /\ old \cap open = {}
              => old \subseteq seen' /\ old \cap open' = {}
<1>1. TypeOK /\ KindsKept /\ kind[o] \in Kind
  BY ControllerAssumption DEF Inv, TypeOK
<1>2. PICK signalled, resolved : EngineCalls(o, s, signalled, resolved)
  BY <1>1, Handled
<1>3. Remembers(o, s)
  BY <1>1, Handled
<1>4. first' \in [Object -> 0 .. Patience \cup {Never}]
      /\ \A p \in Object : p # o \/ kind[o] \notin {"daemonset", "hpa"} => first'[p] = first[p]
  <2>1. first \in [Object -> 0 .. Patience \cup {Never}]
    BY <1>1 DEF TypeOK
  <2>2. Known(o) \in 0 .. Patience
    BY <2>1, PatienceType DEF Known
  <2>3. CASE UNCHANGED first
    BY <2>1, <2>3
  <2>4. CASE Forget(o) \/ Mark(o)
    <3>1. \E v \in 0 .. Patience \cup {Never} : first' = [first EXCEPT ![o] = v]
      BY <2>2, <2>4 DEF Forget, Mark
    <3>2. kind[o] \notin {"daemonset", "hpa"} => first' = first
      BY <1>3 DEF Remembers
    <3>3. QED
      BY <2>1, <3>1, <3>2
  <2>5. QED
    BY <1>3, <2>3, <2>4 DEF Remembers
<1>5. OpenOf(o)' \subseteq (OpenOf(o) \ resolved) \cup signalled /\ signalled \subseteq open' \cup seen'
  BY <1>1, <1>2, CallsEffect
<1>6. /\ Reported(o, s)' = Reported(o, s) /\ PassedOver(o, s)' = PassedOver(o, s)
      /\ AtOnceOf(o, s)' = AtOnceOf(o, s)
  BY DEF Reported, PassedOver, AtOnceOf
<1>7. OpenFits(o, s)' /\ ToldOf(o, s)'
  <2>1. /\ signalled \subseteq Reported(o, s) /\ AtOnceOf(o, s) \subseteq signalled
        /\ Reported(o, s) = {} => OpenOf(o) \ resolved \subseteq PassedOver(o, s)
        /\ kind[o] \notin {"job", "cronjob"} =>
             OpenOf(o) \ resolved \subseteq Reported(o, s) \cup PassedOver(o, s)
    BY <1>2 DEF EngineCalls
  <2>2. ToldOf(o, s)'
    BY <1>5, <1>6, <2>1 DEF ToldOf
  <2>3. Reported(o, s) = {} => OpenOf(o)' \subseteq PassedOver(o, s)
    BY <1>5, <2>1
  <2>4. kind[o] \notin {"job", "cronjob"} => OpenOf(o)' \subseteq Reported(o, s) \cup PassedOver(o, s)
    BY <1>5, <2>1
  <2>5. QED
    BY <1>6, <2>2, <2>3, <2>4 DEF OpenFits
<1>8. MemoryFits(o, s)'
  <2>1. CASE kind[o] \notin {"daemonset", "hpa"}
    BY <1>1, <1>4, <2>1 DEF MemoryFits, KindsKept
  <2>2. CASE kind[o] \in {"daemonset", "hpa"}
    <3>1. Forget(o) => first'[o] = Never
      BY <1>1 DEF Forget, TypeOK
    <3>2. (kind[o] = "daemonset" /\ s = Absent) \/ Forget(o) \/ Reported(o, s) # {}
      BY <1>3, <2>2 DEF Remembers
    <3>3. QED
      BY <1>6, <3>1, <3>2 DEF MemoryFits
  <2>3. QED
    BY <2>1, <2>2
<1>9. QED
  BY <1>1, <1>2, <1>4, <1>7, <1>8, CallsEffect DEF Fits3

-----------------------------------------------------------------------------
(* The steps.                                                              *)

LEMMA KindType ==
  ASSUME TypeOK, NEW o \in Object
  PROVE  kind[o] \in Kind
BY ControllerAssumption DEF TypeOK

LEMMA Untouched ==
  ASSUME NEW p \in Object, WorkedOffOf(p), kind' = kind,
         Reached(p)' => Reached(p), cache'[p] = cache[p], work'[p] = work[p],
         OpenOf(p)' \subseteq OpenOf(p), first'[p] = Never <=> first[p] = Never,
         \A x \in open \cup seen \cup lapsed : x[1] = p => x \in open' \cup seen' \cup lapsed'
  PROVE  WorkedOffOf(p)'
<1>1. \A s : Reported(p, s)' = Reported(p, s)
  BY DEF Reported
<1>2. Fits3(p, cache[p]) => Fits3(p, cache[p])'
  <2>1. Reported(p, cache[p])' = Reported(p, cache[p]) /\ PassedOver(p, cache[p])' = PassedOver(p, cache[p])
    BY DEF Reported, PassedOver
  <2>2. OpenFits(p, cache[p]) => OpenFits(p, cache[p])'
    BY <2>1 DEF OpenFits
  <2>3. MemoryFits(p, cache[p]) => MemoryFits(p, cache[p])'
    BY <2>1 DEF MemoryFits
  <2>4. ToldOf(p, cache[p]) => ToldOf(p, cache[p])'
    <3>1. AtOnceOf(p, cache[p])' = AtOnceOf(p, cache[p])
      BY <2>1 DEF AtOnceOf
    <3>2. \A x \in AtOnceOf(p, cache[p]) : x[1] = p
      BY ReportedIs DEF AtOnceOf
    <3>3. QED
      BY <3>1, <3>2 DEF ToldOf
  <2>5. QED
    BY <2>2, <2>3, <2>4 DEF Fits3
<1>3. Agrees(p, work[p], cache[p]) => Agrees(p, work[p], cache[p])'
  BY DEF Agrees
<1>4. QED
  BY <1>2, <1>3 DEF WorkedOffOf

(* When only caches and queues move, or nothing an object sees of itself.  *)
LEMMA EngineStays ==
  ASSUME TypeOK, UNCHANGED <<kind, open, seen, lapsed>>, NEW p \in Object
  PROVE  OpenOf(p)' = OpenOf(p) /\ \A x \in open \cup seen \cup lapsed : x \in open' \cup seen' \cup lapsed'
BY DEF OpenOf

LEMMA ReasonFinite == IsFiniteSet(Reason)
<1>1. \A S, x, y : IsFiniteSet(S) => IsFiniteSet(S \cup {x} \cup {y})
  BY FS_AddElement
<1> DEFINE A == {} \cup {"NodeNotReady"} \cup {"MemoryPressure"}
           B == A \cup {"ProgressDeadlineExceeded"} \cup {"DaemonSetUnavailable"}
           C == B \cup {"JobFailed"} \cup {"JobSuspended"}
           D == C \cup {"CronJobSuspended"} \cup {"CronJobNotScheduled"}
           E == D \cup {"HPAScalingError"} \cup {"HPAMaxedOut"}
<1>2. Reason \subseteq E
  BY DEF Reason, Reasons, Kind
<1>3. IsFiniteSet(A)
  BY <1>1, FS_EmptySet
<1> HIDE DEF A
<1>4. IsFiniteSet(B)
  BY <1>1, <1>3
<1> HIDE DEF B
<1>5. IsFiniteSet(C)
  BY <1>1, <1>4
<1> HIDE DEF C
<1>6. IsFiniteSet(D)
  BY <1>1, <1>5
<1> HIDE DEF D
<1>7. IsFiniteSet(E)
  BY <1>1, <1>6
<1> HIDE DEF E
<1>8. QED
  BY <1>2, <1>7, FS_Subset

LEMMA IssuesFinite ==
  ASSUME NEW S \in SUBSET Issue
  PROVE  IsFiniteSet(S)
BY ReasonFinite, FS_Product, FS_Subset, ControllerAssumption DEF Issue

LEMMA SeenFinite == TypeOK => IsFiniteSet(seen)
BY IssuesFinite DEF TypeOK

LEMMA ChangeStep ==
  ASSUME Inv, NEW o \in Object, Change(o)
  PROVE  Inv'
<1>1. TypeOK /\ KindsKept /\ StartsComplete /\ WorkedOff /\ OldIsKnown /\ kind[o] \in Kind
  BY KindType DEF Inv
<1>2. /\ UNCHANGED <<kind, cache, listed, dirty, work, open, seen, lapsed, stage, first, age>>
      /\ changes' = changes + 1 /\ changes < MaxChanges /\ old' \subseteq old
      /\ \A x \in old' : x \in Reported(x[1], object'[x[1]])
  BY DEF Change, informerVars, queueVars, engineVars, Still
<1>3. PICK s \in Statuses(kind[o]) \cup {Absent} : object' = [object EXCEPT ![o] = s]
  BY DEF Change
<1>4. TypeOK'
  <2>1. s \in Status \cup {Absent}
    BY <1>1, <1>3, StatusType
  <2>2. changes' \in 0 .. MaxChanges
    BY <1>1, <1>2, ControllerAssumption DEF TypeOK
  <2>3. object' \in [Object -> Status \cup {Absent}]
    BY <1>1, <1>3, <2>1 DEF TypeOK
  <2>4. QED
    BY <1>1, <1>2, <2>2, <2>3 DEF TypeOK
<1>5. KindsKept'
  BY <1>1, <1>2, <1>3 DEF KindsKept, TypeOK
<1>6. StartsComplete' /\ WorkedOff'
  <2>1. StartsComplete'
    BY <1>1, <1>2 DEF StartsComplete
  <2>2. ASSUME NEW p \in Object PROVE WorkedOffOf(p)'
    BY <1>1, <1>2, Untouched, EngineStays DEF WorkedOff, Reached
  <2>3. QED
    BY <2>1, <2>2 DEF WorkedOff
<1>7. OldIsKnown'
  <2>1. \A x \in old' : x \in Reported(x[1], object[x[1]])'
    BY <1>2 DEF Reported
  <2>2. \A x \in old' : x[1] \in listed' => x \in Reported(x[1], cache[x[1]])'
    BY <1>1, <1>2 DEF OldIsKnown, Reported
  <2>3. QED
    BY <1>1, <1>2, <2>1, <2>2 DEF OldIsKnown
<1>8. QED
  BY <1>4, <1>5, <1>6, <1>7 DEF Inv

LEMMA OverdueStep ==
  ASSUME Inv, NEW o \in Object, Overdue(o)
  PROVE  Inv'
<1>1. TypeOK /\ KindsKept /\ StartsComplete /\ WorkedOff /\ OldIsKnown
  BY DEF Inv
<1>2. /\ UNCHANGED <<kind, changes, listed, dirty, work, open, seen, lapsed, stage, first, age, old>>
      /\ kind[o] = "cronjob" /\ object[o] # Absent
      /\ object' = [object EXCEPT ![o] = Late(@)]
      /\ cache' = IF cache[o] = object[o] THEN [cache EXCEPT ![o] = Late(@)] ELSE cache
  BY DEF Overdue, Late, queueVars, engineVars
<1>3. object[o] \in Statuses("cronjob") /\ "cronjob" \in Kind
  BY <1>1, <1>2 DEF KindsKept, Kind
<1>4. /\ Late(object[o]) \in Statuses("cronjob") /\ Late(object[o]) \in Status
      /\ Late(object[o]).wrong = object[o].wrong \cup {"CronJobNotScheduled"}
      /\ Late(object[o]).passed = object[o].passed
      /\ Late(object[o]) # Absent
      /\ Detect("cronjob", object[o]) \subseteq Detect("cronjob", Late(object[o]))
  BY <1>3, LateType, StatusType
<1>5. /\ object' \in [Object -> Status \cup {Absent}] /\ cache' \in [Object -> Status \cup {Absent}]
      /\ object'[o] = Late(object[o]) /\ \A p \in Object : p # o => object'[p] = object[p] /\ cache'[p] = cache[p]
      /\ IF cache[o] = object[o] THEN cache'[o] = Late(object[o]) ELSE cache' = cache
  BY <1>1, <1>2, <1>4 DEF TypeOK
<1>6. TypeOK'
  BY <1>1, <1>2, <1>5 DEF TypeOK
<1>7. KindsKept'
  BY <1>1, <1>2, <1>4, <1>5 DEF KindsKept
<1>8. StartsComplete'
  BY <1>1, <1>2, <1>5 DEF StartsComplete
<1>9. WorkedOff'
  <2>1. ASSUME NEW p \in Object, cache'[p] = cache[p]
        PROVE  WorkedOffOf(p)'
    BY <1>1, <1>2, <2>1, Untouched, EngineStays DEF WorkedOff, Reached
  <2>2. ASSUME cache[o] = object[o]
        PROVE  WorkedOffOf(o)'
    <3>1. Agrees(o, cache[o], cache'[o])
      BY <1>2, <1>4, <1>5, <2>2 DEF Agrees
    <3>2. ASSUME Fits3(o, cache[o])
          PROVE  Fits3(o, cache[o])'
      <4>1. PICK t : t = cache'[o]
        OBVIOUS
      <4>2. Fits3(o, t)
        BY <1>2, <1>3, <3>1, <3>2, <4>1, AgreeFits
      <4>3. /\ Reported(o, t)' = Reported(o, t) /\ OpenOf(o)' = OpenOf(o)
            /\ PassedOver(o, t)' = PassedOver(o, t)
        BY <1>2 DEF Reported, OpenOf, PassedOver
      <4>4. Fits3(o, t)'
        BY <1>2, <4>2, <4>3 DEF Fits3, OpenFits, ToldOf, AtOnceOf, MemoryFits
      <4>5. QED
        BY <4>1, <4>4 DEF Fits3, OpenFits, ToldOf, AtOnceOf, MemoryFits, Reported, PassedOver
    <3>3. ASSUME Agrees(o, work[o], cache[o]), work[o] # NoWork
          PROVE  Agrees(o, work[o], cache[o])'
      <4>1. cache[o] # Absent /\ cache'[o] # Absent
            /\ cache'[o].wrong = cache[o].wrong \cup {"CronJobNotScheduled"}
            /\ cache'[o].passed = cache[o].passed
        BY <1>2, <1>4, <1>5, <2>2
      <4>2. /\ work[o] # Absent /\ cache'[o].wrong = work[o].wrong \cup {"CronJobNotScheduled"}
            /\ cache'[o].passed = work[o].passed
        BY <3>3, <4>1 DEF Agrees
      <4>3. QED
        BY <1>2, <4>1, <4>2 DEF Agrees
    <3>4. WorkedOffOf(o) /\ (Reached(o)' <=> Reached(o)) /\ work' = work
      BY <1>1, <1>2 DEF WorkedOff, Reached
    <3>5. QED
      BY <3>2, <3>3, <3>4 DEF WorkedOffOf
  <2>3. ASSUME NEW p \in Object PROVE WorkedOffOf(p)'
    BY <1>5, <2>1, <2>2
  <2>4. QED
    BY <2>3 DEF WorkedOff
<1>10. OldIsKnown'
  <2>1. ASSUME NEW x \in old, x \in Reported(x[1], object[x[1]])
        PROVE  x \in Reported(x[1], object[x[1]])'
    <3>1. CASE x[1] = o
      <4>1. x[2] \in Detect(kind[o], Late(object[o])) /\ x = <<o, x[2]>>
        BY <1>2, <1>4, <2>1, <3>1, ReportedIs
      <4>2. x \in Reported(o, Late(object[o]))
        BY <4>1, ReportedIs
      <4>3. QED
        BY <1>2, <1>5, <3>1, <4>2 DEF Reported
    <3>2. CASE x[1] # o
      <4>1. x[1] \in Object
        BY <1>1 DEF TypeOK, Issue
      <4>2. QED
        BY <1>2, <1>5, <2>1, <3>2, <4>1 DEF Reported
    <3>3. QED
      BY <3>1, <3>2
  <2>2. ASSUME NEW x \in old, x \in Reported(x[1], cache[x[1]])
        PROVE  x \in Reported(x[1], cache[x[1]])'
    <3>1. CASE x[1] = o /\ cache[o] = object[o]
      <4>1. x \in Reported(x[1], object[x[1]])'
        BY <2>1, <2>2, <3>1
      <4>2. QED
        BY <1>5, <3>1, <4>1 DEF Reported
    <3>2. CASE ~ (x[1] = o /\ cache[o] = object[o])
      <4>1. x[1] \in Object
        BY <1>1 DEF TypeOK, Issue
      <4>2. QED
        BY <1>2, <1>5, <2>2, <3>2, <4>1 DEF Reported
    <3>3. QED
      BY <3>1, <3>2
  <2>3. QED
    BY <1>1, <1>2, <2>1, <2>2 DEF OldIsKnown
<1>11. QED
  BY <1>6, <1>7, <1>8, <1>9, <1>10 DEF Inv

LEMMA TickStep ==
  ASSUME Inv, Tick
  PROVE  Inv'
<1>1. TypeOK /\ KindsKept /\ StartsComplete /\ WorkedOff /\ OldIsKnown
  BY DEF Inv
<1>2. /\ UNCHANGED <<kind, object, changes, cache, listed, dirty, work, open, seen, lapsed, stage, old>>
      /\ stage # "syncing"
      /\ age' = IF age < BaselineTTL THEN age + 1 ELSE age
      /\ first' = [o \in Object |-> IF first[o] # Never /\ first[o] < Patience
                                    THEN first[o] + 1 ELSE first[o]]
  BY DEF Tick, clusterVars, informerVars, queueVars, engineVars
<1>3. age' \in 0 .. BaselineTTL /\ (age' < BaselineTTL => age < BaselineTTL)
  BY <1>1, <1>2, ControllerAssumption DEF TypeOK
<1>4. \A o \in Object : /\ first'[o] \in 0 .. Patience \cup {Never}
                        /\ first'[o] = Never <=> first[o] = Never
  <2> SUFFICES ASSUME NEW o \in Object
               PROVE  /\ first'[o] \in 0 .. Patience \cup {Never}
                      /\ first'[o] = Never <=> first[o] = Never
    OBVIOUS
  <2>1. first[o] \in 0 .. Patience \cup {Never}
    BY <1>1 DEF TypeOK
  <2>2. CASE first[o] = Never
    BY <1>2, <2>2
  <2>3. CASE first[o] # Never
    <3>1. first[o] \in 0 .. Patience /\ first'[o] \in 0 .. Patience
      BY <1>2, <2>1, <2>3, PatienceType
    <3>2. QED
      BY <2>3, <3>1, PatienceType, Sentinels
  <2>4. QED
    BY <2>2, <2>3
<1>5. first' \in [Object -> 0 .. Patience \cup {Never}]
  BY <1>2, <1>4
<1>6. TypeOK'
  BY <1>1, <1>2, <1>3, <1>5 DEF TypeOK
<1>7. KindsKept'
  BY <1>1, <1>2, <1>4 DEF KindsKept
<1>8. StartsComplete'
  BY <1>1, <1>2 DEF StartsComplete
<1>9. WorkedOff'
  <2>1. ASSUME NEW p \in Object PROVE WorkedOffOf(p)'
    BY <1>1, <1>2, <1>4, Untouched, EngineStays DEF WorkedOff, Reached
  <2>2. QED
    BY <2>1 DEF WorkedOff
<1>10. OldIsKnown'
  BY <1>1, <1>2, <1>3 DEF OldIsKnown, Reported
<1>11. QED
  BY <1>6, <1>7, <1>8, <1>9, <1>10 DEF Inv

(* The first List of an object, or an event of the watch: its key waits,   *)
(* unless there was and is nothing.                                        *)
LEMMA InformStep ==
  ASSUME Inv, NEW o \in Object, List(o) \/ Watch(o)
  PROVE  Inv'
<1>1. TypeOK /\ KindsKept /\ StartsComplete /\ WorkedOff /\ OldIsKnown
  BY DEF Inv
<1>2. /\ UNCHANGED <<kind, object, changes, work, open, seen, lapsed, stage, first, age, old>>
      /\ cache' = [cache EXCEPT ![o] = object[o]]
      /\ listed' = listed \cup {o}
      /\ \/ dirty' = dirty \cup {o}
         \/ dirty' = dirty /\ stage = "stopped"
         \/ dirty' = dirty /\ object[o] = Absent /\ o \notin listed
  BY DEF List, Watch, Add, clusterVars, engineVars
<1>3. /\ cache' \in [Object -> Status \cup {Absent}] /\ cache'[o] = object[o]
      /\ \A p \in Object : p # o => cache'[p] = cache[p]
      /\ dirty' \subseteq Object /\ dirty \subseteq dirty'
  BY <1>1, <1>2 DEF TypeOK
<1>4. TypeOK'
  BY <1>1, <1>2, <1>3 DEF TypeOK
<1>5. KindsKept'
  BY <1>1, <1>2, <1>3 DEF KindsKept
<1>6. StartsComplete'
  BY <1>1, <1>2, <1>3 DEF StartsComplete, TypeOK
<1>7. WorkedOff'
  <2>1. ASSUME NEW p \in Object, cache'[p] = cache[p]
        PROVE  WorkedOffOf(p)'
    BY <1>1, <1>2, <1>3, <2>1, Untouched, EngineStays DEF WorkedOff, Reached
  <2>2. ASSUME cache'[o] # cache[o]
        PROVE  WorkedOffOf(o)'
    <3>1. o \notin listed => cache[o] = Absent
      BY <1>1 DEF StartsComplete
    <3>2. o \in dirty' \/ stage' = "stopped"
      BY <1>2, <1>3, <2>2, <3>1
    <3>3. QED
      BY <3>2 DEF WorkedOffOf, Reached
  <2>3. ASSUME NEW p \in Object PROVE WorkedOffOf(p)'
    BY <1>3, <2>1, <2>2
  <2>4. QED
    BY <2>3 DEF WorkedOff
<1>8. OldIsKnown'
  <2>1. ASSUME NEW x \in old, x[1] \in listed'
        PROVE  x \in Reported(x[1], cache[x[1]])'
    <3>1. x[1] \in Object /\ x \in Reported(x[1], object[x[1]])
      BY <1>1 DEF TypeOK, Issue, OldIsKnown
    <3>2. CASE x[1] = o
      BY <1>2, <1>3, <3>1, <3>2 DEF Reported
    <3>3. CASE x[1] # o
      <4>1. x \in Reported(x[1], cache[x[1]])
        BY <1>1, <1>2, <2>1, <3>3 DEF OldIsKnown
      <4>2. QED
        BY <1>2, <1>3, <3>1, <3>3, <4>1 DEF Reported
    <3>4. QED
      BY <3>2, <3>3
  <2>2. ASSUME NEW x \in old PROVE x \in Reported(x[1], object[x[1]])'
    BY <1>1, <1>2 DEF OldIsKnown, Reported
  <2>3. QED
    BY <1>1, <1>2, <2>1, <2>2 DEF OldIsKnown
<1>9. QED
  BY <1>4, <1>5, <1>6, <1>7, <1>8 DEF Inv

(* Steps that touch neither the cluster nor a cache, the engine or what a  *)
(* worker has.                                                             *)
LEMMA IdleStep ==
  ASSUME Inv, Resync \/ Stop \/ UNCHANGED vars
  PROVE  Inv'
<1>1. TypeOK /\ KindsKept /\ StartsComplete /\ WorkedOff /\ OldIsKnown
  BY DEF Inv
<1>2. /\ UNCHANGED <<kind, object, changes, cache, listed, work, open, seen, lapsed, first, age, old>>
      /\ \/ stage = "serving" /\ stage' \in {"serving", "stopped"}
         \/ stage' = stage
      /\ dirty \subseteq dirty' /\ dirty' \subseteq dirty \cup Listed
  BY DEF Resync, Stop, vars, clusterVars, informerVars, queueVars, engineVars
<1>3. dirty' \subseteq Object /\ stage' \in {"syncing", "serving", "stopped"}
  BY <1>1, <1>2 DEF TypeOK, Listed
<1>4. TypeOK'
  BY <1>1, <1>2, <1>3 DEF TypeOK
<1>5. KindsKept'
  BY <1>1, <1>2 DEF KindsKept
<1>6. StartsComplete'
  BY <1>1, <1>2 DEF StartsComplete
<1>7. WorkedOff'
  <2>1. ASSUME NEW p \in Object PROVE WorkedOffOf(p)'
    <3>1. Reached(p)' => Reached(p)
      BY <1>2 DEF Reached
    <3>2. QED
      BY <1>1, <1>2, <3>1, Untouched, EngineStays DEF WorkedOff
  <2>2. QED
    BY <2>1 DEF WorkedOff
<1>8. OldIsKnown'
  BY <1>1, <1>2 DEF OldIsKnown, Reported
<1>9. QED
  BY <1>4, <1>5, <1>6, <1>7, <1>8 DEF Inv

(* What is closed for not having been seen was open, and only leaves it.   *)
LEMMA CleanupStep ==
  ASSUME Inv, cleanup
  PROVE  Inv'
<1>1. TypeOK /\ KindsKept /\ StartsComplete /\ WorkedOff /\ OldIsKnown
  BY DEF Inv
<1>2. PICK unseen \in SUBSET open :
        open' = open \ unseen /\ seen' = seen \ unseen /\ lapsed' = lapsed \cup unseen
  BY DEF cleanup
<1>3. UNCHANGED <<kind, object, changes, cache, listed, dirty, work, stage, first, age, old>>
  BY DEF cleanup, clusterVars, informerVars, queueVars
<1>4. TypeOK'
  <2>1. IsFiniteSet(seen)
    BY <1>1, SeenFinite
  <2>2. Cardinality(seen') <= Cardinality(seen) /\ Cardinality(seen) \in Nat /\ Cardinality(seen') \in Nat
    BY <1>2, <2>1, FS_Subset, FS_CardinalityType
  <2>3. Cardinality(seen') <= MaxBaseline
    BY <1>1, <2>2, ControllerAssumption DEF TypeOK
  <2>4. QED
    BY <1>1, <1>2, <1>3, <2>3 DEF TypeOK
<1>5. KindsKept'
  BY <1>1, <1>3 DEF KindsKept
<1>6. StartsComplete'
  BY <1>1, <1>2, <1>3 DEF StartsComplete
<1>7. WorkedOff'
  <2>1. ASSUME NEW p \in Object PROVE WorkedOffOf(p)'
    <3>1. OpenOf(p)' \subseteq OpenOf(p) /\ (Reached(p)' => Reached(p))
      BY <1>2, <1>3 DEF OpenOf, Reached
    <3>2. \A x \in open \cup seen \cup lapsed : x \in open' \cup seen' \cup lapsed'
      BY <1>2
    <3>3. QED
      BY <1>1, <1>3, <3>1, <3>2, Untouched DEF WorkedOff
  <2>2. QED
    BY <2>1 DEF WorkedOff
<1>8. OldIsKnown'
  BY <1>1, <1>2, <1>3 DEF OldIsKnown, Reported
<1>9. QED
  BY <1>4, <1>5, <1>6, <1>7, <1>8 DEF Inv

LEMMA GetStep ==
  ASSUME Inv, NEW o \in Object, Get(o)
  PROVE  Inv'
<1>1. TypeOK /\ KindsKept /\ StartsComplete /\ WorkedOff /\ OldIsKnown
  BY DEF Inv
<1>2. /\ UNCHANGED <<kind, object, changes, cache, listed, open, seen, lapsed, stage, first, age, old>>
      /\ stage # "syncing" /\ dirty' = dirty \ {o} /\ work' = [work EXCEPT ![o] = cache[o]]
  BY DEF Get, Lister, clusterVars, informerVars, engineVars
<1>3. /\ work' \in [Object -> Status \cup {Absent, NoWork}] /\ work'[o] = cache[o]
      /\ \A p \in Object : p # o => work'[p] = work[p]
      /\ cache[o] \in Statuses(kind[o]) \cup {Absent} /\ cache[o] # NoWork
  <2>1. cache[o] \in Statuses(kind[o]) \cup {Absent} /\ cache[o] \in Status \cup {Absent}
    BY <1>1 DEF KindsKept, TypeOK
  <2>2. QED
    BY <1>1, <1>2, <2>1, Sentinels DEF TypeOK
<1>4. TypeOK'
  BY <1>1, <1>2, <1>3 DEF TypeOK
<1>5. KindsKept'
  BY <1>1, <1>2, <1>3 DEF KindsKept
<1>6. StartsComplete'
  BY <1>1, <1>2 DEF StartsComplete
<1>7. WorkedOff'
  <2>1. ASSUME NEW p \in Object, p # o PROVE WorkedOffOf(p)'
    <3>1. Reached(p)' => Reached(p)
      BY <1>2, <2>1 DEF Reached
    <3>2. QED
      BY <1>1, <1>2, <1>3, <2>1, <3>1, Untouched, EngineStays DEF WorkedOff
  <2>2. WorkedOffOf(o)'
    BY <1>2, <1>3 DEF WorkedOffOf, Agrees
  <2>3. QED
    BY <2>1, <2>2 DEF WorkedOff
<1>8. OldIsKnown'
  BY <1>1, <1>2 DEF OldIsKnown, Reported
<1>9. QED
  BY <1>4, <1>5, <1>6, <1>7, <1>8 DEF Inv

LEMMA ProcessStep ==
  ASSUME Inv, NEW o \in Object, Process(o)
  PROVE  Inv'
<1>1. TypeOK /\ KindsKept /\ StartsComplete /\ WorkedOff /\ OldIsKnown /\ kind[o] \in Kind
  BY KindType DEF Inv
<1>2. PICK s : s = Read(o)
  OBVIOUS
<1>3. /\ UNCHANGED <<kind, object, changes, cache, listed, dirty, stage, age, old>>
      /\ work[o] # NoWork /\ work' = [work EXCEPT ![o] = NoWork] /\ Handle(o, s)
      /\ lapsed' = {x \in lapsed : x[1] # o}
  BY <1>2 DEF Process, Handle, clusterVars, informerVars
<1>4. s \in Statuses(kind[o]) \cup {Absent}
  BY <1>1, <1>2, <1>3 DEF Read, KindsKept
<1>5. /\ Fits3(o, s)'
      /\ \A x : x[1] # o => (x \in open \cup seen <=> x \in open' \cup seen')
      /\ first' \in [Object -> 0 .. Patience \cup {Never}]
      /\ seen' \subseteq seen
      /\ open' \subseteq Issue /\ \A x \in open' : x[2] \in Reasons[kind[x[1]]]
      /\ age < BaselineTTL /\ old \subseteq seen /\ old \cap open = {}
           => old \subseteq seen' /\ old \cap open' = {}
  BY <1>3, <1>4, HandleFits
<1>51. \A p \in Object : p # o => OpenOf(p)' = OpenOf(p)
  BY <1>3, <1>4, HandleFits
<1>52. \A p \in Object : p # o \/ kind[p] \notin {"daemonset", "hpa"} => first'[p] = first[p]
  BY <1>3, <1>4, HandleFits
<1>6. /\ work' \in [Object -> Status \cup {Absent, NoWork}] /\ work'[o] = NoWork
      /\ \A p \in Object : p # o => work'[p] = work[p]
  BY <1>1, <1>3 DEF TypeOK
<1>7. stage # "syncing"
  BY <1>1, <1>3 DEF StartsComplete
<1>8. TypeOK'
  <2>1. Cardinality(seen') <= MaxBaseline
    <3>1. IsFiniteSet(seen)
      BY <1>1, SeenFinite
    <3>2. Cardinality(seen') <= Cardinality(seen) /\ Cardinality(seen) \in Nat /\ Cardinality(seen') \in Nat
      BY <1>5, <3>1, FS_Subset, FS_CardinalityType
    <3>3. QED
      BY <1>1, <3>2, ControllerAssumption DEF TypeOK
  <2>2. seen' \subseteq Issue /\ \A x \in open' \cup seen' : x[2] \in Reasons[kind[x[1]]]
    BY <1>1, <1>5 DEF TypeOK
  <2>3. QED
    BY <1>1, <1>3, <1>5, <1>6, <2>1, <2>2 DEF TypeOK
<1>9. KindsKept'
  <2>1. ASSUME NEW p \in Object PROVE work'[p] = work[p] \/ work'[p] = NoWork
    BY <1>6
  <2>2. ASSUME NEW p \in Object, kind[p] \notin {"daemonset", "hpa"} PROVE first'[p] = Never
    BY <1>1, <1>52, <2>2 DEF KindsKept
  <2>3. QED
    BY <1>1, <1>3, <2>1, <2>2 DEF KindsKept
<1>10. StartsComplete'
  BY <1>1, <1>3, <1>7 DEF StartsComplete
<1>11. WorkedOff'
  <2>1. ASSUME NEW p \in Object, p # o PROVE WorkedOffOf(p)'
    <3>1. OpenOf(p)' = OpenOf(p) /\ first'[p] = first[p] /\ work'[p] = work[p]
      BY <1>51, <1>52, <1>6, <2>1
    <3>2. \A x \in open \cup seen \cup lapsed : x[1] = p => x \in open' \cup seen' \cup lapsed'
      BY <1>3, <1>5, <2>1
    <3>3. Reached(p)' => Reached(p)
      BY <1>3 DEF Reached
    <3>4. WorkedOffOf(p) /\ kind' = kind /\ cache'[p] = cache[p]
      BY <1>1, <1>3 DEF WorkedOff
    <3>5. QED
      BY <3>1, <3>2, <3>3, <3>4, Untouched
  <2>2. ASSUME Reached(o) PROVE Fits3(o, cache[o])'
    <3>1. Agrees(o, work[o], cache[o])
      BY <1>1, <1>3, <2>2 DEF WorkedOff, WorkedOffOf
    <3>2. Agrees(o, s, cache[o])
      BY <1>2, <3>1 DEF Read, Agrees
    <3>3. PICK t : t = cache[o]
      OBVIOUS
    <3>4. Fits3(o, t)'
      <4>1. Agrees(o, s, t)' /\ kind'[o] \in Kind
        BY <1>1, <1>3, <3>2, <3>3 DEF Agrees
      <4>2. (kind[o] \in Kind /\ Agrees(o, s, t) /\ Fits3(o, s) => Fits3(o, t))'
        BY AgreeFits, PTL
      <4>3. QED
        BY <1>5, <4>1, <4>2
    <3>5. QED
      BY <1>3, <3>3, <3>4 DEF Fits3, OpenFits, ToldOf, AtOnceOf, MemoryFits, Reported, PassedOver
  <2>3. WorkedOffOf(o)'
    BY <1>3, <1>6, <2>2 DEF WorkedOffOf, Reached
  <2>4. QED
    BY <2>1, <2>3 DEF WorkedOff
<1>12. OldIsKnown'
  <2>1. \A x \in old' : /\ x \in Reported(x[1], object[x[1]])'
                        /\ x[1] \in listed' => x \in Reported(x[1], cache[x[1]])'
    BY <1>1, <1>3 DEF OldIsKnown, Reported
  <2>2. stage' # "syncing" /\ age' < BaselineTTL => old' \subseteq seen' /\ old' \cap open' = {}
    BY <1>1, <1>3, <1>5, <1>7 DEF OldIsKnown
  <2>3. QED
    BY <2>1, <2>2 DEF OldIsKnown
<1>13. QED
  BY <1>8, <1>9, <1>10, <1>11, <1>12 DEF Inv

(* Every cache is complete, so what is old is found; what the baseline has *)
(* no room for ceases to count.                                            *)
LEMMA RunStep ==
  ASSUME Inv, Run
  PROVE  Inv'
<1>1. TypeOK /\ KindsKept /\ StartsComplete /\ WorkedOff /\ OldIsKnown
  BY DEF Inv
<1>2. /\ UNCHANGED <<kind, object, changes, cache, listed, dirty, work, open, lapsed, first, age>>
      /\ stage = "syncing" /\ stage' = "serving" /\ listed = Object
  BY DEF Run, WaitForCacheSync, clusterVars, informerVars, queueVars
<1>3. PICK baseline \in SUBSET Found :
        Fits(baseline) /\ seen' = baseline /\ old' = old \ (Found \ baseline)
  BY DEF Run, buildSeenSet
<1>4. open = {} /\ seen = {}
  BY <1>1, <1>2 DEF StartsComplete
<1>5. \A x \in Found : x \in Issue /\ x[2] \in Reasons[kind[x[1]]]
  <2> SUFFICES ASSUME NEW x \in Found
               PROVE  x \in Issue /\ x[2] \in Reasons[kind[x[1]]]
    OBVIOUS
  <2>1. PICK o \in Listed : x \in Reported(o, cache[o])
    BY DEF Found, Lister
  <2>2. o \in Object /\ kind[o] \in Kind /\ cache[o] \in Statuses(kind[o]) \cup {Absent}
    BY <1>1, KindType DEF Listed, KindsKept
  <2>3. x[1] = o /\ x[2] \in Detect(kind[o], cache[o]) /\ x = <<o, x[2]>>
    BY <2>1, ReportedIs
  <2>4. x[2] \in Reasons[kind[o]] /\ x[2] \in Reason
    BY <2>2, <2>3, Detected, ReasonsOfKind
  <2>5. <<o, x[2]>> \in Issue
    BY <2>2, <2>4 DEF Issue
  <2>6. QED
    BY <2>3, <2>4, <2>5
<1>6. Cardinality(baseline) <= MaxBaseline
  <2>1. Found \in SUBSET Issue
    BY <1>5
  <2>2. Cardinality(Found) \in Nat
    BY <2>1, IssuesFinite, FS_CardinalityType
  <2>3. QED
    BY <1>3, <2>2, ControllerAssumption DEF Fits
<1>7. TypeOK'
  <2>1. seen' \subseteq Issue /\ Cardinality(seen') <= MaxBaseline /\ old' \subseteq Issue
    BY <1>1, <1>3, <1>5, <1>6 DEF TypeOK
  <2>2. \A x \in open' \cup seen' : x[2] \in Reasons[kind'[x[1]]]
    BY <1>2, <1>3, <1>4, <1>5
  <2>3. QED
    BY <1>1, <1>2, <1>4, <2>1, <2>2 DEF TypeOK
<1>8. KindsKept' /\ StartsComplete'
  BY <1>1, <1>2 DEF KindsKept, StartsComplete
<1>9. WorkedOff'
  <2>1. ASSUME NEW p \in Object PROVE WorkedOffOf(p)'
    <3>1. Reached(p)' => Reached(p)
      BY <1>2 DEF Reached
    <3>2. OpenOf(p)' = OpenOf(p)
      BY <1>2 DEF OpenOf
    <3>3. QED
      BY <1>1, <1>2, <1>4, <3>1, <3>2, Untouched DEF WorkedOff
  <2>2. QED
    BY <2>1 DEF WorkedOff
<1>10. OldIsKnown'
  <2>1. \A x \in old' : /\ x \in Reported(x[1], object[x[1]])'
                        /\ x[1] \in listed' => x \in Reported(x[1], cache[x[1]])'
    BY <1>1, <1>2, <1>3 DEF OldIsKnown, Reported
  <2>2. ASSUME NEW x \in old PROVE x \in Found
    <3>1. x[1] \in Object /\ x \in Reported(x[1], cache[x[1]])
      BY <1>1, <1>2 DEF OldIsKnown, TypeOK, Issue
    <3>2. cache[x[1]] # Absent
      BY <1>1, <3>1, KindType, DetectIs, ReportedIs
    <3>3. x[1] \in Listed
      BY <3>1, <3>2 DEF Listed, Lister
    <3>4. QED
      BY <3>1, <3>3 DEF Found, Lister
  <2>3. old' \subseteq seen' /\ old' \cap open' = {}
    BY <1>2, <1>3, <1>4, <2>2
  <2>4. QED
    BY <2>1, <2>3 DEF OldIsKnown
<1>11. QED
  BY <1>7, <1>8, <1>9, <1>10 DEF Inv

LEMMA InitInv == Init => Inv
<1> SUFFICES ASSUME Init PROVE Inv
  OBVIOUS
<1>1. kind \in Kinds /\ kind \in [Object -> Kind]
  BY ControllerAssumption DEF Init
<1>2. \A o \in Object : object[o] \in Statuses(kind[o]) \cup {Absent}
  BY DEF Init
<1>3. old \subseteq Issue /\ \A x \in old : x[1] \in Object /\ x \in Reported(x[1], object[x[1]])
  <2> SUFFICES ASSUME NEW x \in old
               PROVE  x \in Issue /\ x[1] \in Object /\ x \in Reported(x[1], object[x[1]])
    OBVIOUS
  <2>1. PICK o \in Object : x \in Reported(o, object[o])
    BY DEF Init
  <2>2. x[1] = o /\ x[2] \in Detect(kind[o], object[o]) /\ x = <<o, x[2]>>
    BY <2>1, ReportedIs
  <2>3. x[2] \in Reason
    BY <1>1, <1>2, <2>2, Detected, ReasonsOfKind
  <2>4. <<o, x[2]>> \in Issue
    BY <2>3 DEF Issue
  <2>5. QED
    BY <2>1, <2>2, <2>4
<1>4. TypeOK
  <2>1. object \in [Object -> Status \cup {Absent}]
    <3>1. \A o \in Object : object[o] \in Status \cup {Absent}
      BY <1>1, <1>2, StatusType
    <3>2. QED
      BY <3>1 DEF Init
  <2>2. /\ cache \in [Object -> Status \cup {Absent}]
        /\ work \in [Object -> Status \cup {Absent, NoWork}]
        /\ first \in [Object -> 0 .. Patience \cup {Never}]
    BY DEF Init
  <2>3. open = {} /\ seen = {} /\ Cardinality(seen) <= MaxBaseline
    BY FS_EmptySet, ControllerAssumption DEF Init
  <2>4. age \in 0 .. BaselineTTL /\ changes \in 0 .. MaxChanges
    BY ControllerAssumption DEF Init
  <2>5. QED
    BY <1>1, <1>3, <2>1, <2>2, <2>3, <2>4 DEF Init, TypeOK
<1>5. KindsKept /\ StartsComplete
  BY <1>2 DEF Init, KindsKept, StartsComplete
<1>6. WorkedOff
  <2>1. ASSUME NEW o \in Object PROVE Fits3(o, cache[o]) /\ work[o] = NoWork
    <3>1. cache[o] = Absent /\ first[o] = Never /\ OpenOf(o) = {} /\ work[o] = NoWork
      BY DEF Init, OpenOf
    <3>2. Reported(o, cache[o]) = {}
      BY <1>1, <3>1, DetectIs, ReportedIs
    <3>3. QED
      BY <3>1, <3>2 DEF Fits3, OpenFits, ToldOf, AtOnceOf, MemoryFits
  <2>2. QED
    BY <2>1 DEF WorkedOff, WorkedOffOf
<1>7. OldIsKnown
  BY <1>3 DEF Init, OldIsKnown
<1>8. QED
  BY <1>4, <1>5, <1>6, <1>7 DEF Inv

LEMMA Invariant == Spec => []Inv
<1>1. Inv /\ [Next]_vars => Inv'
  <2> SUFFICES ASSUME Inv, [Next]_vars PROVE Inv'
    OBVIOUS
  <2>1. ASSUME NEW o \in Object,
               Change(o) \/ Overdue(o) \/ List(o) \/ Watch(o) \/ Get(o) \/ Process(o)
        PROVE  Inv'
    BY <2>1, ChangeStep, OverdueStep, InformStep, GetStep, ProcessStep
  <2>2. CASE Run \/ Stop \/ Resync \/ cleanup \/ Tick \/ UNCHANGED vars
    BY <2>2, RunStep, TickStep, IdleStep, CleanupStep
  <2>3. QED
    BY <2>1, <2>2 DEF Next
<1>2. QED
  BY <1>1, InitInv, PTL DEF Spec

-----------------------------------------------------------------------------
(* What follows.                                                           *)

LEMMA CaughtUpFits ==
  ASSUME Inv, NEW o \in Object, CaughtUp(o)
  PROVE  /\ Now(o) = Reported(o, cache[o]) /\ Unread(o) = PassedOver(o, cache[o])
         /\ Fits3(o, cache[o])
         /\ AtOnce(o) = AtOnceOf(o, cache[o])
<1>1. Fits3(o, cache[o])
  BY DEF Inv, WorkedOff, WorkedOffOf, Reached, CaughtUp
<1>2. Now(o) = Reported(o, cache[o]) /\ Unread(o) = PassedOver(o, cache[o])
  BY DEF Now, Unread, CaughtUp
<1>3. QED
  BY <1>1, <1>2 DEF AtOnce, AtOnceOf

(***************************************************************************)
(* However changes, cache updates and workers interleave: nothing is open  *)
(* for an object that is gone or well, once its key is worked off, but for *)
(* the conditions a node does not list or the configuration ignores.       *)
(***************************************************************************)
THEOREM OnlyCurrentAlwaysOpen == Spec => []OnlyCurrentIsOpen
<1>1. Inv => OnlyCurrentIsOpen
  BY CaughtUpFits DEF OnlyCurrentIsOpen, Fits3, OpenFits
<1>2. QED
  BY <1>1, Invariant, PTL

(***************************************************************************)
(* And what is wrong with it, and needs no time to be reported, is open or *)
(* in the baseline, or it was open and the engine's cleanup closed it.     *)
(***************************************************************************)
THEOREM WrongAlwaysOpen == Spec => []WhatIsWrongIsOpen
<1>1. Inv => WhatIsWrongIsOpen
  BY CaughtUpFits DEF WhatIsWrongIsOpen, Fits3, ToldOf
<1>2. QED
  BY <1>1, Invariant, PTL

(***************************************************************************)
(* What was wrong at the start and has been since does not page before the *)
(* baseline expires, for any number of objects and any order in which they *)
(* are listed, if the baseline had room for it.                            *)
(***************************************************************************)
THEOREM OldAlwaysQuiet == Spec => []OldIssuesAreQuiet
<1>1. Inv => OldIssuesAreQuiet
  BY DEF Inv, OldIsKnown, StartsComplete, OldIssuesAreQuiet
<1>2. QED
  BY <1>1, Invariant, PTL

(***************************************************************************)
(* What the handlers remember of a trouble ends with it, the variables     *)
(* have their types and the baseline its limit.                            *)
(***************************************************************************)
THEOREM MemoryAlwaysEnds == Spec => []MemoryEndsWithTrouble
<1>1. Inv => MemoryEnds
  <2> SUFFICES ASSUME Inv, NEW o \in Object, CaughtUp(o), first[o] # Never,
                      ~ (kind[o] = "daemonset" /\ object[o] = Absent)
               PROVE  Now(o) # {}
    BY DEF MemoryEnds
  <2>1. cache[o] = object[o]
    BY DEF CaughtUp
  <2>2. QED
    BY <2>1, CaughtUpFits DEF Fits3, MemoryFits
<1>2. Inv => MemoryEndsWithTrouble
  BY <1>1 DEF Inv, MemoryEndsWithTrouble
<1>3. QED
  BY <1>2, Invariant, PTL
=============================================================================
