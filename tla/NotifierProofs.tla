--------------------------- MODULE NotifierProofs ---------------------------
(***************************************************************************)
(* What holds of a provider's jobs, threads, pauses and dead letters, for  *)
(* every number of keys, channel, routes, retries and integer width.       *)
(***************************************************************************)
EXTENDS Notifier, FiniteSetTheorems, TLAPS

-----------------------------------------------------------------------------
(* The dead-letter ring, on its own.                                       *)

(* The remainder of what lies at most one round away.                      *)
LEMMA OneRound ==
  ASSUME NEW c \in Nat \ {0}
  PROVE  \A x \in 0 .. 2 * c - 1 : x % c = IF x < c THEN x ELSE x - c
BY SMT

(* The slot of the i-th of m entries when h is written next.               *)
Back(h, m, i) == IF h - m + i - 1 < 0 THEN h - m + i - 1 + DlqCap ELSE h - m + i - 1

(***************************************************************************)
(* While the ring fills up, the head is at the end of what is written; the *)
(* failures are found going back from the head, through the wrap.          *)
(***************************************************************************)
Fill ==
  /\ Len(latest) < DlqCap => dlqHead = Len(latest)
  /\ \A s \in Slot : dlqRing[s] # Empty <=> s < Len(latest)

Contents ==
  \A i \in 1 .. Len(latest) : dlqRing[Back(dlqHead, Len(latest), i)] = latest[i]

DlqInv == DlqTypeOK /\ Fill /\ Contents

LEMMA DlqInitInv == DlqInit => DlqInv
<1> SUFFICES ASSUME DlqInit PROVE DlqInv
  OBVIOUS
<1>1. Len(latest) = 0 /\ DlqCap \in Nat \ {0}
  BY DeadLetterAssumption DEF DlqInit
<1>2. DlqTypeOK
  BY <1>1 DEF DlqInit, DlqTypeOK, Slot
<1>3. Fill
  BY <1>1 DEF DlqInit, Fill, Slot
<1>4. Contents
  BY <1>1 DEF Contents
<1> QED
  BY <1>2, <1>3, <1>4 DEF DlqInv

LEMMA RecordKeepsDlqInv ==
  ASSUME DlqInv, NEW f \in Failure, recordDeadLetter(f)
  PROVE  DlqInv'
<1> DEFINE m == Len(latest)
           h == dlqHead
<1>1. DlqCap \in Nat \ {0} /\ Empty \notin Failure
  BY DeadLetterAssumption
<1>2. /\ latest \in Seq(Failure) /\ m \in Nat /\ m <= DlqCap
      /\ h \in 0 .. DlqCap - 1
      /\ dlqRing \in [Slot -> Failure \cup {Empty}]
  BY DEF DlqInv, DlqTypeOK, Slot
<1>3. dlqHead' = IF h + 1 < DlqCap THEN h + 1 ELSE 0
  <2> DEFINE k == h + 1
  <2>1. dlqHead' = k % DlqCap
    BY DEF recordDeadLetter, NextSlot
  <2>2. k \in 0 .. 2 * DlqCap - 1
    BY <1>1, <1>2
  <2> HIDE DEF k
  <2>3. dlqHead' = IF k < DlqCap THEN k ELSE k - DlqCap
    BY <2>1, <2>2, <1>1, OneRound
  <2> QED
    BY <2>3, <1>1, <1>2 DEF k
<1>4. dlqRing' = [dlqRing EXCEPT ![h] = f] /\ h \in Slot
  BY <1>2 DEF recordDeadLetter, Slot
<1>5. /\ latest' \in Seq(Failure)
      /\ Len(latest') = IF m < DlqCap THEN m + 1 ELSE DlqCap
      /\ m < DlqCap => \A i \in 1 .. m : latest'[i] = latest[i]
      /\ m = DlqCap => \A i \in 1 .. m - 1 : latest'[i] = latest[i + 1]
      /\ latest'[Len(latest')] = f
  <2>1. CASE m < DlqCap
    BY <2>1, <1>1, <1>2 DEF recordDeadLetter
  <2>2. CASE m = DlqCap
    <3>1. latest # <<>>
      BY <2>2, <1>1, <1>2
    <3>2. Tail(latest) \in Seq(Failure) /\ Len(Tail(latest)) = m - 1
      BY <3>1, <1>2
    <3>3. \A i \in 1 .. m - 1 : Tail(latest)[i] = latest[i + 1]
      BY <3>1, <1>2
    <3> QED
      BY <2>2, <3>2, <3>3, <1>1, <1>2 DEF recordDeadLetter
  <2> QED
    BY <2>1, <2>2, <1>1, <1>2
<1>6. DlqTypeOK'
  BY <1>1, <1>2, <1>3, <1>4, <1>5 DEF DlqTypeOK, Slot
<1>7. Fill'
  <2>1. m < DlqCap => h = m
    BY DEF DlqInv, Fill
  <2>2. \A s \in Slot : dlqRing[s] # Empty <=> s < m
    BY DEF DlqInv, Fill
  <2>3. \A s \in Slot : dlqRing'[s] = IF s = h THEN f ELSE dlqRing[s]
    BY <1>2, <1>4
  <2>4. Len(latest') < DlqCap => dlqHead' = Len(latest')
    BY <1>1, <1>2, <1>3, <1>5, <2>1
  <2>5. ASSUME NEW s \in Slot
        PROVE  dlqRing'[s] # Empty <=> s < Len(latest')
    <3>1. s \in 0 .. DlqCap - 1
      BY DEF Slot
    <3>2. CASE s = h
      BY <3>1, <3>2, <1>1, <1>2, <1>5, <2>1, <2>3
    <3>3. CASE s # h
      <4>1. dlqRing'[s] # Empty <=> s < m
        BY <3>3, <2>2, <2>3
      <4>2. s < m <=> s < Len(latest')
        BY <3>1, <3>3, <1>1, <1>2, <1>5, <2>1
      <4> QED
        BY <4>1, <4>2
    <3> QED
      BY <3>2, <3>3
  <2> QED
    BY <2>4, <2>5 DEF Fill, Slot
<1>8. Contents'
  <2>1. m < DlqCap => h = m
    BY DEF DlqInv, Fill
  <2>2. \A i \in 1 .. m : dlqRing[Back(h, m, i)] = latest[i]
    BY DEF DlqInv, Contents
  <2> SUFFICES ASSUME NEW i \in 1 .. Len(latest')
               PROVE  dlqRing'[Back(dlqHead', Len(latest'), i)] = latest'[i]
    BY DEF Contents, Back
  <2>3. CASE i = Len(latest')
    <3>1. Back(dlqHead', Len(latest'), i) = h
      BY <2>3, <1>1, <1>2, <1>3, <1>5 DEF Back
    <3> QED
      BY <3>1, <2>3, <1>2, <1>4, <1>5
  <2>4. CASE i # Len(latest') /\ m < DlqCap
    <3>1. i \in 1 .. m /\ latest'[i] = latest[i]
      BY <2>4, <1>2, <1>5
    <3>2. /\ Back(dlqHead', Len(latest'), i) = Back(h, m, i)
          /\ Back(h, m, i) \in Slot /\ Back(h, m, i) # h
      BY <2>1, <2>4, <3>1, <1>1, <1>2, <1>3, <1>5 DEF Back, Slot
    <3> QED
      BY <3>1, <3>2, <2>2, <1>2, <1>4
  <2>5. CASE i # Len(latest') /\ m = DlqCap
    <3>1. i \in 1 .. m - 1 /\ i + 1 \in 1 .. m /\ latest'[i] = latest[i + 1]
      BY <2>5, <1>1, <1>2, <1>5
    <3>2. /\ Back(dlqHead', Len(latest'), i) = Back(h, m, i + 1)
          /\ Back(h, m, i + 1) \in Slot /\ Back(h, m, i + 1) # h
      BY <2>5, <3>1, <1>1, <1>2, <1>3, <1>5 DEF Back, Slot
    <3> QED
      BY <3>1, <3>2, <2>2, <1>2, <1>4
  <2> QED
    BY <2>3, <2>4, <2>5, <1>1, <1>2
<1> QED
  BY <1>6, <1>7, <1>8 DEF DlqInv

(* What the reader computes under that invariant is the list of failures.  *)
LEMMA Reported == DlqInv => LatestFailures
<1> SUFFICES ASSUME DlqInv PROVE LatestFailures
  OBVIOUS
<1> DEFINE m == Len(latest)
<1>1. /\ DlqCap \in Nat \ {0} /\ latest \in Seq(Failure) /\ m \in Nat /\ m <= DlqCap
      /\ dlqHead \in 0 .. DlqCap - 1
  BY DeadLetterAssumption DEF DlqInv, DlqTypeOK, Slot
<1>2. \A s \in Slot : dlqRing[s] # Empty <=> s < m
  BY DEF DlqInv, Fill
<1>3. {i \in Slot : \A j \in 0 .. i : dlqRing[j] # Empty} = 0 .. m - 1
  <2>1. ASSUME NEW i \in Slot
        PROVE  (\A j \in 0 .. i : dlqRing[j] # Empty) <=> i < m
    <3>1. i \in 0 .. DlqCap - 1 /\ i \in 0 .. i /\ \A j \in 0 .. i : j \in Slot
      BY <1>1 DEF Slot
    <3>2. (\A j \in 0 .. i : dlqRing[j] # Empty) => i < m
      BY <3>1, <1>2
    <3>3. ASSUME i < m, NEW j \in 0 .. i PROVE dlqRing[j] # Empty
      <4>1. j \in Slot /\ j < m
        BY <3>1, <3>3, <1>1
      <4> QED
        BY <4>1, <1>2
    <3> QED
      BY <3>2, <3>3
  <2>2. 0 .. m - 1 = {i \in Slot : i < m}
    BY <1>1 DEF Slot
  <2> QED
    BY <2>1, <2>2
<1>4. Used = m
  <2>1. 0 \in Int /\ m - 1 \in Int
    BY <1>1
  <2>2. Cardinality(0 .. m - 1) = IF 0 > m - 1 THEN 0 ELSE (m - 1) - 0 + 1
    BY <2>1, FS_Interval, Zenon
  <2>3. Cardinality(0 .. m - 1) = m
    BY <2>2, <1>1
  <2> QED
    BY <2>3, <1>3 DEF Used
<1>5. ASSUME NEW i \in 1 .. m PROVE SlotOf(i) = Back(dlqHead, m, i)
  <2> DEFINE k == dlqHead - m + (i - 1) + DlqCap
  <2>1. SlotOf(i) = k % DlqCap
    BY <1>4 DEF SlotOf
  <2>2. k \in 0 .. 2 * DlqCap - 1
    BY <1>1
  <2> HIDE DEF k
  <2>3. SlotOf(i) = IF k < DlqCap THEN k ELSE k - DlqCap
    BY <2>1, <2>2, <1>1, OneRound
  <2> QED
    BY <2>3, <1>1 DEF k, Back
<1>6. DeadLetterList = [i \in 1 .. m |-> latest[i]]
  BY <1>4, <1>5 DEF DeadLetterList, DlqInv, Contents
<1>7. latest = [i \in 1 .. m |-> latest[i]]
  BY <1>1
<1> QED
  BY <1>6, <1>7 DEF LatestFailures

(***************************************************************************)
(* GET /deadletters shows exactly the last DlqCap failures, oldest first,  *)
(* after any number of failures and for any capacity of the ring.          *)
(***************************************************************************)
THEOREM DeadLettersExact == DlqSpec => []LatestFailures
<1>1. DlqInv /\ [DlqNext]_dlqVars => DlqInv'
  <2> SUFFICES ASSUME DlqInv, [DlqNext]_dlqVars PROVE DlqInv'
    OBVIOUS
  <2>1. CASE DlqNext
    BY <2>1, RecordKeepsDlqInv DEF DlqNext
  <2>2. CASE UNCHANGED dlqVars
    BY <2>2 DEF dlqVars, DlqInv, DlqTypeOK, Fill, Contents
  <2> QED
    BY <2>1, <2>2
<1> QED
  BY DlqInitInv, Reported, <1>1, PTL DEF DlqSpec

-----------------------------------------------------------------------------
(* The provider.                                                           *)

Resolved(job) == job.action = "Resolved"

(* The jobs on their way, in order: the worker's at 0, then the channel's. *)
Positions == {p \in 0 .. Len(ch) : p = 0 => worker.job # NoJob}

At(p) == IF p = 0 THEN worker.job ELSE ch[p]

(* Incident x is over as soon as what is behind position p was delivered,  *)
(* or it is one of the exceptions, or it is open.                          *)
WillEnd(p, x) ==
  \/ x \in OpenIds \cup untold \cup dead
  \/ \E q \in Positions : p < q /\ Resolved(At(q)) /\ At(q).id = x

(***************************************************************************)
(* Why every page ends: what is shown, and what is about to be shown, has  *)
(* its resolve behind it unless the incident is open.                      *)
(***************************************************************************)
ShownWillEnd == \A x \in shown : WillEnd(-1, x)

QueuedWillEnd == \A p \in Positions : ~ Resolved(At(p)) => WillEnd(p, At(p).id)

(* From position p on, and before position q, incident x of key k ends, or *)
(* it ended without the provider being told.                               *)
EndsWithin(p, q, k, x) ==
  \/ x \in untold
  \/ \E r \in Positions : /\ p <= r /\ r < q
                          /\ At(r).key = k /\ Resolved(At(r)) /\ At(r).id = x

Last == Len(ch) + 1

(***************************************************************************)
(* Why a thread is never another incident's: between a trace of one        *)
(* incident of a key (its thread, a job) and a trace of another one (a     *)
(* later job, what is open), the first one's resolve is under way, or is   *)
(* one that never will be.                                                 *)
(***************************************************************************)
ThreadThenJob ==
  \A q \in Positions :
    threadMap[At(q).key] \notin {At(q).id, NoId}
      => EndsWithin(0, q, At(q).key, threadMap[At(q).key])

ThreadThenOpen ==
  \A k \in Key :
    threadMap[k] \notin {incident[k].id, NoId} => EndsWithin(0, Last, k, threadMap[k])

JobThenJob ==
  \A p, q \in Positions :
    p < q /\ At(p).key = At(q).key /\ At(p).id # At(q).id
      => EndsWithin(p, q, At(p).key, At(p).id)

JobThenOpen ==
  \A p \in Positions :
    At(p).id # incident[At(p).key].id => EndsWithin(p, Last, At(p).key, At(p).id)

InTurn == ThreadThenJob /\ ThreadThenOpen /\ JobThenJob /\ JobThenOpen

(* What the engine says of an incident, or leaves unsaid.                  *)
Said(job) ==
  \/ NotifyIncident(job)
  \/ untold' = untold \cup Lost(job) /\ UNCHANGED ch

(* A job at the worker is in one of its attempts.                          *)
Attempting == worker.job # NoJob => worker.attempt \in 1 .. MaxAttempts

(* Only Slack has threads, and no more of them than the map holds.         *)
Threaded == {k \in Key : threadMap[k] # NoId}

ThreadsOfSlack ==
  /\ kind # "thread" => Threaded = {}
  /\ IsFiniteSet(Threaded) /\ Threads <= maxThreadMapSize

Inv ==
  /\ TypeOK /\ DlqInv /\ Attempting /\ PauseWithinBounds
  /\ ShownWillEnd /\ QueuedWillEnd
  /\ InTurn /\ ThreadOfItsOwn /\ ThreadsOfSlack

-----------------------------------------------------------------------------
(* Types.                                                                  *)

(* The pause is a number within the bounds, whatever the product was, or   *)
(* what the provider asked for.                                            *)
LEMMA PauseBounds ==
  ASSUME kind \in Kind, NEW n \in 1 .. MaxAttempts, NEW asked \in Int
  PROVE  LET pa == PauseAfter(n, asked)
         IN  /\ pa.length \in Int /\ pa.by \in {"backoff", "provider"}
             /\ pa.by = "provider" => pa.length > 0
             /\ pa.by = "backoff" =>
                  /\ Delay <= pa.length
                  /\ pa.length <= IF MaxBackoff[kind] < Delay THEN Delay ELSE MaxBackoff[kind]
<1> DEFINE w == 2 ^ IntBits
           h == 2 ^ (IntBits - 1)
           d == Wrapped(Delay * 2 ^ (n - 1))
           max == MaxBackoff[kind]
           b == backoffFor(n)
<1>1. /\ IntBits \in Nat \ {0} /\ w = 2 * h /\ MaxAttempts \in 1 .. 20
      /\ Delay \in - h .. h - 1 /\ max \in - h .. h - 1
  BY NotifierAssumption DEF Duration
<1>2. w \in Int /\ h \in Int /\ w \in Nat \ {0}
  BY <1>1, SMT
<1>3. d \in Int
  <2> DEFINE p == Delay * 2 ^ (n - 1)
  <2>1. p \in Int
    BY <1>1, <1>2, SMT
  <2> HIDE DEF p
  <2>2. p % w \in Int
    <3> HIDE DEF w
    <3> QED
      BY <2>1, <1>2
  <2>3. Wrapped(p) = IF p % w < h THEN p % w ELSE (p % w) - w
    BY DEF Wrapped
  <2> HIDE DEF w, h
  <2>4. Wrapped(p) \in Int
    BY <2>2, <2>3, <1>2
  <2> QED
    BY <2>4 DEF p
<1>0. Delay \in Int /\ max \in Int
  BY <1>1, <1>2
<1> HIDE DEF w, h, d
<1>4. b = LET c == IF max > 0 /\ (d > max \/ d <= 0) THEN max ELSE d
          IN  IF c < Delay THEN Delay ELSE c
  BY DEF backoffFor, d
<1>5. PauseAfter(n, asked) =
        IF asked > 0 THEN [by |-> "provider", length |-> asked]
        ELSE [by |-> "backoff", length |-> IF max > 0 THEN b ELSE Delay]
  BY DEF PauseAfter
<1> HIDE DEF max, b
<1>6. b \in Int /\ Delay <= b /\ (max > 0 => b <= IF max < Delay THEN Delay ELSE max)
  BY <1>0, <1>3, <1>4
<1>7. CASE asked > 0
  BY <1>5, <1>7
<1>8. CASE ~ asked > 0 /\ max > 0
  <2>1. PauseAfter(n, asked) = [by |-> "backoff", length |-> b]
    BY <1>5, <1>8
  <2> QED
    BY <2>1, <1>0, <1>6, <1>8 DEF max
<1>9. CASE ~ asked > 0 /\ ~ max > 0
  <2>1. PauseAfter(n, asked) = [by |-> "backoff", length |-> Delay]
    BY <1>5, <1>9
  <2> QED
    BY <2>1, <1>0, <1>9 DEF max
<1> QED
  BY <1>7, <1>8, <1>9

LEMMA Durations == RetryAfter \cup {0} \subseteq Int
<1>1. Duration \subseteq Int
  BY DEF Duration
<1> QED
  BY <1>1, NotifierAssumption

LEMMA Constants ==
  /\ ChannelCap \in Nat \ {0} /\ MaxAttempts \in 1 .. 20 /\ MaxIncidents \in Nat
  /\ MaxSilences \in Nat
  /\ Severity \subseteq Nat /\ Failure = Key /\ NoId \notin Id /\ Id \subseteq Nat
  /\ NoJob \notin Job
BY NotifierAssumption DEF NoId, Id

LEMMA NotifyTypes ==
  ASSUME TypeOK, NEW job \in Job, Said(job)
  PROVE  /\ ch' \in Seq(Job) /\ Len(ch') <= ChannelCap
         /\ untold' \subseteq Id /\ untold \subseteq untold'
<1>1. ch \in Seq(Job) /\ Len(ch) <= ChannelCap /\ untold \subseteq Id /\ ChannelCap \in Nat \ {0}
  BY Constants DEF TypeOK
<1>2. \A j \in Job : Lost(j) \subseteq Id
  BY DEF Lost, Job
<1>3. CASE untold' = untold \cup Lost(job) /\ UNCHANGED ch
  BY <1>1, <1>2, <1>3
<1>4. CASE NotifyIncident(job) /\ ~ isSilenced(job.key) /\ Len(ch) < ChannelCap
  BY <1>1, <1>4 DEF NotifyIncident
<1>5. CASE NotifyIncident(job) /\ ~ isSilenced(job.key) /\ ~ Len(ch) < ChannelCap
  <2>1. ch # <<>> /\ Head(ch) \in Job /\ Tail(ch) \in Seq(Job) /\ Len(Tail(ch)) = Len(ch) - 1
    BY <1>1, <1>5
  <2>2. ch' = Append(Tail(ch), job) /\ untold' = untold \cup Lost(Head(ch))
    BY <1>5 DEF NotifyIncident
  <2> QED
    BY <2>1, <2>2, <1>1, <1>2
<1> QED
  BY <1>3, <1>4, <1>5 DEF Said, NotifyIncident

LEMMA SendTypes ==
  ASSUME TypeOK, NEW job \in Job, NEW ok \in BOOLEAN, NEW done \in BOOLEAN, Send(job, ok, done)
  PROVE  /\ threadMap' \in [Key -> Id \cup {NoId}]
         /\ posted' \in [id : Id \cup {NoId}, thread : Id \cup {NoId}]
         /\ shown' \subseteq Id
<1>1. /\ job.key \in Key /\ job.id \in Id /\ job.action \in Action
      /\ threadMap \in [Key -> Id \cup {NoId}]
      /\ posted \in [id : Id \cup {NoId}, thread : Id \cup {NoId}]
      /\ shown \subseteq Id
  BY DEF TypeOK, Job
<1>2. shown' \subseteq Id
  BY <1>1 DEF Send, Show
<1>3. CASE kind = "thread"
  <2>1. threadMap' = ThreadsAfter(job, ok)
    BY <1>3 DEF Send, sendIncidentWithToken
  <2>2. ThreadsAfter(job, ok) \in [Key -> Id \cup {NoId}]
    BY <1>1 DEF ThreadsAfter
  <2>3. posted' \in [id : Id \cup {NoId}, thread : Id \cup {NoId}]
    BY <1>1, <1>3 DEF Send, sendIncidentWithToken
  <2> QED
    BY <2>1, <2>2, <2>3, <1>2
<1>4. CASE kind # "thread"
  BY <1>1, <1>2, <1>4 DEF Send, slackVars
<1> QED
  BY <1>3, <1>4

(* A worker that has a job has a job.                                      *)
LEMMA WorkerJob ==
  ASSUME TypeOK, worker.job # NoJob
  PROVE  worker.job \in Job /\ worker.attempt \in 0 .. MaxAttempts
BY DEF TypeOK

(* What a step of the engine says, of which incident.                      *)
LEMMA CreateSays ==
  ASSUME TypeOK, NEW key \in Key, Create(key)
  PROVE  \E i, job : /\ i \in Incident /\ job \in Job
                     /\ job.key = key /\ job.id = i.id /\ ~ Resolved(job)
                     /\ incident[key].id = NoId
                     /\ incident' = [incident EXCEPT ![key] = i] /\ NotifyIncident(job)
<1>1. PICK s \in Severity, digested \in BOOLEAN :
        LET i == [id |-> issued + 1, severity |-> s, digested |-> digested]
        IN  /\ incident' = [incident EXCEPT ![key] = i]
            /\ NotifyIncident(Notice(key, i, IF digested THEN "Digest" ELSE "Create"))
  BY DEF Create
<1>2. PICK i : i = [id |-> issued + 1, severity |-> s, digested |-> digested]
  OBVIOUS
<1>3. PICK job : job = Notice(key, i, IF digested THEN "Digest" ELSE "Create")
  OBVIOUS
<1>4. issued + 1 \in Id
  BY Constants DEF Create, TypeOK, Id
<1>5. i \in Incident
  BY <1>2, <1>4 DEF Incident
<1>6. job \in Job /\ job.key = key /\ job.id = i.id /\ ~ Resolved(job)
  BY <1>2, <1>3, <1>4 DEF Notice, Job, Action, Resolved
<1>7. incident[key].id = NoId
  BY DEF Create, NoIncident
<1>8. incident' = [incident EXCEPT ![key] = i] /\ NotifyIncident(job)
  BY <1>1, <1>2, <1>3
<1> QED
  BY <1>5, <1>6, <1>7, <1>8

LEMMA UpdateSays ==
  ASSUME TypeOK, NEW key \in Key, Update(key)
  PROVE  \E i, job : /\ i \in Incident /\ job \in Job
                     /\ job.key = key /\ job.id = i.id /\ ~ Resolved(job)
                     /\ incident[key].id = job.id
                     /\ incident' = [incident EXCEPT ![key] = i] /\ NotifyIncident(job)
<1>1. PICK s \in Severity :
        LET i == [incident[key] EXCEPT !.severity = s, !.digested = FALSE]
        IN  incident' = [incident EXCEPT ![key] = i] /\ NotifyIncident(Notice(key, i, "Update"))
  BY DEF Update
<1>2. incident[key] \in Incident
  BY DEF TypeOK, Update
<1>3. PICK i : i = [incident[key] EXCEPT !.severity = s, !.digested = FALSE]
  OBVIOUS
<1>4. i \in Incident /\ i.id = incident[key].id
  BY <1>2, <1>3 DEF Incident
<1>5. PICK job : job = Notice(key, i, "Update")
  OBVIOUS
<1>6. job \in Job /\ job.key = key /\ job.id = i.id /\ ~ Resolved(job)
  BY <1>4, <1>5 DEF Notice, Job, Action, Incident, Resolved
<1>7. incident' = [incident EXCEPT ![key] = i] /\ NotifyIncident(job)
  BY <1>1, <1>3, <1>5
<1> QED
  BY <1>4, <1>6, <1>7

(* An end is notified, or its notification is lost there and then.         *)
LEMMA EndSays ==
  ASSUME TypeOK, NEW key \in Key, Resolve(key) \/ cleanup(key)
  PROVE  \E job : /\ job \in Job /\ Said(job)
                  /\ job.key = key /\ job.id = incident[key].id /\ Resolved(job)
<1>1. incident[key] \in Incident
  BY DEF TypeOK, Resolve, cleanup
<1>2. PICK job : job = Notice(key, incident[key], "Resolved")
  OBVIOUS
<1>3. job \in Job /\ job.key = key /\ job.id = incident[key].id /\ Resolved(job)
  BY <1>1, <1>2 DEF Notice, Job, Action, Resolved, Incident
<1>4. Lost(job) = {incident[key].id}
  BY <1>3 DEF Lost, Resolved
<1>5. NotifyIncident(job) \/ EndUnsaid(incident[key])
  BY <1>2 DEF Resolve, cleanup
<1>6. Said(job)
  BY <1>4, <1>5 DEF Said, EndUnsaid
<1> QED
  BY <1>3, <1>6

LEMMA CreateTypes == ASSUME TypeOK, NEW key \in Key, Create(key) PROVE TypeOK'
<1>1. PICK i, job : /\ i \in Incident /\ job \in Job
                    /\ incident' = [incident EXCEPT ![key] = i] /\ NotifyIncident(job)
  BY CreateSays
<1>2. issued' \in 0 .. MaxIncidents
  BY Constants DEF Create, TypeOK
<1>3. incident' \in [Key -> Incident \cup {NoIncident}]
  BY <1>1 DEF TypeOK
<1>4. /\ ch' \in Seq(Job) /\ Len(ch') <= ChannelCap
      /\ untold' \subseteq Id
  BY <1>1, NotifyTypes DEF Said
<1> QED
  BY <1>2, <1>3, <1>4 DEF Create, TypeOK, DlqTypeOK, dlqVars, slackVars

LEMMA UpdateTypes == ASSUME TypeOK, NEW key \in Key, Update(key) PROVE TypeOK'
<1>1. PICK i, job : /\ i \in Incident /\ job \in Job
                    /\ incident' = [incident EXCEPT ![key] = i] /\ NotifyIncident(job)
  BY UpdateSays
<1>2. incident' \in [Key -> Incident \cup {NoIncident}]
  BY <1>1 DEF TypeOK
<1>3. /\ ch' \in Seq(Job) /\ Len(ch') <= ChannelCap
      /\ untold' \subseteq Id
  BY <1>1, NotifyTypes DEF Said
<1> QED
  BY <1>2, <1>3 DEF Update, TypeOK, DlqTypeOK, dlqVars, slackVars

LEMMA EndTypes ==
  ASSUME TypeOK, NEW key \in Key, Resolve(key) \/ cleanup(key)
  PROVE  TypeOK'
<1>1. PICK job : job \in Job /\ Said(job)
  BY EndSays
<1>2. incident' \in [Key -> Incident \cup {NoIncident}]
  BY DEF Resolve, cleanup, TypeOK
<1>3. /\ ch' \in Seq(Job) /\ Len(ch') <= ChannelCap
      /\ untold' \subseteq Id
  BY <1>1, NotifyTypes
<1> QED
  BY <1>2, <1>3 DEF Resolve, cleanup, TypeOK, DlqTypeOK, dlqVars, slackVars

LEMMA SilencesTypes == ASSUME TypeOK, SetSilences PROVE TypeOK'
<1>1. silenced' \subseteq Key /\ silences' \in 0 .. MaxSilences
  BY Constants DEF SetSilences, TypeOK
<1> QED
  BY <1>1 DEF SetSilences, TypeOK, DlqTypeOK, dlqVars, slackVars, tellVars

LEMMA ReceiveTypes == ASSUME TypeOK, Receive PROVE TypeOK'
<1>1. /\ Head(ch) \in Job /\ ch' = Tail(ch) /\ Tail(ch) \in Seq(Job) /\ Len(Tail(ch)) = Len(ch) - 1
      /\ Len(ch) \in Nat
  BY DEF TypeOK, Receive
<1>2. Len(ch') <= ChannelCap
  BY <1>1, Constants DEF TypeOK
<1>3. worker' \in [job : Job \cup {NoJob}, attempt : 0 .. MaxAttempts]
  <2>1. 1 \in 0 .. MaxAttempts
    BY Constants
  <2>2. worker' \in {worker, [job |-> Head(ch), attempt |-> 1]}
    BY DEF Receive
  <2>3. worker \in [job : Job \cup {NoJob}, attempt : 0 .. MaxAttempts]
    BY DEF TypeOK
  <2> QED
    BY <2>1, <2>2, <2>3, <1>1
<1>4. untold' \subseteq Id
  BY <1>1 DEF Receive, TypeOK, Unrouted, Lost, Job
<1> QED
  BY <1>1, <1>2, <1>3, <1>4
  DEF Receive, TypeOK, DlqTypeOK, dlqVars, engineVars, slackVars

LEMMA SucceedTypes == ASSUME TypeOK, Succeed PROVE TypeOK'
<1>1. worker.job \in Job /\ Send(worker.job, TRUE, TRUE)
  BY WorkerJob DEF Succeed
<1>2. /\ threadMap' \in [Key -> Id \cup {NoId}]
      /\ posted' \in [id : Id \cup {NoId}, thread : Id \cup {NoId}]
      /\ shown' \subseteq Id
  BY <1>1, SendTypes
<1>3. worker' \in [job : Job \cup {NoJob}, attempt : 0 .. MaxAttempts]
  BY Constants DEF Succeed, IdleWorker
<1> QED
  BY <1>2, <1>3 DEF Succeed, NoPause, TypeOK, DlqTypeOK, dlqVars, engineVars

LEMMA RetryTypes == ASSUME TypeOK, Attempting, Retry PROVE TypeOK'
<1>1. PICK done \in BOOLEAN : Send(worker.job, FALSE, done)
  BY DEF Retry
<1>2. /\ worker.job \in Job /\ worker.attempt \in 0 .. MaxAttempts
      /\ worker.attempt < MaxAttempts
  BY WorkerJob DEF Retry
<1>3. /\ threadMap' \in [Key -> Id \cup {NoId}]
      /\ posted' \in [id : Id \cup {NoId}, thread : Id \cup {NoId}]
      /\ shown' \subseteq Id
  BY <1>1, <1>2, SendTypes
<1>4. worker' = [job |-> worker.job, attempt |-> worker.attempt + 1]
  BY DEF Retry, TypeOK
<1>5. worker' \in [job : Job \cup {NoJob}, attempt : 0 .. MaxAttempts]
  BY <1>2, <1>4, Constants
<1>6. pause' \in [by : {"nobody", "backoff", "provider"}, length : Int]
  <2>1. PICK asked \in Int : pause' = PauseAfter(worker.attempt, asked)
    BY Durations DEF Retry
  <2>2. kind \in Kind /\ worker.attempt \in 1 .. MaxAttempts
    BY DEF Retry, Attempting, TypeOK
  <2>3. pause'.length \in Int /\ pause'.by \in {"backoff", "provider"}
    BY <2>1, <2>2, PauseBounds
  <2> QED
    BY <2>1, <2>3 DEF PauseAfter
<1> QED
  BY <1>3, <1>5, <1>6 DEF Retry, TypeOK, DlqTypeOK, dlqVars, engineVars

LEMMA GiveUpTypes == ASSUME TypeOK, DlqInv, GiveUp PROVE TypeOK'
<1>1. PICK done \in BOOLEAN : Send(worker.job, FALSE, done)
  BY DEF GiveUp
<1>2. worker.job \in Job
  BY WorkerJob DEF GiveUp
<1>3. /\ threadMap' \in [Key -> Id \cup {NoId}]
      /\ posted' \in [id : Id \cup {NoId}, thread : Id \cup {NoId}]
      /\ shown' \subseteq Id
  BY <1>1, <1>2, SendTypes
<1>4. worker' \in [job : Job \cup {NoJob}, attempt : 0 .. MaxAttempts]
  BY Constants DEF GiveUp, IdleWorker
<1>5. worker.job.key \in Failure /\ recordDeadLetter(worker.job.key)
  BY <1>2, Constants DEF GiveUp, Job
<1>6. DlqTypeOK'
  BY <1>5, RecordKeepsDlqInv DEF DlqInv
<1>7. dead' \subseteq Id
  BY <1>2 DEF GiveUp, TypeOK, Lost, Job
<1> QED
  BY <1>3, <1>4, <1>6, <1>7 DEF GiveUp, NoPause, TypeOK, engineVars

(* Every step keeps the types, the ring, the attempts and the pauses.      *)
LEMMA StepTypes ==
  ASSUME Inv, Next
  PROVE  TypeOK' /\ DlqInv' /\ Attempting' /\ PauseWithinBounds'
<1>1. TypeOK /\ DlqInv /\ Attempting /\ PauseWithinBounds
  BY DEF Inv
<1>2. UNCHANGED dlqVars => DlqInv'
  BY <1>1 DEF dlqVars, DlqInv, DlqTypeOK, Fill, Contents
<1>3. UNCHANGED worker => Attempting'
  BY <1>1 DEF Attempting
<1>4. UNCHANGED <<pause, kind>> => PauseWithinBounds'
  BY <1>1 DEF PauseWithinBounds
<1>p. pause' = NoPause => PauseWithinBounds'
  BY DEF NoPause, PauseWithinBounds
<1>5. ASSUME NEW key \in Key, Create(key)
      PROVE  TypeOK' /\ DlqInv' /\ Attempting' /\ PauseWithinBounds'
  <2>1. UNCHANGED <<dlqVars, worker, pause, kind>>
    BY <1>5 DEF Create
  <2> QED
    BY <2>1, <1>1, <1>2, <1>3, <1>4, <1>5, CreateTypes
<1>6. ASSUME NEW key \in Key, Update(key)
      PROVE  TypeOK' /\ DlqInv' /\ Attempting' /\ PauseWithinBounds'
  <2>1. UNCHANGED <<dlqVars, worker, pause, kind>>
    BY <1>6 DEF Update
  <2> QED
    BY <2>1, <1>1, <1>2, <1>3, <1>4, <1>6, UpdateTypes
<1>7. ASSUME NEW key \in Key, Resolve(key) \/ cleanup(key)
      PROVE  TypeOK' /\ DlqInv' /\ Attempting' /\ PauseWithinBounds'
  <2>1. UNCHANGED <<dlqVars, worker, pause, kind>>
    BY <1>7 DEF Resolve, cleanup
  <2> QED
    BY <2>1, <1>1, <1>2, <1>3, <1>4, <1>7, EndTypes
<1>8. CASE SetSilences
  <2>1. UNCHANGED <<dlqVars, worker, pause, kind>>
    BY <1>8 DEF SetSilences
  <2> QED
    BY <2>1, <1>1, <1>2, <1>3, <1>4, <1>8, SilencesTypes
<1>9. CASE Receive
  <2>1. UNCHANGED <<dlqVars, pause, kind>>
    BY <1>9 DEF Receive
  <2>2. Attempting'
    BY <1>9, Constants DEF Receive, Attempting
  <2> QED
    BY <2>1, <2>2, <1>1, <1>2, <1>4, <1>9, ReceiveTypes
<1>10. CASE Succeed
  <2>1. UNCHANGED dlqVars /\ pause' = NoPause
    BY <1>10 DEF Succeed
  <2>2. Attempting'
    BY <1>10 DEF Succeed, IdleWorker, Attempting
  <2> QED
    BY <2>1, <2>2, <1>1, <1>2, <1>p, <1>10, SucceedTypes
<1>11. CASE Retry
  <2>1. UNCHANGED dlqVars
    BY <1>11 DEF Retry
  <2>2. worker' = [job |-> worker.job, attempt |-> worker.attempt + 1]
    BY <1>1, <1>11 DEF Retry, TypeOK
  <2>3. worker.attempt \in 1 .. MaxAttempts /\ worker.attempt < MaxAttempts
    BY <1>1, <1>11 DEF Retry, Attempting
  <2>4. Attempting'
    BY <2>2, <2>3, Constants DEF Attempting
  <2>5. PauseWithinBounds'
    <3>1. PICK asked \in Int : pause' = PauseAfter(worker.attempt, asked)
      BY <1>11, Durations DEF Retry
    <3>2. kind \in Kind /\ kind' = kind
      BY <1>1, <1>11 DEF Retry, TypeOK
    <3> QED
      BY <2>3, <3>1, <3>2, PauseBounds DEF PauseWithinBounds
  <2> QED
    BY <2>1, <2>4, <2>5, <1>1, <1>2, <1>11, RetryTypes
<1>12. CASE GiveUp
  <2>1. pause' = NoPause
    BY <1>12 DEF GiveUp
  <2>2. Attempting'
    BY <1>12 DEF GiveUp, IdleWorker, Attempting
  <2>3. worker.job.key \in Failure /\ recordDeadLetter(worker.job.key)
    BY <1>1, <1>12, WorkerJob, Constants DEF GiveUp, Job
  <2>4. DlqInv'
    BY <2>3, <1>1, RecordKeepsDlqInv
  <2> QED
    BY <2>1, <2>2, <2>4, <1>1, <1>p, <1>12, GiveUpTypes
<1> QED
  BY <1>5, <1>6, <1>7, <1>8, <1>9, <1>10, <1>11, <1>12 DEF Next, deliverOne

-----------------------------------------------------------------------------
(***************************************************************************)
(* The jobs that a step leaves on their way stood at old[p] before it, in  *)
(* the same order; a fresh one is behind them; and a resolve that is gone  *)
(* is one of the exceptions.                                               *)
(***************************************************************************)
Moved(old, fresh) ==
  /\ fresh \subseteq Positions'
  /\ \A n \in fresh : \A p \in Positions' : p <= n
  /\ \A p \in Positions' \ fresh : old[p] \in Positions /\ (At(p))' = At(old[p])
  /\ \A p, q \in Positions' \ fresh : p < q <=> old[p] < old[q]
  /\ \A p \in Positions :
       Resolved(At(p)) => \/ At(p).id \in untold'
                          \/ \E q \in Positions' \ fresh : old[q] = p
  /\ untold \subseteq untold'

(* Every position holds a job.                                             *)
LEMMA PositionJob ==
  ASSUME TypeOK
  PROVE  /\ \A p \in Positions : At(p) \in Job /\ p \in 0 .. Len(ch)
         /\ Len(ch) \in Nat
<1>1. ch \in Seq(Job) /\ worker.job \in Job \cup {NoJob}
  BY DEF TypeOK
<1>2. \A p \in 1 .. Len(ch) : ch[p] \in Job
  BY <1>1
<1>3. Len(ch) \in Nat
  BY <1>1
<1> QED
  BY <1>1, <1>2, <1>3 DEF Positions, At

LEMMA NotifyMoves ==
  ASSUME TypeOK, NEW job \in Job, Said(job), UNCHANGED worker
  PROVE  \E old, fresh :
           /\ Moved(old, fresh)
           /\ \A n \in fresh : (At(n))' = job
           /\ fresh = {} => Lost(job) \subseteq untold'
<1>1. ch \in Seq(Job) /\ Len(ch) <= ChannelCap /\ ChannelCap \in Nat \ {0} /\ Len(ch) \in Nat
  BY Constants DEF TypeOK
<1>2. untold \subseteq untold'
  BY NotifyTypes
<1>3. CASE untold' = untold \cup Lost(job) /\ UNCHANGED ch
  <2>1. ch' = ch /\ untold' = untold \cup Lost(job)
    BY <1>3
  <2> DEFINE old == [p \in Positions |-> p]
  <2>2. Positions' = Positions /\ \A p \in Positions : (At(p))' = At(p) /\ old[p] = p
    BY <2>1 DEF Positions, At
  <2> HIDE DEF old
  <2>3. Moved(old, {})
    BY <2>2, <1>2 DEF Moved
  <2> QED
    BY <2>1, <2>3
<1>4. CASE NotifyIncident(job) /\ ~ isSilenced(job.key) /\ Len(ch) < ChannelCap
  <2>1. ch' = Append(ch, job) /\ untold' = untold
    BY <1>4 DEF NotifyIncident
  <2>0. PICK n : n = Len(ch) + 1
    OBVIOUS
  <2> DEFINE old == [p \in Positions |-> p]
  <2>2. /\ n \in Nat \ {0} /\ Len(ch') = n /\ ch'[n] = job
        /\ \A p \in 1 .. Len(ch) : ch'[p] = ch[p]
    BY <2>0, <2>1, <1>1
  <2>3. Positions' = Positions \cup {n} /\ n \notin Positions /\ \A p \in Positions : p < n
    BY <2>0, <2>2, <1>1 DEF Positions
  <2>4. \A p \in Positions : (At(p))' = At(p) /\ old[p] = p
    BY <2>2, <1>1 DEF Positions, At
  <2>5. (At(n))' = job
    BY <2>2, <1>1 DEF At
  <2>6. \A p \in Positions' : p <= n
    BY <2>3, <1>1 DEF Positions
  <2> HIDE DEF old
  <2>7. Moved(old, {n})
    BY <2>3, <2>4, <2>6, <1>2 DEF Moved
  <2> QED
    BY <2>5, <2>7
<1>5. CASE NotifyIncident(job) /\ ~ isSilenced(job.key) /\ ~ Len(ch) < ChannelCap
  <2>1. ch' = Append(Tail(ch), job) /\ untold' = untold \cup Lost(Head(ch))
    BY <1>5 DEF NotifyIncident
  <2>0. PICK n : n = Len(ch)
    OBVIOUS
  <2> DEFINE old == [p \in 0 .. n |-> IF p = 0 THEN 0 ELSE p + 1]
  <2>2. n \in Nat \ {0} /\ ch # <<>>
    BY <2>0, <1>1, <1>5
  <2>3. /\ Tail(ch) \in Seq(Job) /\ Len(Tail(ch)) = n - 1
        /\ \A p \in 1 .. n - 1 : Tail(ch)[p] = ch[p + 1]
        /\ Head(ch) = ch[1]
    BY <2>0, <1>1, <2>2
  <2>4. Len(ch') = n /\ ch'[n] = job /\ \A p \in 1 .. n - 1 : ch'[p] = ch[p + 1]
    BY <2>1, <2>2, <2>3
  <2>5. Positions' = Positions /\ n \in Positions /\ \A p \in Positions : p \in 0 .. n
    BY <2>0, <2>2, <2>4 DEF Positions
  <2>6. (At(n))' = job
    BY <2>2, <2>4 DEF At
  <2>7. ASSUME NEW p \in Positions, p # n PROVE old[p] \in Positions /\ (At(p))' = At(old[p])
    <3>1. CASE p = 0
      BY <3>1, <2>5 DEF At
    <3>2. CASE p # 0
      <4>1. p \in 1 .. n - 1 /\ old[p] = p + 1
        BY <3>2, <2>5, <2>7, <2>2
      <4>2. p + 1 \in Positions
        BY <4>1, <2>0, <2>2 DEF Positions
      <4>3. (At(p))' = ch[p + 1] /\ At(p + 1) = ch[p + 1]
        BY <4>1, <2>2, <2>4 DEF At
      <4> QED
        BY <4>1, <4>2, <4>3
    <3> QED
      BY <3>1, <3>2
  <2>8. \A p, q \in Positions : p < q <=> old[p] < old[q]
    BY <2>5, <2>2
  <2>9. ASSUME NEW p \in Positions, Resolved(At(p))
        PROVE  At(p).id \in untold' \/ \E q \in Positions' \ {n} : old[q] = p
    <3>1. CASE p = 0
      BY <3>1, <2>2, <2>5
    <3>2. CASE p = 1
      <4>1. At(p) = Head(ch)
        BY <3>2, <2>3 DEF At
      <4> QED
        BY <4>1, <2>1, <2>9 DEF Lost, Resolved
    <3>3. CASE p # 0 /\ p # 1
      <4>1. p - 1 \in Positions /\ p - 1 # n /\ old[p - 1] = p
        BY <3>3, <2>2, <2>5 DEF Positions
      <4> QED
        BY <4>1, <2>5
    <3> QED
      BY <3>1, <3>2, <3>3
  <2> HIDE DEF old
  <2>10. \A p \in Positions' : p <= n
    BY <2>2, <2>5
  <2>11. Moved(old, {n})
    BY <2>5, <2>7, <2>8, <2>9, <2>10, <1>2 DEF Moved
  <2> QED
    BY <2>6, <2>11
<1> QED
  BY <1>3, <1>4, <1>5 DEF Said, NotifyIncident

LEMMA ReceiveMoves ==
  ASSUME TypeOK, Receive
  PROVE  \E old : Moved(old, {})
<1> DEFINE n == Len(ch)
           old == [p \in 0 .. n |-> p + 1]
<1>1. /\ ch \in Seq(Job) /\ ch # <<>> /\ n \in Nat \ {0}
      /\ worker.job = NoJob /\ ch' = Tail(ch)
  BY DEF TypeOK, Receive
<1>2. /\ Len(ch') = n - 1 /\ Head(ch) = ch[1]
      /\ \A p \in 1 .. n - 1 : ch'[p] = ch[p + 1]
  BY <1>1
<1>3. untold \subseteq untold'
  BY DEF Receive
<1>4. Positions = 1 .. n
  BY <1>1 DEF Positions
<1>5. Positions' \subseteq 0 .. n - 1 /\ 1 .. n - 1 \subseteq Positions'
  BY <1>1, <1>2 DEF Positions
<1>6. /\ 0 \in Positions' => (At(0))' = ch[1]
      /\ 0 \notin Positions' => Unrouted(ch[1]) \subseteq untold' /\ ~ shouldDeliver(ch[1])
  <2>1. CASE shouldDeliver(ch[1])
    <3>1. worker' = [job |-> ch[1], attempt |-> 1]
      BY <2>1, <1>2 DEF Receive
    <3>2. ch[1] \in Job
      BY <1>1
    <3>3. worker'.job = ch[1]
      BY <3>1
    <3>4. (At(0))' = ch[1]
      BY <3>3 DEF At
    <3>5. CASE ch[1] # NoJob
      BY <3>3, <3>4, <3>5, <1>1, <1>2 DEF Positions
    <3>6. CASE ch[1] = NoJob
      BY <3>2, <3>6, Constants
    <3> QED
      BY <3>5, <3>6
  <2>2. CASE ~ shouldDeliver(ch[1])
    <3>1. untold' = untold \cup Unrouted(ch[1]) /\ worker' = worker
      BY <2>2, <1>2 DEF Receive
    <3>2. 0 \notin Positions'
      BY <3>1, <1>1 DEF Positions
    <3> QED
      BY <2>2, <3>1, <3>2
  <2> QED
    BY <2>1, <2>2
<1>7. \A p \in Positions' : p + 1 \in Positions /\ old[p] = p + 1
  BY <1>1, <1>4, <1>5
<1>8. ASSUME NEW p \in Positions' PROVE (At(p))' = At(p + 1)
  BY <1>1, <1>2, <1>5, <1>6 DEF At
<1>9. \A p, q \in Positions' : p < q <=> old[p] < old[q]
  BY <1>1, <1>5
<1>10. ASSUME NEW p \in Positions, Resolved(At(p))
       PROVE  At(p).id \in untold' \/ \E q \in Positions' : old[q] = p
  <2>1. CASE p # 1
    <3>1. p - 1 \in Positions' /\ (p - 1) + 1 = p
      BY <2>1, <1>1, <1>4, <1>5
    <3>2. old[p - 1] = p
      BY <3>1, <1>7
    <3> QED
      BY <3>1, <3>2
  <2>2. CASE p = 1 /\ 0 \in Positions'
    <3>1. old[0] = 1
      BY <2>2, <1>7
    <3> QED
      BY <3>1, <2>2
  <2>3. CASE p = 1 /\ 0 \notin Positions'
    <3>1. At(p) = ch[1]
      BY <2>3 DEF At
    <3> QED
      BY <3>1, <2>3, <1>6, <1>10 DEF Resolved, Unrouted, Lost, shouldDeliver
  <2> QED
    BY <2>1, <2>2, <2>3
<1> HIDE DEF old, n
<1>11. Moved(old, {})
  BY <1>3, <1>7, <1>8, <1>9, <1>10 DEF Moved
<1> QED
  BY <1>11

(* What was to end still ends: what is open stays so, or its resolve is    *)
(* the fresh job, or it is an exception.                                   *)
LEMMA PagesMove ==
  ASSUME TypeOK, ShownWillEnd, QueuedWillEnd,
         NEW old, NEW fresh, NEW job, Moved(old, fresh),
         \A n \in fresh : (At(n))' = job,
         UNCHANGED shown, dead \subseteq dead',
         \A x \in Id : x \in OpenIds
           => x \in OpenIds' \cup untold' \/ (fresh # {} /\ Resolved(job) /\ job.id = x),
         fresh # {} => Resolved(job) \/ job.id \in OpenIds'
  PROVE  ShownWillEnd' /\ QueuedWillEnd'
<1>1. /\ fresh \subseteq Positions'
      /\ \A n \in fresh : \A p \in Positions' : p <= n
      /\ \A p \in Positions' \ fresh : old[p] \in Positions /\ (At(p))' = At(old[p])
      /\ \A p, q \in Positions' \ fresh : p < q <=> old[p] < old[q]
      /\ untold \subseteq untold'
  BY DEF Moved
<1>2. \A p \in Positions :
        Resolved(At(p)) => \/ At(p).id \in untold'
                           \/ \E q \in Positions' \ fresh : old[q] = p
  BY DEF Moved
<1>3. Positions \subseteq Nat /\ Positions' \subseteq Int /\ \A q \in Positions' : -1 < q
  <2>1. Positions \subseteq Nat
    BY DEF Positions
  <2>2. (Positions \subseteq Nat)'
    BY DEF Positions
  <2> QED
    BY <2>1, <2>2
(* Behind a position that is not fresh, or is none of the jobs.            *)
<1>4. ASSUME NEW x \in Id, NEW p \in Int, NEW o \in Int, WillEnd(o, x),
             \A n \in fresh : p < n,
             \A q \in Positions' \ fresh : o < old[q] => p < q
      PROVE  (WillEnd(p, x))'
  <2>1. CASE x \in untold \cup dead
    BY <2>1, <1>1 DEF WillEnd
  <2>2. CASE x \in OpenIds
    <3>1. CASE x \in OpenIds' \cup untold'
      BY <3>1 DEF WillEnd
    <3>2. CASE fresh # {} /\ Resolved(job) /\ job.id = x
      <4>1. PICK n \in fresh : TRUE
        BY <3>2
      <4>2. (At(n))' = job /\ n \in Positions' /\ p < n
        BY <4>1, <1>1, <1>4
      <4> QED
        BY <3>2, <4>2 DEF WillEnd, Resolved
    <3> QED
      BY <2>2, <3>1, <3>2
  <2>3. CASE \E q \in Positions : o < q /\ Resolved(At(q)) /\ At(q).id = x
    <3>1. PICK q \in Positions : o < q /\ Resolved(At(q)) /\ At(q).id = x
      BY <2>3
    <3>2. CASE x \in untold'
      BY <3>2 DEF WillEnd
    <3>3. CASE x \notin untold'
      <4>1. PICK r \in Positions' \ fresh : old[r] = q
        BY <3>1, <3>3, <1>2
      <4>2. (At(r))' = At(q) /\ p < r
        BY <3>1, <4>1, <1>1, <1>4
      <4> QED
        BY <3>1, <4>2 DEF WillEnd, Resolved
    <3> QED
      BY <3>2, <3>3
  <2> QED
    BY <1>4, <2>1, <2>2, <2>3 DEF WillEnd
<1>5. ShownWillEnd'
  <2> SUFFICES ASSUME NEW x \in shown' PROVE (WillEnd(-1, x))'
    BY DEF ShownWillEnd
  <2>1. x \in Id /\ WillEnd(-1, x)
    BY DEF ShownWillEnd, TypeOK
  <2> QED
    BY <2>1, <1>1, <1>3, <1>4
<1>6. QueuedWillEnd'
  <2> SUFFICES ASSUME NEW p \in Positions', (~ Resolved(At(p)))'
               PROVE  (WillEnd(p, At(p).id))'
    BY DEF QueuedWillEnd
  <2>1. CASE p \in fresh
    <3>1. (At(p))' = job
      BY <2>1
    <3> QED
      BY <2>1, <3>1 DEF WillEnd, Resolved
  <2>2. CASE p \notin fresh
    <3>1. PICK x : x = At(old[p]).id
      OBVIOUS
    <3>2. (At(p))' = At(old[p]) /\ old[p] \in Positions
      BY <2>2, <1>1
    <3>3. x \in Id /\ WillEnd(old[p], x)
      BY <3>1, <3>2, PositionJob DEF QueuedWillEnd, Resolved, Job
    <3>4. \A n \in fresh : p < n
      <4>1. \A n \in fresh : p <= n /\ p # n
        BY <2>2, <1>1
      <4> QED
        BY <4>1, <1>1, <1>3
    <3>5. \A q \in Positions' \ fresh : old[p] < old[q] => p < q
      BY <2>2, <1>1
    <3>6. PICK o : o = old[p]
      OBVIOUS
    <3>7. o \in Int /\ p \in Int /\ x \in Id /\ WillEnd(o, x)
      <4>1. o \in Positions /\ p \in Positions'
        BY <3>2, <3>6
      <4>2. o \in Int /\ p \in Int
        BY <4>1, <1>3
      <4> QED
        BY <4>2, <3>3, <3>6
    <3>8. \A q \in Positions' \ fresh : o < old[q] => p < q
      BY <3>5, <3>6
    <3>9. (WillEnd(p, x))'
      BY <3>4, <3>7, <3>8, <1>4
    <3> QED
      BY <3>1, <3>2, <3>9 DEF WillEnd
  <2> QED
    BY <2>1, <2>2
<1> QED
  BY <1>5, <1>6

(* The incidents of a key stay in turn: what is open changes by a resolve  *)
(* that is the fresh job, or comes after nothing was open.                 *)
LEMMA TurnsMove ==
  ASSUME TypeOK, ThreadThenJob, ThreadThenOpen, JobThenJob, JobThenOpen,
         NEW old, NEW fresh, NEW job \in Job, Moved(old, fresh),
         \A n \in fresh : (At(n))' = job,
         UNCHANGED threadMap,
         \A k \in Key : \/ incident'[k].id = incident[k].id
                        \/ incident[k].id \in {NoId} \cup untold'
                        \/ /\ fresh # {} /\ Resolved(job)
                           /\ job.key = k /\ job.id = incident[k].id,
         fresh # {} => /\ incident[job.key].id \in {job.id, NoId}
                       /\ incident'[job.key].id = job.id \/ Resolved(job)
  PROVE  (ThreadThenJob /\ ThreadThenOpen /\ JobThenJob /\ JobThenOpen)'
<1>1. /\ fresh \subseteq Positions'
      /\ \A n \in fresh : \A p \in Positions' : p <= n
      /\ \A p \in Positions' \ fresh : old[p] \in Positions /\ (At(p))' = At(old[p])
      /\ \A p, q \in Positions' \ fresh : p < q <=> old[p] < old[q]
      /\ untold \subseteq untold'
  BY DEF Moved
<1>2. \A p \in Positions :
        Resolved(At(p)) => At(p).id \in untold' \/ \E q \in Positions' \ fresh : old[q] = p
  BY DEF Moved
<1>3. /\ Positions \subseteq Nat /\ Positions' \subseteq Nat
      /\ Last \in Nat /\ \A p \in Positions : p < Last
      /\ Last' \in Nat /\ \A p \in Positions' : p < Last'
  <2>1. ch \in Seq(Job) /\ Len(ch) \in Nat
    BY DEF TypeOK
  <2>2. Positions \subseteq Nat /\ Last \in Nat /\ \A p \in Positions : p < Last
    BY <2>1 DEF Positions, Last
  <2>3. Len(ch') \in Nat
    OBVIOUS
  <2> QED
    BY <2>2, <2>3 DEF Positions, Last
<1>4. \A p \in Positions : At(p) \in Job /\ At(p).key \in Key /\ At(p).id # NoId
  BY PositionJob, Constants DEF Job
<1>5. job.key \in Key /\ job.id # NoId
  BY Constants DEF Job
(* A resolve between two old positions is between the new ones.            *)
<1>6. ASSUME NEW k, NEW x, NEW r \in Positions,
             At(r).key = k, Resolved(At(r)), At(r).id = x, x \notin untold'
      PROVE  \E s \in Positions' \ fresh : /\ old[s] = r /\ s \in Nat /\ s < Last'
                              /\ At(s)'.key = k /\ (Resolved(At(s)))' /\ At(s)'.id = x
  <2>1. PICK s \in Positions' \ fresh : old[s] = r
    BY <1>6, <1>2
  <2>2. (At(s))' = At(r)
    BY <2>1, <1>1
  <2> QED
    BY <2>1, <2>2, <1>3, <1>6 DEF Resolved
<1>b. ASSUME NEW p \in Positions', p \notin fresh, NEW s \in Positions' \ fresh,
             ~ old[s] < old[p]
      PROVE  ~ s < p
  BY <1>b, <1>1
<1>7. ThreadThenJob'
  <2> SUFFICES ASSUME NEW q \in Positions', NEW k, NEW t,
                      k = At(q)'.key, t = threadMap[k], t \notin {At(q)'.id, NoId},
                      t \notin untold'
               PROVE  (EndsWithin(0, q, k, t))'
    BY DEF ThreadThenJob, EndsWithin
  <2>1. CASE q \in fresh
    <3>1. (At(q))' = job
      BY <2>1
    <3>2. t \notin {incident[k].id, NoId} /\ k \in Key
      BY <2>1, <3>1, <1>5
    <3>3. PICK r \in Positions : At(r).key = k /\ Resolved(At(r)) /\ At(r).id = t
      BY <1>1, <3>2 DEF ThreadThenOpen, EndsWithin
    <3>4. PICK s \in Positions' \ fresh : /\ s \in Nat
                       /\ At(s)'.key = k /\ (Resolved(At(s)))' /\ At(s)'.id = t
      BY <3>3, <1>6
    <3>5. s < q
      BY <2>1, <3>4, <1>1, <1>3
    <3> QED
      BY <3>4, <3>5 DEF EndsWithin
  <2>2. CASE q \notin fresh
    <3>1. old[q] \in Positions /\ (At(q))' = At(old[q])
      BY <2>2, <1>1
    <3>2. PICK r \in Positions : /\ r < old[q]
                                 /\ At(r).key = k /\ Resolved(At(r)) /\ At(r).id = t
      BY <1>1, <3>1 DEF ThreadThenJob, EndsWithin
    <3>3. PICK s \in Positions' \ fresh : /\ old[s] = r /\ s \in Nat
                       /\ At(s)'.key = k /\ (Resolved(At(s)))' /\ At(s)'.id = t
      BY <3>2, <1>6
    <3>4. s < q
      BY <2>2, <3>2, <3>3, <1>1
    <3> QED
      BY <3>3, <3>4 DEF EndsWithin
  <2> QED
    BY <2>1, <2>2
<1>8. ThreadThenOpen'
  <2> SUFFICES ASSUME NEW k \in Key, NEW t, t = threadMap[k],
                      t \notin {incident'[k].id, NoId}, t \notin untold'
               PROVE  \E s \in Positions' : /\ 0 <= s /\ s < Last'
                           /\ At(s)'.key = k /\ (Resolved(At(s)))' /\ At(s)'.id = t
    BY DEF ThreadThenOpen, EndsWithin
  <2>1. CASE t # incident[k].id
    <3>1. PICK r \in Positions : At(r).key = k /\ Resolved(At(r)) /\ At(r).id = t
      BY <1>1, <2>1 DEF ThreadThenOpen, EndsWithin
    <3> QED
      BY <3>1, <1>6
  <2>2. CASE t = incident[k].id
    <3>1. fresh # {} /\ Resolved(job) /\ job.key = k /\ job.id = t
      BY <2>2
    <3>2. PICK n \in fresh : TRUE
      BY <3>1
    <3>3. n \in Positions' /\ (At(n))' = job
      BY <3>2, <1>1
    <3> QED
      BY <3>1, <3>3, <1>3 DEF Resolved
  <2> QED
    BY <2>1, <2>2
<1>9. JobThenJob'
  <2> SUFFICES ASSUME NEW p \in Positions', NEW q \in Positions', NEW k, NEW x,
                      p < q, k = At(p)'.key, x = At(p)'.id,
                      At(q)'.key = k, At(q)'.id # x, x \notin untold'
               PROVE  (EndsWithin(p, q, k, x))'
    BY DEF JobThenJob, EndsWithin
  <2>1. p \notin fresh
    BY <1>1, <1>3
  <2>2. old[p] \in Positions /\ (At(p))' = At(old[p])
    BY <2>1, <1>1
  <2>3. CASE q \in fresh
    <3>1. (At(q))' = job
      BY <2>3
    <3>2. x # NoId /\ x # incident[k].id
      BY <2>2, <2>3, <3>1, <1>4
    <3>3. PICK r \in Positions : /\ old[p] <= r
                                 /\ At(r).key = k /\ Resolved(At(r)) /\ At(r).id = x
      BY <1>1, <2>2, <3>2 DEF JobThenOpen, EndsWithin
    <3>4. PICK s \in Positions' \ fresh : /\ old[s] = r /\ s \in Nat
                       /\ At(s)'.key = k /\ (Resolved(At(s)))' /\ At(s)'.id = x
      BY <3>3, <1>6
    <3>5. s < q /\ p <= s
      <4>1. s <= q /\ s # q
        BY <2>3, <3>4, <1>1
      <4>2. ~ s < p
        <5>1. ~ r < old[p]
          <6>1. old[p] \in Nat /\ r \in Nat /\ old[p] <= r
            BY <2>2, <3>3, <1>3
          <6> QED
            BY <6>1
        <5> QED
          BY <5>1, <2>1, <3>4, <1>b
      <4> QED
        BY <4>1, <4>2, <3>4, <1>3
    <3> QED
      BY <3>4, <3>5 DEF EndsWithin
  <2>4. CASE q \notin fresh
    <3>1. old[q] \in Positions /\ (At(q))' = At(old[q]) /\ old[p] < old[q]
      BY <2>1, <2>4, <1>1
    <3>2. PICK r \in Positions : /\ old[p] <= r /\ r < old[q]
                                 /\ At(r).key = k /\ Resolved(At(r)) /\ At(r).id = x
      BY <1>1, <2>2, <3>1 DEF JobThenJob, EndsWithin
    <3>3. PICK s \in Positions' \ fresh : /\ old[s] = r /\ s \in Nat
                       /\ At(s)'.key = k /\ (Resolved(At(s)))' /\ At(s)'.id = x
      BY <3>2, <1>6
    <3>4. s < q
      BY <2>4, <3>2, <3>3, <1>1
    <3>5. ~ s < p
      <4>1. ~ r < old[p]
        <5>1. old[p] \in Nat /\ r \in Nat /\ old[p] <= r
          BY <2>2, <3>2, <1>3
        <5> QED
          BY <5>1
      <4> QED
        BY <4>1, <2>1, <3>3, <1>b
    <3> QED
      BY <3>3, <3>4, <3>5, <1>3 DEF EndsWithin
  <2> QED
    BY <2>3, <2>4
<1>10. JobThenOpen'
  <2> SUFFICES ASSUME NEW p \in Positions', NEW k, NEW x,
                      k = At(p)'.key, x = At(p)'.id, x # incident'[k].id,
                      x \notin untold'
               PROVE  \E s \in Positions' : /\ p <= s /\ s < Last'
                           /\ At(s)'.key = k /\ (Resolved(At(s)))' /\ At(s)'.id = x
    BY DEF JobThenOpen, EndsWithin
  <2>1. CASE p \in fresh
    <3>1. (At(p))' = job /\ Resolved(job)
      BY <2>1
    <3> QED
      BY <3>1, <1>3 DEF Resolved
  <2>2. CASE p \notin fresh
    <3>1. /\ old[p] \in Positions /\ (At(p))' = At(old[p])
          /\ x # NoId /\ k \in Key
      BY <2>2, <1>1, <1>4
    <3>2. CASE x # incident[k].id
      <4>1. PICK r \in Positions : /\ old[p] <= r
                                   /\ At(r).key = k /\ Resolved(At(r)) /\ At(r).id = x
        BY <1>1, <3>1, <3>2 DEF JobThenOpen, EndsWithin
      <4>2. PICK s \in Positions' \ fresh : /\ old[s] = r /\ s \in Nat /\ s < Last'
                       /\ At(s)'.key = k /\ (Resolved(At(s)))' /\ At(s)'.id = x
        BY <4>1, <1>6
      <4>3. ~ s < p
        <5>1. ~ r < old[p]
          <6>1. old[p] \in Nat /\ r \in Nat /\ old[p] <= r
            BY <3>1, <4>1, <1>3
          <6> QED
            BY <6>1
        <5> QED
          BY <5>1, <2>2, <4>2, <1>b
      <4> QED
        BY <4>2, <4>3, <1>3
    <3>3. CASE x = incident[k].id
      <4>1. fresh # {} /\ Resolved(job) /\ job.key = k /\ job.id = x
        BY <3>1, <3>3
      <4>2. PICK n \in fresh : TRUE
        BY <4>1
      <4>3. n \in Positions' /\ (At(n))' = job /\ p <= n
        BY <4>2, <1>1
      <4> QED
        BY <4>1, <4>3, <1>3 DEF Resolved
    <3> QED
      BY <3>2, <3>3
  <2> QED
    BY <2>1, <2>2
<1> QED
  BY <1>7, <1>8, <1>9, <1>10

-----------------------------------------------------------------------------
(* What the engine tells of a key.                                         *)
LEMMA TellKeeps ==
  ASSUME Inv, NEW key \in Key, NEW job \in Job, job.key = key, Said(job),
         NEW i, incident' = [incident EXCEPT ![key] = i],
         incident[key].id \in {job.id, NoId}, i.id = job.id \/ Resolved(job),
         UNCHANGED <<worker, threadMap, posted, shown, dead>>
  PROVE  ShownWillEnd' /\ QueuedWillEnd' /\ InTurn' /\ ThreadOfItsOwn'
<1>1. TypeOK /\ ShownWillEnd /\ QueuedWillEnd /\ InTurn /\ ThreadOfItsOwn
  BY DEF Inv
<1>2. PICK old, fresh : /\ Moved(old, fresh)
                        /\ \A n \in fresh : (At(n))' = job
                        /\ fresh = {} => Lost(job) \subseteq untold'
  BY <1>1, NotifyMoves
<1>3. /\ incident'[key] = i
      /\ \A k \in Key \ {key} : incident'[k] = incident[k]
  BY <1>1 DEF TypeOK
<1>4. Resolved(job) => fresh # {} \/ job.id \in untold'
  BY <1>2 DEF Lost, Resolved
<1>5. \A x \in Id : x \in OpenIds
           => x \in OpenIds' \cup untold' \/ (fresh # {} /\ Resolved(job) /\ job.id = x)
  <2> SUFFICES ASSUME NEW k \in Key, incident[k].id \in Id
               PROVE  \/ incident[k].id \in OpenIds' \cup untold'
                      \/ (fresh # {} /\ Resolved(job) /\ job.id = incident[k].id)
    BY DEF OpenIds
  <2>1. CASE k # key
    BY <2>1, <1>3 DEF OpenIds
  <2>2. CASE k = key
    <3>1. incident[k].id = job.id
      BY <2>2, Constants
    <3>2. CASE i.id = job.id
      BY <3>1, <3>2, <2>2, <1>3 DEF OpenIds
    <3>3. CASE Resolved(job)
      BY <3>1, <3>3, <1>4
    <3> QED
      BY <3>2, <3>3
  <2> QED
    BY <2>1, <2>2
<1>6. fresh # {} => Resolved(job) \/ job.id \in OpenIds'
  BY <1>3 DEF OpenIds
<1>7. ShownWillEnd' /\ QueuedWillEnd'
  BY <1>1, <1>2, <1>5, <1>6, PagesMove
<1>8. untold \subseteq untold'
  BY <1>2 DEF Moved
<1>9. InTurn'
  <2>1. ThreadThenJob /\ ThreadThenOpen /\ JobThenJob /\ JobThenOpen
    BY <1>1 DEF InTurn
  <2>2. ASSUME NEW k \in Key
        PROVE  \/ incident'[k].id = incident[k].id
               \/ incident[k].id \in {NoId} \cup untold'
               \/ /\ fresh # {} /\ Resolved(job)
                  /\ job.key = k /\ job.id = incident[k].id
    <3>1. CASE k # key
      BY <3>1, <1>3
    <3>2. CASE k = key
      BY <3>2, <1>3, <1>4
    <3> QED
      BY <3>1, <3>2
  <2>3. fresh # {} => /\ incident[job.key].id \in {job.id, NoId}
                      /\ incident'[job.key].id = job.id \/ Resolved(job)
    BY <1>3
  <2> QED
    BY <1>1, <1>2, <2>1, <2>2, <2>3, TurnsMove DEF InTurn
<1>10. ThreadOfItsOwn'
  BY <1>1, <1>8 DEF ThreadOfItsOwn
<1> QED
  BY <1>7, <1>9, <1>10

LEMMA ReceiveKeeps ==
  ASSUME Inv, Receive
  PROVE  ShownWillEnd' /\ QueuedWillEnd' /\ InTurn' /\ ThreadOfItsOwn'
<1>1. TypeOK /\ ShownWillEnd /\ QueuedWillEnd /\ InTurn /\ ThreadOfItsOwn
  BY DEF Inv
<1>2. PICK old : Moved(old, {})
  BY <1>1, ReceiveMoves
<1>3. UNCHANGED <<incident, threadMap, posted, shown, dead>>
  BY DEF Receive, engineVars, slackVars
<1>4. untold \subseteq untold'
  BY <1>2 DEF Moved
<1>5. \A x \in Id : x \in OpenIds => x \in OpenIds'
  BY <1>3 DEF OpenIds
<1>6. ShownWillEnd' /\ QueuedWillEnd'
  BY <1>1, <1>2, <1>3, <1>5, PagesMove
<1>7. InTurn'
  <2>1. ThreadThenJob /\ ThreadThenOpen /\ JobThenJob /\ JobThenOpen
    BY <1>1 DEF InTurn
  <2>2. Head(ch) \in Job
    BY <1>1 DEF TypeOK, Receive
  <2>3. \A k \in Key : incident'[k].id = incident[k].id
    BY <1>3
  <2> QED
    BY <1>1, <1>2, <1>3, <2>1, <2>2, <2>3, TurnsMove DEF InTurn
<1>8. ThreadOfItsOwn'
  BY <1>1, <1>3, <1>4 DEF ThreadOfItsOwn
<1> QED
  BY <1>6, <1>7, <1>8

(***************************************************************************)
(* One attempt at the worker's job.  When the job leaves the worker, it    *)
(* was carried out, or its resolve is a dead letter.                       *)
(***************************************************************************)
Attempt(job, ok, done) ==
  /\ worker.job # NoJob /\ job = worker.job
  /\ Send(job, ok, done)
  /\ UNCHANGED <<incident, kind, ch, untold>> /\ dead \subseteq dead'
  /\ \/ worker'.job = job /\ ~ ok
     \/ worker'.job = NoJob /\ (done \/ Lost(job) \subseteq dead')

LEMMA AttemptPositions ==
  ASSUME TypeOK, NEW job, NEW ok \in BOOLEAN, NEW done \in BOOLEAN, Attempt(job, ok, done)
  PROVE  /\ Positions \ {0} \subseteq Positions' /\ Positions' \subseteq Positions
         /\ 0 \in Positions /\ At(0) = job /\ job \in Job
         /\ \A p \in Positions' : (At(p))' = At(p)
         /\ 0 \in Positions' <=> worker'.job = job
         /\ Positions \subseteq Nat
<1>1. job \in Job /\ job # NoJob /\ job = worker.job /\ ch' = ch
  BY WorkerJob DEF Attempt
<1>2. worker'.job \in {job, NoJob}
  BY DEF Attempt
<1>3. Len(ch) \in Nat
  BY DEF TypeOK
<1> QED
  BY <1>1, <1>2, <1>3 DEF Positions, At

LEMMA AttemptKeepsPages ==
  ASSUME Inv, NEW job, NEW ok \in BOOLEAN, NEW done \in BOOLEAN, Attempt(job, ok, done)
  PROVE  ShownWillEnd' /\ QueuedWillEnd'
<1>1. TypeOK /\ ShownWillEnd /\ QueuedWillEnd
  BY DEF Inv
<1>2. /\ Positions \ {0} \subseteq Positions' /\ Positions' \subseteq Positions
      /\ 0 \in Positions /\ At(0) = job /\ job \in Job
      /\ \A p \in Positions' : (At(p))' = At(p)
      /\ 0 \in Positions' <=> worker'.job = job
      /\ Positions \subseteq Nat
  BY <1>1, AttemptPositions
<1>3. OpenIds' = OpenIds /\ untold' = untold /\ dead \subseteq dead'
  BY DEF Attempt, OpenIds
<1>4. ASSUME NEW p \in Int, NEW x, WillEnd(p, x), ~ (p < 0 /\ Resolved(job) /\ job.id = x)
      PROVE  (WillEnd(-1, x))' /\ (p >= 0 => (WillEnd(p, x))')
  <2>1. CASE x \in OpenIds \cup untold \cup dead
    BY <2>1, <1>3 DEF WillEnd
  <2>2. CASE x \notin OpenIds \cup untold \cup dead
    <3>1. PICK q \in Positions : p < q /\ Resolved(At(q)) /\ At(q).id = x
      BY <2>2, <1>4 DEF WillEnd
    <3>2. q # 0
      BY <3>1, <1>2, <1>4
    <3>3. q \in Positions' /\ (At(q))' = At(q) /\ -1 < q
      BY <3>2, <1>2
    <3> QED
      BY <3>1, <3>3 DEF WillEnd, Resolved
  <2> QED
    BY <2>1, <2>2
<1>5. ShownWillEnd'
  <2> SUFFICES ASSUME NEW x \in shown' PROVE (WillEnd(-1, x))'
    BY DEF ShownWillEnd
  <2>1. CASE ~ Resolved(job) /\ x = job.id
    <3>1. WillEnd(0, x)
      BY <2>1, <1>1, <1>2 DEF QueuedWillEnd
    <3> QED
      BY <3>1, <1>4
  <2>2. CASE ~ (Resolved(job) /\ x = job.id) /\ x \in shown
    BY <2>2, <1>1, <1>4 DEF ShownWillEnd
  <2>3. CASE Resolved(job) /\ x = job.id
    <3>1. x \in shown /\ ~ done
      BY <2>3 DEF Attempt, Send, Show, Posts, Resolved
    <3>2. CASE worker'.job = job
      <4>1. 0 \in Positions' /\ (At(0))' = job
        BY <3>2, <1>2
      <4> QED
        BY <4>1, <2>3 DEF WillEnd, Resolved
    <3>3. CASE worker'.job # job
      <4>1. x \in dead'
        BY <3>1, <3>3, <2>3 DEF Attempt, Lost, Resolved
      <4> QED
        BY <4>1 DEF WillEnd
    <3> QED
      BY <3>2, <3>3
  <2>4. x \in shown \/ (~ Resolved(job) /\ x = job.id)
    BY DEF Attempt, Send, Show, Resolved
  <2> QED
    BY <2>1, <2>2, <2>3, <2>4
<1>6. QueuedWillEnd'
  <2> SUFFICES ASSUME NEW p \in Positions', NEW x, x = At(p)'.id, (~ Resolved(At(p)))'
               PROVE  (WillEnd(p, x))'
    BY DEF QueuedWillEnd, WillEnd
  <2>1. p \in Positions /\ (At(p))' = At(p) /\ p \in Nat
    BY <1>2
  <2>2. WillEnd(p, x)
    BY <2>1, <1>1 DEF QueuedWillEnd, Resolved
  <2> QED
    BY <2>1, <2>2, <1>4
<1> QED
  BY <1>5, <1>6

(* What an attempt makes of the threads: a create that was answered enters *)
(* the incident's, a resolve forgets it.                                   *)
LEMMA AttemptThreads ==
  ASSUME Inv, NEW job, NEW ok \in BOOLEAN, NEW done \in BOOLEAN, Attempt(job, ok, done)
  PROVE  /\ \A k \in Key :
              \/ threadMap'[k] = NoId
              \/ threadMap'[k] = threadMap[k] /\ ~ (Resolved(job) /\ k = job.key)
              \/ threadMap'[k] = job.id /\ k = job.key /\ ~ Resolved(job) /\ ok
         /\ ThreadsOfSlack'
<1>1. TypeOK /\ ThreadsOfSlack
  BY DEF Inv
<1>2. job \in Job /\ job.key \in Key /\ job.action \in Action
  BY <1>1, AttemptPositions DEF Job
<1>3. threadMap \in [Key -> Id \cup {NoId}]
  BY <1>1 DEF TypeOK
<1>4. Send(job, ok, done) /\ kind' = kind
  BY DEF Attempt
<1>5. CASE kind # "thread"
  <2>1. threadMap' = threadMap
    BY <1>4, <1>5 DEF Send, slackVars
  <2>2. \A k \in Key : threadMap[k] = NoId
    BY <1>1, <1>5 DEF ThreadsOfSlack, Threaded
  <2> QED
    BY <2>1, <2>2, <1>1, <1>4 DEF ThreadsOfSlack, Threaded, Threads
<1>6. CASE kind = "thread"
  <2>1. threadMap' = ThreadsAfter(job, ok)
    BY <1>4, <1>6 DEF Send, sendIncidentWithToken
  <2>2. CASE job.action = "Create" /\ ok /\ Tracked(job.key)
    <3>1. threadMap' = [threadMap EXCEPT ![job.key] = job.id]
      BY <2>1, <2>2 DEF ThreadsAfter
    <3>2. Threaded' \subseteq Threaded \cup {job.key}
      BY <3>1, <1>3 DEF Threaded
    <3>3. IsFiniteSet(Threaded) /\ Threads = Cardinality(Threaded) /\ Threads < maxThreadMapSize
      BY <2>2, <1>1 DEF ThreadsOfSlack, Threaded, Threads, Tracked
    <3>4. /\ IsFiniteSet(Threaded \cup {job.key})
          /\ Cardinality(Threaded \cup {job.key}) \in Nat
          /\ Cardinality(Threaded) \in Nat
          /\ Cardinality(Threaded \cup {job.key}) <= Cardinality(Threaded) + 1
      <4> DEFINE T == Threaded
      <4>1. IsFiniteSet(T)
        BY <3>3
      <4> HIDE DEF T
      <4>2. /\ IsFiniteSet(T \cup {job.key})
            /\ Cardinality(T \cup {job.key}) =
                 IF job.key \in T THEN Cardinality(T) ELSE Cardinality(T) + 1
        BY <4>1, FS_AddElement
      <4>3. Cardinality(T) \in Nat /\ Cardinality(T \cup {job.key}) \in Nat
        BY <4>1, <4>2, FS_CardinalityType
      <4>4. Cardinality(T \cup {job.key}) <= Cardinality(T) + 1
        BY <4>2, <4>3
      <4> QED
        BY <4>2, <4>3, <4>4 DEF T
    <3>5. PICK S : S = Threaded'
      OBVIOUS
    <3>6. IsFiniteSet(S) /\ Cardinality(S) <= Cardinality(Threaded \cup {job.key})
      BY <3>2, <3>4, <3>5, FS_Subset
    <3>7. IsFiniteSet(S) /\ Cardinality(S) \in Nat
      BY <3>6, FS_CardinalityType
    <3>8. Cardinality(S) <= maxThreadMapSize
      BY <3>3, <3>4, <3>6, <3>7, NotifierAssumption
    <3>9. Threads' = Cardinality(S)
      BY <3>5 DEF Threads, Threaded
    <3>10. ThreadsOfSlack'
      BY <3>5, <3>7, <3>8, <3>9, <1>4, <1>6 DEF ThreadsOfSlack
    <3> QED
      BY <3>1, <3>10, <2>2, <1>2, <1>3 DEF Resolved
  <2>3. CASE ~ (job.action = "Create" /\ ok /\ Tracked(job.key))
    <3>1. \A k \in Key : \/ threadMap'[k] = NoId
                         \/ threadMap'[k] = threadMap[k] /\ ~ (Resolved(job) /\ k = job.key)
      BY <2>1, <2>3, <1>2, <1>3 DEF ThreadsAfter, Resolved
    <3>2. PICK S : S = Threaded'
      OBVIOUS
    <3>3. S \subseteq Threaded
      BY <3>1, <3>2 DEF Threaded
    <3>4. /\ IsFiniteSet(S) /\ Cardinality(S) <= Cardinality(Threaded)
          /\ Cardinality(S) \in Nat /\ Cardinality(Threaded) \in Nat
      BY <3>3, <1>1, FS_Subset, FS_CardinalityType DEF ThreadsOfSlack
    <3>5. Cardinality(S) <= maxThreadMapSize
      BY <3>4, <1>1, NotifierAssumption DEF ThreadsOfSlack, Threads, Threaded
    <3>6. Threads' = Cardinality(S)
      BY <3>2 DEF Threads, Threaded
    <3>7. ThreadsOfSlack'
      BY <3>2, <3>4, <3>5, <3>6, <1>4, <1>6 DEF ThreadsOfSlack
    <3> QED
      BY <3>1, <3>7
  <2> QED
    BY <2>2, <2>3
<1> QED
  BY <1>5, <1>6

LEMMA AttemptKeepsTurns ==
  ASSUME Inv, NEW job, NEW ok \in BOOLEAN, NEW done \in BOOLEAN, Attempt(job, ok, done)
  PROVE  InTurn' /\ ThreadOfItsOwn'
<1>1. TypeOK /\ InTurn /\ ThreadOfItsOwn
  BY DEF Inv
<1>2. /\ Positions \ {0} \subseteq Positions' /\ Positions' \subseteq Positions
      /\ 0 \in Positions /\ At(0) = job /\ job \in Job
      /\ \A p \in Positions' : (At(p))' = At(p)
      /\ 0 \in Positions' <=> worker'.job = job
      /\ Positions \subseteq Nat
  BY <1>1, AttemptPositions
<1>3. UNCHANGED <<incident, ch, untold>> /\ Last' = Last
  BY DEF Attempt, Last
<1>4. \A k \in Key :
         \/ threadMap'[k] = NoId
         \/ threadMap'[k] = threadMap[k] /\ ~ (Resolved(job) /\ k = job.key)
         \/ threadMap'[k] = job.id /\ k = job.key /\ ~ Resolved(job) /\ ok
  BY AttemptThreads
<1>5. ok => 0 \notin Positions'
  BY <1>2 DEF Attempt
<1>6. \A p \in Positions : At(p).key \in Key
  BY <1>1, PositionJob DEF Job
<1>7. InTurn'
  <2>1. ThreadThenJob /\ ThreadThenOpen /\ JobThenJob /\ JobThenOpen
    BY <1>1 DEF InTurn
  <2>2. ASSUME NEW p \in Nat, NEW q, NEW k, NEW x, EndsWithin(p, q, k, x),
               ~ (p = 0 /\ Resolved(job) /\ job.key = k /\ 0 \notin Positions')
        PROVE  (EndsWithin(p, q, k, x))' /\ (EndsWithin(0, q, k, x))'
    <3>0. CASE x \in untold
      BY <3>0, <1>3 DEF EndsWithin
    <3> SUFFICES ASSUME x \notin untold
                 PROVE  (EndsWithin(p, q, k, x))' /\ (EndsWithin(0, q, k, x))'
      BY <3>0
    <3>1. PICK r \in Positions : /\ p <= r /\ r < q
                                 /\ At(r).key = k /\ Resolved(At(r)) /\ At(r).id = x
      BY <2>2 DEF EndsWithin
    <3>2. r \in Positions' /\ (At(r))' = At(r) /\ 0 <= r
      BY <3>1, <2>2, <1>2
    <3> QED
      BY <3>1, <3>2 DEF EndsWithin, Resolved
  <2>3. ThreadThenJob'
    <3> SUFFICES ASSUME NEW q \in Positions', NEW k, NEW t,
                        k = At(q)'.key, t = threadMap'[k], t \notin {At(q)'.id, NoId}
                 PROVE  (EndsWithin(0, q, k, t))'
      BY DEF ThreadThenJob, EndsWithin
    <3>1. q \in Positions /\ (At(q))' = At(q) /\ k \in Key /\ q \in Nat
      BY <1>2, <1>6
    <3>2. CASE t = threadMap[k] /\ ~ (Resolved(job) /\ k = job.key)
      <4>1. EndsWithin(0, q, k, t)
        BY <3>1, <3>2, <2>1 DEF ThreadThenJob
      <4> QED
        BY <4>1, <3>2, <2>2
    <3>3. CASE t = job.id /\ k = job.key /\ ~ Resolved(job) /\ ok
      <4>1. 0 < q
        BY <3>1, <3>3, <1>5
      <4>2. EndsWithin(0, q, k, t)
        BY <4>1, <3>1, <3>3, <2>1, <1>2 DEF JobThenJob
      <4> QED
        BY <4>2, <3>3, <2>2
    <3> QED
      BY <3>1, <3>2, <3>3, <1>4
  <2>4. ThreadThenOpen'
    <3> SUFFICES ASSUME NEW k \in Key, NEW t, NEW q, q = Last', t = threadMap'[k],
                        t \notin {incident'[k].id, NoId}
                 PROVE  (EndsWithin(0, q, k, t))'
      BY DEF ThreadThenOpen, EndsWithin
    <3>1. CASE t = threadMap[k] /\ ~ (Resolved(job) /\ k = job.key)
      <4>1. EndsWithin(0, q, k, t)
        BY <3>1, <2>1, <1>3 DEF ThreadThenOpen, EndsWithin
      <4> QED
        BY <4>1, <3>1, <2>2
    <3>2. CASE t = job.id /\ k = job.key /\ ~ Resolved(job) /\ ok
      <4>1. EndsWithin(0, q, k, t)
        BY <3>2, <2>1, <1>2, <1>3 DEF JobThenOpen, EndsWithin
      <4> QED
        BY <4>1, <3>2, <2>2
    <3> QED
      BY <3>1, <3>2, <1>4
  <2>5. JobThenJob'
    <3> SUFFICES ASSUME NEW p \in Positions', NEW q \in Positions', NEW k, NEW x,
                        p < q, k = At(p)'.key, x = At(p)'.id,
                        At(q)'.key = k, At(q)'.id # x
                 PROVE  (EndsWithin(p, q, k, x))'
      BY DEF JobThenJob, EndsWithin
    <3>1. /\ p \in Positions /\ q \in Positions /\ p \in Nat
          /\ (At(p))' = At(p) /\ (At(q))' = At(q)
      BY <1>2
    <3>2. EndsWithin(p, q, k, x)
      BY <3>1, <2>1 DEF JobThenJob
    <3> QED
      BY <3>1, <3>2, <2>2
  <2>6. JobThenOpen'
    <3> SUFFICES ASSUME NEW p \in Positions', NEW k, NEW x, NEW q, q = Last',
                        k = At(p)'.key, x = At(p)'.id, x # incident'[k].id
                 PROVE  (EndsWithin(p, q, k, x))'
      BY DEF JobThenOpen, EndsWithin
    <3>1. p \in Positions /\ p \in Nat /\ (At(p))' = At(p)
      BY <1>2
    <3>2. EndsWithin(p, q, k, x)
      BY <3>1, <2>1, <1>3 DEF JobThenOpen, EndsWithin
    <3> QED
      BY <3>1, <3>2, <2>2
  <2> QED
    BY <2>3, <2>4, <2>5, <2>6 DEF InTurn
<1>8. ThreadOfItsOwn'
  <2> SUFFICES posted'.thread \in {posted'.id} \cup untold
    BY <1>3 DEF ThreadOfItsOwn
  <2>1. posted.thread \in {posted.id} \cup untold
    BY <1>1 DEF ThreadOfItsOwn
  <2>2. ThreadThenJob
    BY <1>1 DEF InTurn
  <2>3. EndsWithin(0, 0, job.key, threadMap[job.key]) => threadMap[job.key] \in untold
    <3>1. \A r \in Positions : ~ (0 <= r /\ r < 0)
      BY <1>2
    <3> QED
      BY <3>1 DEF EndsWithin
  <2>4. threadMap[job.key] \in {job.id, NoId} \cup untold
    BY <2>2, <2>3, <1>2 DEF ThreadThenJob
  <2>5. CASE posted' = posted
    BY <2>1, <2>5
  <2>6. CASE posted' # posted
    <3>1. /\ posted' = [id |-> job.id, thread |-> threadMap[job.key]]
          /\ threadMap[job.key] # NoId
      BY <2>6 DEF Attempt, Send, sendIncidentWithToken, slackVars
    <3> QED
      BY <3>1, <2>4
  <2> QED
    BY <2>5, <2>6
<1> QED
  BY <1>7, <1>8

-----------------------------------------------------------------------------
(* The invariant.                                                          *)
LEMMA InitInv == Init => Inv
<1> SUFFICES ASSUME Init PROVE Inv
  OBVIOUS
<1>1. TypeOK /\ DlqInv
  <2>1. DlqInv
    BY DlqInitInv DEF Init
  <2>2. /\ incident \in [Key -> Incident \cup {NoIncident}]
        /\ worker \in [job : Job \cup {NoJob}, attempt : 0 .. MaxAttempts]
        /\ posted \in [id : Id \cup {NoId}, thread : Id \cup {NoId}]
    BY Constants DEF Init, IdleWorker, NoPost
  <2>3. issued \in 0 .. MaxIncidents /\ silences \in 0 .. MaxSilences /\ silenced \subseteq Key
    BY Constants DEF Init
  <2>4. ch \in Seq(Job) /\ Len(ch) <= ChannelCap
    BY Constants DEF Init
  <2> QED
    BY <2>1, <2>2, <2>3, <2>4 DEF Init, TypeOK, DlqInv, NoPause
<1>2. Positions = {}
  BY DEF Init, Positions, IdleWorker
<1>3. Attempting /\ PauseWithinBounds
  BY DEF Init, Attempting, PauseWithinBounds, IdleWorker, NoPause
<1>4. ShownWillEnd /\ QueuedWillEnd
  BY <1>2 DEF Init, ShownWillEnd, QueuedWillEnd
<1>5. InTurn /\ ThreadOfItsOwn
  <2>1. \A k \in Key : threadMap[k] = NoId
    BY DEF Init
  <2>2. ThreadThenOpen
    BY <2>1 DEF ThreadThenOpen
  <2>3. ThreadOfItsOwn
    BY DEF Init, NoPost, ThreadOfItsOwn
  <2> QED
    BY <1>2, <2>2, <2>3 DEF InTurn, ThreadThenJob, JobThenJob, JobThenOpen
<1>6. ThreadsOfSlack
  <2>1. Threaded = {}
    BY DEF Init, Threaded
  <2>2. IsFiniteSet(Threaded) /\ Cardinality(Threaded) = 0
    BY <2>1, FS_EmptySet
  <2> QED
    BY <2>1, <2>2, NotifierAssumption DEF ThreadsOfSlack, Threads, Threaded
<1> QED
  BY <1>1, <1>3, <1>4, <1>5, <1>6 DEF Inv

LEMMA StepInv == Inv /\ [Next]_vars => Inv'
<1> SUFFICES ASSUME Inv, [Next]_vars PROVE Inv'
  OBVIOUS
<1> DEFINE Rest == ShownWillEnd' /\ QueuedWillEnd' /\ InTurn' /\ ThreadOfItsOwn' /\ ThreadsOfSlack'
<1>0. TypeOK /\ ThreadsOfSlack
  BY DEF Inv
<1>t. UNCHANGED <<kind, threadMap>> => ThreadsOfSlack'
  BY <1>0 DEF ThreadsOfSlack, Threaded, Threads
<1>1. ASSUME NEW key \in Key, Create(key) PROVE Rest
  <2>1. PICK i, job : /\ i \in Incident /\ job \in Job
                      /\ job.key = key /\ job.id = i.id /\ ~ Resolved(job)
                      /\ incident[key].id = NoId
                      /\ incident' = [incident EXCEPT ![key] = i] /\ NotifyIncident(job)
    BY <1>0, <1>1, CreateSays
  <2>2. UNCHANGED <<worker, threadMap, posted, shown, dead, kind>>
    BY <1>1 DEF Create, slackVars
  <2> QED
    BY <2>1, <2>2, <1>t, TellKeeps DEF Said
<1>2. ASSUME NEW key \in Key, Update(key) PROVE Rest
  <2>1. PICK i, job : /\ i \in Incident /\ job \in Job
                      /\ job.key = key /\ job.id = i.id /\ ~ Resolved(job)
                      /\ incident[key].id = job.id
                      /\ incident' = [incident EXCEPT ![key] = i] /\ NotifyIncident(job)
    BY <1>0, <1>2, UpdateSays
  <2>2. UNCHANGED <<worker, threadMap, posted, shown, dead, kind>>
    BY <1>2 DEF Update, slackVars
  <2> QED
    BY <2>1, <2>2, <1>t, TellKeeps DEF Said
<1>3. ASSUME NEW key \in Key, Resolve(key) \/ cleanup(key) PROVE Rest
  <2>1. PICK job : /\ job \in Job /\ Said(job)
                   /\ job.key = key /\ job.id = incident[key].id /\ Resolved(job)
    BY <1>0, <1>3, EndSays
  <2>2. incident' = [incident EXCEPT ![key] = NoIncident]
    BY <1>3 DEF Resolve, cleanup
  <2>3. UNCHANGED <<worker, threadMap, posted, shown, dead, kind>>
    BY <1>3 DEF Resolve, cleanup, slackVars
  <2> QED
    BY <2>1, <2>2, <2>3, <1>t, TellKeeps
<1>u. ASSUME UNCHANGED <<incident, kind, ch, worker, slackVars, tellVars>> PROVE Rest
  BY <1>u, <1>t DEF Inv, ShownWillEnd, QueuedWillEnd, WillEnd, Positions, At, Resolved, OpenIds,
     InTurn, ThreadThenJob, ThreadThenOpen, JobThenJob, JobThenOpen, EndsWithin, Last,
     ThreadOfItsOwn, slackVars, tellVars
<1>4. ASSUME SetSilences PROVE Rest
  BY <1>4, <1>u DEF SetSilences
<1>5. ASSUME Receive PROVE Rest
  BY <1>5, <1>t, ReceiveKeeps DEF Receive, slackVars
<1>a. ASSUME NEW ok \in BOOLEAN, NEW done \in BOOLEAN, Attempt(worker.job, ok, done) PROVE Rest
  BY <1>a, AttemptKeepsPages, AttemptKeepsTurns, AttemptThreads
<1>6. ASSUME Succeed PROVE Rest
  <2>1. Attempt(worker.job, TRUE, TRUE)
    BY <1>6 DEF Succeed, Attempt, IdleWorker, engineVars
  <2> QED
    BY <2>1, <1>a
<1>7. ASSUME Retry PROVE Rest
  <2>1. PICK done \in BOOLEAN : Send(worker.job, FALSE, done)
    BY <1>7 DEF Retry
  <2>2. worker'.job = worker.job
    BY <1>0, <1>7 DEF Retry, TypeOK
  <2>3. Attempt(worker.job, FALSE, done)
    BY <2>1, <2>2, <1>7 DEF Retry, Attempt, engineVars
  <2> QED
    BY <2>3, <1>a
<1>8. ASSUME GiveUp PROVE Rest
  <2>1. PICK done \in BOOLEAN : Send(worker.job, FALSE, done)
    BY <1>8 DEF GiveUp
  <2>2. Attempt(worker.job, FALSE, done)
    BY <2>1, <1>8 DEF GiveUp, Attempt, IdleWorker, engineVars
  <2> QED
    BY <2>2, <1>a
<1>9. CASE Next
  <2>1. Rest
    BY <1>1, <1>2, <1>3, <1>4, <1>5, <1>6, <1>7, <1>8, <1>9 DEF Next, deliverOne
  <2>2. TypeOK' /\ DlqInv' /\ Attempting' /\ PauseWithinBounds'
    BY <1>9, StepTypes
  <2> QED
    BY <2>1, <2>2 DEF Inv
<1>10. CASE UNCHANGED vars
  <2>1. Rest
    BY <1>10, <1>u DEF vars, engineVars
  <2>2. TypeOK' /\ Attempting' /\ PauseWithinBounds'
    BY <1>10 DEF Inv, vars, dlqVars, engineVars, slackVars, tellVars,
                 TypeOK, DlqTypeOK, Attempting, PauseWithinBounds
  <2>3. DlqInv'
    BY <1>10 DEF Inv, vars, dlqVars, DlqInv, DlqTypeOK, Fill, Contents
  <2> QED
    BY <2>1, <2>2, <2>3 DEF Inv
<1> QED
  BY <1>9, <1>10

LEMMA Invariant == Spec => []Inv
BY InitInv, StepInv, PTL DEF Spec

(***************************************************************************)
(* Once everything queued is delivered, a provider shows as going on only  *)
(* what is going on, or what it was never told the end of: ended by the    *)
(* engine without a word, silenced, not routed, dropped from a full        *)
(* channel, or a dead letter.                                              *)
(***************************************************************************)
THEOREM PagesAlwaysEnd == Spec => []EveryPageEnds
<1>1. Inv => EveryPageEnds
  <2> SUFFICES ASSUME Inv, AtRest, NEW x \in shown PROVE x \in OpenIds \cup untold \cup dead
    BY DEF EveryPageEnds
  <2>1. Positions = {}
    BY DEF AtRest, Positions
  <2> QED
    BY <2>1 DEF Inv, ShownWillEnd, WillEnd
<1> QED
  BY <1>1, Invariant, PTL

(***************************************************************************)
(* Slack posts to the thread of the incident it posts about, to none, or   *)
(* to that of one whose end it was not told; it keeps the map of threads   *)
(* within its bound, and at rest remembers the threads of open incidents   *)
(* and of such only; with the types of every variable.                     *)
(***************************************************************************)
THEOREM ThreadsAlwaysExact == Spec => []ThreadsExact
<1>1. Inv => ThreadsExact
  <2> SUFFICES ASSUME Inv PROVE TypeOK /\ ThreadOfItsOwn /\ ThreadsBounded
    BY DEF ThreadsExact
  <2>1. ASSUME AtRest, NEW k \in Key
        PROVE  threadMap[k] \in {incident[k].id, NoId} \cup untold
    <3>1. Positions = {}
      BY <2>1 DEF AtRest, Positions
    <3>2. ThreadThenOpen
      BY DEF Inv, InTurn
    <3> QED
      BY <3>1, <3>2 DEF ThreadThenOpen, EndsWithin
  <2> QED
    BY <2>1 DEF Inv, ThreadsOfSlack, ThreadsBounded
<1> QED
  BY <1>1, Invariant, PTL

(***************************************************************************)
(* A pause that the provider did not ask for is never shorter than the     *)
(* configured delay nor longer than the configured maximum, or than the    *)
(* delay where there is no maximum above it, for every delay and maximum,  *)
(* zero and less included, and every width at which their product wraps.   *)
(***************************************************************************)
THEOREM PausesAlwaysBounded == Spec => []PauseWithinBounds
<1>1. Inv => PauseWithinBounds
  BY DEF Inv
<1> QED
  BY <1>1, Invariant, PTL

(* The dead letters of the manager as a whole are the latest failures too. *)
THEOREM DeadLettersOfTheManager == Spec => []LatestFailures
<1>1. Inv => LatestFailures
  BY Reported DEF Inv
<1> QED
  BY <1>1, Invariant, PTL

=============================================================================
