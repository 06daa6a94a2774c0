--------------------------- MODULE DeliveryProofs ---------------------------
(***************************************************************************)
(* Delivery's types, its safety at the channels, that it neither loses nor *)
(* doubles a notification, and that it tells every provider one story: for *)
(* any number of callers, providers, notifications and any capacity.       *)
(***************************************************************************)
EXTENDS Delivery, SequenceTheorems, FunctionTheorems, FiniteSetTheorems, TLAPS

LEMMA Sizes ==
  /\ Entries \in Nat \ {0} /\ ChannelCap \in Nat \ {0} /\ EnrichCap \in Nat \ {0}
  /\ BreakerThreshold \in Nat \ {0} /\ MaxCalls \in Nat
  /\ LLM \in BOOLEAN
BY DeliveryAssumption

LEMMA AttemptsType == \A p \in Entry : MaxAttempts[p] \in Nat \ {0}
BY DeliveryAssumption

LEMMA FallbackType == Fallback \in [Entry -> 0 .. Entries]
BY DeliveryAssumption

LEMMA Sentinel ==
  NoJob \notin Job /\ NoJob \notin Call /\ NoFan \notin Fan /\ Enricher \notin Caller
BY DeliveryAssumption

-----------------------------------------------------------------------------
(* Types, group by group: a step disturbs few of them.                     *)

CallTypes ==
  /\ issued \in 0 .. MaxCalls
  /\ calling \in [Caller -> Call \cup {NoJob}]
  /\ refused \subseteq Id

(* A worker that is busy has a job.                                        *)
EnrichTypes ==
  /\ enrichCh \in Seq(Job) /\ Len(enrichCh) <= EnrichCap
  /\ enrichClosed \in BOOLEAN
  /\ enricher \in [at : {"idle", "analyze", "fanOut", "exited"}, job : Job \cup {NoJob}]
  /\ brk \in [fails : 0 .. BreakerThreshold, open : BOOLEAN]
  /\ enricher.at \in {"analyze", "fanOut"} => enricher.job \in Job

ChannelTypes ==
  /\ fan \in Fan \cup {NoFan}
  /\ order \in Seq(Job)
  /\ ch \in [Entry -> Seq(Job)] /\ \A p \in Entry : Len(ch[p]) <= ChannelCap
  /\ closed \in BOOLEAN
  /\ dropped \in [Entry -> SUBSET Id]

WorkerTypes ==
  /\ worker \in [Entry -> [at : {"idle", "sending", "exited"}, job : Job \cup {NoJob},
                           attempt : Nat]]
  /\ got \in [Entry -> Seq(Job)]
  /\ delivered \in [Entry -> SUBSET Id]
  /\ dead \in [Entry -> SUBSET Id]
  /\ filtered \in [Entry -> SUBSET Id]
  /\ rescued \in [Entry -> SUBSET Id]
  /\ \A p \in Entry : worker[p].at = "sending" => worker[p].job \in Job
  /\ \A p \in Entry : worker[p].attempt <= MaxAttempts[p]

ShutdownTypes ==
  /\ stopped \in BOOLEAN
  /\ shutdownAt \in {"running", "closeEnrich", "closeProviders", "waitWorkers", "done"}

Types == CallTypes /\ EnrichTypes /\ ChannelTypes /\ WorkerTypes /\ ShutdownTypes

LEMMA TypesOK == Types => TypeOK
BY DEF Types, CallTypes, EnrichTypes, ChannelTypes, WorkerTypes, ShutdownTypes, TypeOK

LEMMA CallFrame == CallTypes /\ UNCHANGED callVars => CallTypes'
BY DEF CallTypes, callVars

LEMMA EnrichFrame == EnrichTypes /\ UNCHANGED enrichVars => EnrichTypes'
BY DEF EnrichTypes, enrichVars

LEMMA ChannelFrame == ChannelTypes /\ UNCHANGED channelVars => ChannelTypes'
BY DEF ChannelTypes, channelVars

LEMMA WorkerFrame == WorkerTypes /\ UNCHANGED workerVars => WorkerTypes'
BY DEF WorkerTypes, workerVars

LEMMA ShutdownFrame == ShutdownTypes /\ UNCHANGED shutdownVars => ShutdownTypes'
BY DEF ShutdownTypes, shutdownVars

LEMMA InitTypes == Init => Types
<1> SUFFICES ASSUME Init PROVE Types
  OBVIOUS
<1>1. CallTypes
  BY Sizes DEF Init, CallTypes
<1>2. EnrichTypes
  <2>1. enrichCh \in Seq(Job) /\ Len(enrichCh) = 0
    BY EmptySeq DEF Init
  <2>2. enricher = [at |-> "idle", job |-> NoJob] /\ brk = [fails |-> 0, open |-> FALSE]
    BY DEF Init, IdleEnricher
  <2>3. enricher \in [at : {"idle", "analyze", "fanOut", "exited"}, job : Job \cup {NoJob}]
    BY <2>2
  <2>4. brk \in [fails : 0 .. BreakerThreshold, open : BOOLEAN] /\ enricher.at = "idle"
    BY <2>2, Sizes
  <2>5. Len(enrichCh) <= EnrichCap /\ enrichClosed = FALSE
    BY <2>1, Sizes DEF Init
  <2> QED
    BY <2>1, <2>3, <2>4, <2>5 DEF EnrichTypes
<1>3. ChannelTypes
  <2>1. <<>> \in Seq(Job) /\ Len(<<>>) = 0
    BY EmptySeq
  <2>2. ch = [p \in Entry |-> <<>>]
    BY DEF Init
  <2>3. ch \in [Entry -> Seq(Job)] /\ \A p \in Entry : Len(ch[p]) <= ChannelCap
    BY <2>1, <2>2, Sizes
  <2>4. dropped \in [Entry -> SUBSET Id] /\ order \in Seq(Job)
    BY <2>1 DEF Init
  <2> QED
    BY <2>3, <2>4 DEF Init, ChannelTypes
<1>4. WorkerTypes
  <2>1. IdleWorker \in [at : {"idle", "sending", "exited"}, job : Job \cup {NoJob},
                        attempt : Nat]
    BY DEF IdleWorker
  <2>2. worker = [p \in Entry |-> IdleWorker]
    BY DEF Init
  <2>3. \A p \in Entry : worker[p].at = "idle" /\ worker[p].attempt = 0
    BY <2>2 DEF IdleWorker
  <2>4. \A p \in Entry : worker[p].attempt <= MaxAttempts[p]
    BY <2>3, AttemptsType
  <2> QED
    BY <2>1, <2>2, <2>3, <2>4 DEF Init, WorkerTypes
<1>5. ShutdownTypes
  BY DEF Init, ShutdownTypes
<1> QED
  BY <1>1, <1>2, <1>3, <1>4, <1>5 DEF Types

(* What a step does to a channel keeps it a channel.                       *)
LEMMA PutType ==
  ASSUME NEW S, NEW s \in Seq(S), NEW x \in S
  PROVE  Append(s, x) \in Seq(S) /\ Len(Append(s, x)) = Len(s) + 1
BY AppendProperties

LEMMA TakeType ==
  ASSUME NEW S, NEW s \in Seq(S), s # <<>>
  PROVE  /\ Head(s) \in S /\ Tail(s) \in Seq(S)
         /\ Len(Tail(s)) = Len(s) - 1 /\ Len(s) \in Nat \ {0}
BY HeadTailProperties, EmptySeq

(* The record a fan-out is, and the job and entry it has.                  *)
LEMMA FanType ==
  ASSUME ChannelTypes, fan # NoFan
  PROVE  /\ fan \in Fan /\ fan.job \in Job /\ fan.entry \in Entry
         /\ fan.job.id \in Id
BY DEF ChannelTypes, Fan, Job

LEMMA NextEntryType ==
  ASSUME ChannelTypes, fan # NoFan
  PROVE  /\ NextEntry \in Fan \cup {NoFan}
         /\ NextEntry # NoFan => NextEntry.step = "offer"
<1>1. fan \in Fan /\ fan.entry \in 1 .. Entries
  BY FanType DEF Entry
<1>2. fan.entry < Entries => fan.entry + 1 \in Entry
  BY <1>1, Sizes DEF Entry
<1>3. CASE fan.entry < Entries
  <2>1. NextEntry = [fan EXCEPT !.entry = @ + 1, !.step = "offer"]
    BY <1>3 DEF NextEntry
  <2> QED
    BY <2>1, <1>1, <1>2, <1>3 DEF Fan
<1>4. CASE ~ (fan.entry < Entries)
  BY <1>4 DEF NextEntry
<1> QED
  BY <1>3, <1>4
-----------------------------------------------------------------------------
(* Each action keeps the types.                                            *)

LEMMA NotifyTypes ==
  ASSUME Types, NEW c \in Caller, NEW n \in Notice, NotifyIncident(c, n)
  PROVE  Types'
<1> DEFINE job == [id |-> issued + 1, by |-> c, notice |-> n]
           atp == IF LLM /\ n.action = "Create" THEN "enqueue" ELSE "fanOut"
           call == [at |-> atp, job |-> job]
<1>1. issued \in 0 .. MaxCalls /\ issued < MaxCalls
  BY DEF NotifyIncident, Types, CallTypes
<1>2. issued + 1 \in 0 .. MaxCalls /\ issued + 1 \in Id
  BY <1>1, Sizes DEF Id
<1>3. job \in Job
  BY <1>2 DEF Job
<1>4. call \in Call
  <2>1. atp \in {"enqueue", "fanOut"}
    OBVIOUS
  <2> HIDE DEF job, atp
  <2> QED
    BY <2>1, <1>3 DEF Call
<1>5. calling' = [calling EXCEPT ![c] = call]
  BY DEF NotifyIncident
<1> HIDE DEF call
<1>6. CallTypes'
  BY <1>2, <1>4, <1>5 DEF NotifyIncident, Types, CallTypes
<1> QED
  BY <1>6, EnrichFrame, ChannelFrame, WorkerFrame, ShutdownFrame DEF NotifyIncident, Types

LEMMA CallingJob ==
  ASSUME CallTypes, NEW c \in Caller, calling[c] # NoJob
  PROVE  calling[c] \in Call /\ calling[c].job \in Job /\ calling[c].job.id \in Id
BY DEF CallTypes, Call, Job

LEMMA EnqueueTypes ==
  ASSUME Types, NEW c \in Caller, Enqueue(c)
  PROVE  Types'
<1>1. calling[c] \in Call /\ calling[c].job \in Job
  BY CallingJob DEF Enqueue, At, Types
<1>2. CASE ~ stopped /\ Len(enrichCh) < EnrichCap
  <2>1. enrichCh' = Append(enrichCh, calling[c].job) /\ calling' = [calling EXCEPT ![c] = NoJob]
    BY <1>2 DEF Enqueue, AfterEnqueue
  <2>2. CallTypes'
    BY <2>1 DEF Enqueue, Types, CallTypes
  <2>3. enrichCh \in Seq(Job)
    BY DEF Types, EnrichTypes
  <2>4. enrichCh' \in Seq(Job) /\ Len(enrichCh') = Len(enrichCh) + 1 /\ Len(enrichCh) \in Nat
    BY <2>1, <2>3, <1>1, PutType, LenProperties
  <2>5. Len(enrichCh') <= EnrichCap
    BY <2>4, <1>2, Sizes
  <2>6. EnrichTypes'
    BY <2>4, <2>5 DEF Enqueue, Types, EnrichTypes
  <2> QED
    BY <2>2, <2>6, ChannelFrame, WorkerFrame, ShutdownFrame DEF Enqueue, Types
<1>3. CASE ~ (~ stopped /\ Len(enrichCh) < EnrichCap)
  <2>1. calling' = [calling EXCEPT ![c].at = "fanOut"] /\ enrichCh' = enrichCh
    BY <1>3 DEF Enqueue
  <2>2. [calling[c] EXCEPT !.at = "fanOut"] \in Call
    BY <1>1 DEF Call
  <2>3. CallTypes'
    BY <2>1, <2>2 DEF Enqueue, Types, CallTypes
  <2>4. UNCHANGED enrichVars
    BY <2>1 DEF Enqueue, enrichVars
  <2> QED
    BY <2>3, <2>4, EnrichFrame, ChannelFrame, WorkerFrame, ShutdownFrame DEF Enqueue, Types
<1> QED
  BY <1>2, <1>3

(* A fan-out that starts.                                                  *)
LEMMA StartFanTypes ==
  ASSUME ChannelTypes, NEW by \in Caller \cup {Enricher}, NEW job \in Job,
         StartFan(by, job), UNCHANGED <<ch, closed, dropped>>
  PROVE  ChannelTypes'
<1>1. 1 \in Entry
  BY Sizes DEF Entry
<1>2. fan' \in Fan
  BY <1>1 DEF StartFan, Fan
<1>3. order' \in Seq(Job)
  BY PutType DEF StartFan, ChannelTypes
<1> QED
  BY <1>2, <1>3 DEF ChannelTypes

LEMMA CallFanOutTypes ==
  ASSUME Types, NEW c \in Caller, CallFanOut(c)
  PROVE  Types'
<1>1. calling[c].job \in Job
  BY CallingJob DEF CallFanOut, At, Types
<1>2. ChannelTypes'
  BY <1>1, StartFanTypes DEF CallFanOut, Types
<1>3. CallTypes'
  BY DEF CallFanOut, Types, CallTypes
<1> QED
  BY <1>2, <1>3, EnrichFrame, WorkerFrame, ShutdownFrame DEF CallFanOut, Types

LEMMA RefuseTypes ==
  ASSUME Types, NEW c \in Caller, Refuse(c)
  PROVE  Types'
<1>1. calling[c].job.id \in Id
  BY CallingJob DEF Refuse, At, Types
<1>2. CallTypes'
  BY <1>1 DEF Refuse, Types, CallTypes
<1> QED
  BY <1>2, EnrichFrame, ChannelFrame, WorkerFrame, ShutdownFrame DEF Refuse, Types

(* A job put into a channel with room.                                     *)
LEMMA PutTypes ==
  ASSUME ChannelTypes, NEW p \in Entry, NEW job \in Job, Room(p),
         ch' = [ch EXCEPT ![p] = Append(@, job)]
  PROVE  ch' \in [Entry -> Seq(Job)] /\ \A q \in Entry : Len(ch'[q]) <= ChannelCap
<1>1. ch \in [Entry -> Seq(Job)] /\ ch[p] \in Seq(Job)
  BY DEF ChannelTypes
<1>2. /\ Append(ch[p], job) \in Seq(Job)
      /\ Len(Append(ch[p], job)) = Len(ch[p]) + 1 /\ Len(ch[p]) \in Nat
  BY <1>1, PutType, LenProperties
<1>3. Len(Append(ch[p], job)) <= ChannelCap
  BY <1>2, Sizes DEF Room
<1>4. \A q \in Entry : ch'[q] = IF q = p THEN Append(ch[p], job) ELSE ch[q]
  BY <1>1
<1> QED
  BY <1>1, <1>2, <1>3, <1>4 DEF ChannelTypes

(* A job taken from a channel that is not empty.                           *)
LEMMA TakeTypes ==
  ASSUME ChannelTypes, NEW p \in Entry, ch[p] # <<>>, ch' = [ch EXCEPT ![p] = Tail(@)]
  PROVE  /\ ch' \in [Entry -> Seq(Job)] /\ \A q \in Entry : Len(ch'[q]) <= ChannelCap
         /\ Head(ch[p]) \in Job /\ Head(ch[p]).id \in Id
         /\ \A q \in Entry : Len(ch'[q]) <= Len(ch[q])
         /\ Len(ch'[p]) < ChannelCap
<1>1. ch \in [Entry -> Seq(Job)] /\ ch[p] \in Seq(Job) /\ Len(ch[p]) <= ChannelCap
  BY DEF ChannelTypes
<1>2. /\ Head(ch[p]) \in Job /\ Tail(ch[p]) \in Seq(Job)
      /\ Len(Tail(ch[p])) = Len(ch[p]) - 1 /\ Len(ch[p]) \in Nat \ {0}
  BY <1>1, TakeType
<1>3. Len(Tail(ch[p])) < ChannelCap /\ Len(Tail(ch[p])) <= Len(ch[p])
  BY <1>1, <1>2, Sizes
<1>4. Head(ch[p]).id \in Id
  BY <1>2 DEF Job
<1>5. \A q \in Entry : ch'[q] = IF q = p THEN Tail(ch[p]) ELSE ch[q]
  BY <1>1
<1>6. \A q \in Entry : Len(ch[q]) \in Nat
  BY <1>1, LenProperties
<1>7. ch' \in [Entry -> Seq(Job)]
  BY <1>1, <1>2
<1>8. \A q \in Entry : Len(ch'[q]) <= Len(ch[q])
  BY <1>3, <1>5, <1>6
<1>9. \A q \in Entry : Len(ch'[q]) <= ChannelCap
  BY <1>3, <1>5, Sizes, <1>1, <1>2 DEF ChannelTypes
<1> QED
  BY <1>2, <1>3, <1>4, <1>5, <1>7, <1>8, <1>9

LEMMA OfferTypes ==
  ASSUME Types, Offer
  PROVE  Types'
<1>1. ChannelTypes /\ fan # NoFan
  BY DEF Types, Offer, AtStep
<1>2. fan \in Fan /\ fan.job \in Job /\ fan.entry \in Entry
  BY <1>1, FanType
<1>3. NextEntry \in Fan \cup {NoFan}
  BY <1>1, NextEntryType
<1>4. /\ fan' \in Fan \cup {NoFan}
      /\ ch' \in [Entry -> Seq(Job)] /\ \A q \in Entry : Len(ch'[q]) <= ChannelCap
  <2>1. CASE Room(fan.entry)
    <3>1. ch' = [ch EXCEPT ![fan.entry] = Append(@, fan.job)] /\ fan' = NextEntry
      BY <2>1 DEF Offer, Put
    <3> QED
      BY <3>1, <2>1, <1>1, <1>2, <1>3, PutTypes
  <2>2. CASE ~ Room(fan.entry)
    <3>1. fan' = [fan EXCEPT !.step = "evict"] /\ ch' = ch
      BY <2>2 DEF Offer
    <3>2. fan' \in Fan
      BY <3>1, <1>2 DEF Fan
    <3> QED
      BY <3>1, <3>2, <1>1 DEF ChannelTypes
  <2> QED
    BY <2>1, <2>2
<1>5. ChannelTypes'
  BY <1>1, <1>4 DEF Offer, ChannelTypes
<1> QED
  BY <1>5, CallFrame, EnrichFrame, WorkerFrame, ShutdownFrame DEF Offer, Types

LEMMA EvictTypes ==
  ASSUME Types, Evict
  PROVE  Types' /\ Room(fan.entry)' /\ fan'.entry = fan.entry
<1> DEFINE p == fan.entry
<1>1. ChannelTypes /\ fan # NoFan
  BY DEF Types, Evict, AtStep
<1>2. fan \in Fan /\ fan.job \in Job /\ p \in Entry
  BY <1>1, FanType
<1>3. fan' = [fan EXCEPT !.step = "refill"] /\ fan' \in Fan /\ fan'.entry = p
  BY <1>2 DEF Evict, Fan
<1>4. /\ ch' \in [Entry -> Seq(Job)] /\ \A q \in Entry : Len(ch'[q]) <= ChannelCap
      /\ dropped' \in [Entry -> SUBSET Id]
      /\ Len(ch'[p]) < ChannelCap
  <2>1. CASE ch[p] = <<>>
    <3>1. ch' = ch /\ dropped' = dropped
      BY <2>1 DEF Evict, Evictee
    <3>2. Len(ch[p]) = 0
      BY <2>1, EmptySeq
    <3> QED
      BY <3>1, <3>2, <1>1, Sizes DEF ChannelTypes
  <2>2. CASE ch[p] # <<>>
    <3>1. /\ ch' = [ch EXCEPT ![p] = Tail(@)]
          /\ dropped' = [dropped EXCEPT ![p] = @ \cup {Head(ch[p]).id}]
      BY <2>2 DEF Evict, Evictee
    <3>2. /\ ch' \in [Entry -> Seq(Job)] /\ \A q \in Entry : Len(ch'[q]) <= ChannelCap
          /\ Head(ch[p]).id \in Id /\ Len(ch'[p]) < ChannelCap
      BY <3>1, <1>1, <1>2, <2>2, TakeTypes
    <3>3. dropped' \in [Entry -> SUBSET Id]
      BY <3>1, <3>2, <1>1 DEF ChannelTypes
    <3> QED
      BY <3>2, <3>3
  <2> QED
    BY <2>1, <2>2
<1>5. ChannelTypes'
  BY <1>1, <1>3, <1>4 DEF Evict, ChannelTypes
<1>6. Room(fan.entry)'
  BY <1>3, <1>4 DEF Room
<1>7. Types'
  BY <1>5, CallFrame, EnrichFrame, WorkerFrame, ShutdownFrame DEF Evict, Types
<1> QED
  BY <1>3, <1>6, <1>7

LEMMA RefillTypes ==
  ASSUME Types, Refill
  PROVE  Types'
<1>1. ChannelTypes /\ fan # NoFan
  BY DEF Types, Refill, AtStep
<1>2. fan \in Fan /\ fan.job \in Job /\ fan.entry \in Entry /\ fan.job.id \in Id
  BY <1>1, FanType
<1>3. fan' = NextEntry /\ NextEntry \in Fan \cup {NoFan}
  BY <1>1, NextEntryType DEF Refill
<1>4. /\ ch' \in [Entry -> Seq(Job)] /\ \A q \in Entry : Len(ch'[q]) <= ChannelCap
      /\ dropped' \in [Entry -> SUBSET Id]
  <2>1. CASE Room(fan.entry)
    <3>1. ch' = [ch EXCEPT ![fan.entry] = Append(@, fan.job)] /\ dropped' = dropped
      BY <2>1 DEF Refill, Put
    <3>2. ch' \in [Entry -> Seq(Job)] /\ \A q \in Entry : Len(ch'[q]) <= ChannelCap
      BY <3>1, <2>1, <1>1, <1>2, PutTypes
    <3> QED
      BY <3>1, <3>2, <1>1 DEF ChannelTypes
  <2>2. CASE ~ Room(fan.entry)
    <3>1. ch' = ch /\ dropped' = [dropped EXCEPT ![fan.entry] = @ \cup {fan.job.id}]
      BY <2>2 DEF Refill
    <3> QED
      BY <3>1, <1>1, <1>2 DEF ChannelTypes
  <2> QED
    BY <2>1, <2>2
<1>5. ChannelTypes'
  BY <1>1, <1>3, <1>4 DEF Refill, ChannelTypes
<1> QED
  BY <1>5, CallFrame, EnrichFrame, WorkerFrame, ShutdownFrame DEF Refill, Types

LEMMA EnricherReceiveTypes ==
  ASSUME Types, EnricherReceive
  PROVE  Types'
<1>1. enrichCh \in Seq(Job) /\ enrichCh # <<>> /\ Len(enrichCh) <= EnrichCap
  BY DEF Types, EnrichTypes, EnricherReceive
<1>2. /\ Head(enrichCh) \in Job /\ Tail(enrichCh) \in Seq(Job)
      /\ Len(Tail(enrichCh)) = Len(enrichCh) - 1 /\ Len(enrichCh) \in Nat \ {0}
  BY <1>1, TakeType
<1>3. enrichCh' \in Seq(Job) /\ Len(enrichCh') <= EnrichCap
  BY <1>1, <1>2, Sizes DEF EnricherReceive
<1>4. /\ enricher' \in [at : {"idle", "analyze", "fanOut", "exited"}, job : Job \cup {NoJob}]
      /\ enricher'.job \in Job
  BY <1>2 DEF EnricherReceive
<1>5. EnrichTypes'
  BY <1>3, <1>4 DEF EnricherReceive, Types, EnrichTypes
<1> QED
  BY <1>5, CallFrame, ChannelFrame, WorkerFrame, ShutdownFrame DEF EnricherReceive, Types

LEMMA BreakerType ==
  ASSUME EnrichTypes, NEW ok \in BOOLEAN
  PROVE  record(ok) \in [fails : 0 .. BreakerThreshold, open : BOOLEAN]
<1>1. brk.fails \in 0 .. BreakerThreshold
  BY DEF EnrichTypes
<1> DEFINE fails == IF brk.fails < BreakerThreshold THEN brk.fails + 1 ELSE BreakerThreshold
<1>2. fails \in 0 .. BreakerThreshold
  BY <1>1, Sizes
<1>3. record(ok) = IF ok THEN [fails |-> 0, open |-> FALSE]
                   ELSE [fails |-> fails, open |-> fails = BreakerThreshold]
  BY DEF record
<1>4. 0 \in 0 .. BreakerThreshold
  BY Sizes
<1> HIDE DEF fails
<1> QED
  BY <1>2, <1>3, <1>4

LEMMA enrichOneTypes ==
  ASSUME Types, enrichOne
  PROVE  Types'
<1>1. EnrichTypes /\ enricher.job \in Job
  BY DEF Types, EnrichTypes, enrichOne
<1>2. brk' \in [fails : 0 .. BreakerThreshold, open : BOOLEAN]
  <2>1. CASE brk' = brk
    BY <1>1, <2>1 DEF EnrichTypes
  <2>2. CASE \E ok \in BOOLEAN : brk' = record(ok)
    BY <1>1, <2>2, BreakerType
  <2> QED
    BY <2>1, <2>2 DEF enrichOne
<1>3. /\ enricher' \in [at : {"idle", "analyze", "fanOut", "exited"}, job : Job \cup {NoJob}]
      /\ enricher'.job \in Job
  BY <1>1 DEF enrichOne, EnrichTypes
<1>4. EnrichTypes'
  BY <1>1, <1>2, <1>3 DEF enrichOne, EnrichTypes
<1> QED
  BY <1>4, CallFrame, ChannelFrame, WorkerFrame, ShutdownFrame DEF enrichOne, Types

LEMMA BreakerCooldownTypes ==
  ASSUME Types, BreakerCooldown
  PROVE  Types'
<1>1. EnrichTypes'
  BY DEF BreakerCooldown, Types, EnrichTypes
<1> QED
  BY <1>1, CallFrame, ChannelFrame, WorkerFrame, ShutdownFrame DEF BreakerCooldown, Types

LEMMA EnricherFanOutTypes ==
  ASSUME Types, EnricherFanOut
  PROVE  Types'
<1>1. enricher.job \in Job
  BY DEF EnricherFanOut, Types, EnrichTypes
<1>2. ChannelTypes'
  BY <1>1, StartFanTypes DEF EnricherFanOut, Types
<1>3. EnrichTypes'
  BY DEF EnricherFanOut, Types, EnrichTypes, IdleEnricher
<1> QED
  BY <1>2, <1>3, CallFrame, WorkerFrame, ShutdownFrame DEF EnricherFanOut, Types

LEMMA EnricherExitTypes ==
  ASSUME Types, EnricherExit
  PROVE  Types'
<1>1. EnrichTypes'
  BY DEF EnricherExit, Types, EnrichTypes
<1> QED
  BY <1>1, CallFrame, ChannelFrame, WorkerFrame, ShutdownFrame DEF EnricherExit, Types

(* What a worker is at after a step.                                       *)
Working == [at : {"idle", "sending", "exited"}, job : Job \cup {NoJob}, attempt : Nat]

LEMMA WorkerType ==
  ASSUME WorkerTypes, NEW p \in Entry
  PROVE  /\ worker \in [Entry -> Working] /\ worker[p] \in Working
         /\ worker[p].at = "sending" => worker[p].job \in Job /\ worker[p].job.id \in Id
         /\ IdleWorker \in Working /\ IdleWorker.at = "idle" /\ IdleWorker.attempt = 0
<1>1. worker[p].at = "sending" => worker[p].job \in Job /\ worker[p].job.id \in Id
  BY DEF WorkerTypes, Job
<1> QED
  BY <1>1 DEF WorkerTypes, IdleWorker, Working

(* A worker that turns to v is well typed if v is.                         *)
LEMMA WorkerTurns ==
  ASSUME WorkerTypes, NEW p \in Entry, NEW v \in Working,
         worker' = [worker EXCEPT ![p] = v],
         v.at = "sending" => v.job \in Job,
         v.attempt <= MaxAttempts[p]
  PROVE  /\ worker' \in [Entry -> Working]
         /\ \A x \in Entry : worker'[x].at = "sending" => worker'[x].job \in Job
         /\ \A x \in Entry : worker'[x].attempt <= MaxAttempts[x]
<1>1. worker \in [Entry -> Working]
  BY WorkerType
<1>2. \A x \in Entry : worker'[x] = IF x = p THEN v ELSE worker[x]
  BY <1>1
<1>3. worker' \in [Entry -> Working]
  BY <1>1
<1>4. ASSUME NEW x \in Entry
      PROVE  /\ worker'[x].at = "sending" => worker'[x].job \in Job
             /\ worker'[x].attempt <= MaxAttempts[x]
  BY <1>2 DEF WorkerTypes
<1> QED
  BY <1>3, <1>4

(* What an attempt does to the provider.                                   *)
LEMMA AttemptedTypes ==
  ASSUME WorkerTypes, NEW p \in Entry, worker[p].at = "sending", Attempted(p)
  PROVE  /\ got' \in [Entry -> Seq(Job)]
         /\ got' = got \/ got' = [got EXCEPT ![p] = Append(@, worker[p].job)]
<1>1. worker[p].job \in Job /\ got[p] \in Seq(Job)
  BY DEF WorkerTypes
<1>2. got' = got \/ got' = [got EXCEPT ![p] = Append(@, worker[p].job)]
  BY DEF Attempted, CarriedOut
<1>3. got \in [Entry -> Seq(Job)] /\ Append(got[p], worker[p].job) \in Seq(Job)
  BY <1>1, PutType DEF WorkerTypes
<1>4. got' \in [Entry -> Seq(Job)]
  BY <1>2, <1>3
<1> QED
  BY <1>2, <1>4

LEMMA ReceiveTypes ==
  ASSUME Types, NEW p \in Entry, Receive(p)
  PROVE  Types'
<1> DEFINE job == Head(ch[p])
<1>1. ChannelTypes /\ WorkerTypes /\ ch[p] # <<>> /\ ch' = [ch EXCEPT ![p] = Tail(@)]
  BY DEF Types, Receive
<1>2. /\ ch' \in [Entry -> Seq(Job)] /\ \A q \in Entry : Len(ch'[q]) <= ChannelCap
      /\ job \in Job /\ job.id \in Id
  BY <1>1, TakeTypes
<1>3. ChannelTypes'
  BY <1>1, <1>2 DEF Receive, ChannelTypes
<1>4. WorkerTypes'
  <2>1. CASE shouldDeliver(p, job)
    <3> DEFINE v == [at |-> "sending", job |-> job, attempt |-> 1]
    <3>1. worker' = [worker EXCEPT ![p] = v]
      BY <2>1 DEF Receive
    <3>2. v \in Working /\ v.job \in Job /\ v.attempt <= MaxAttempts[p]
      BY <1>2, AttemptsType DEF Working
    <3>3. UNCHANGED <<got, delivered, dead, filtered, rescued>>
      BY <2>1 DEF Receive
    <3> HIDE DEF job, v
    <3>4. /\ worker' \in [Entry -> Working]
          /\ \A x \in Entry : worker'[x].at = "sending" => worker'[x].job \in Job
          /\ \A x \in Entry : worker'[x].attempt <= MaxAttempts[x]
      BY <1>1, <3>1, <3>2, WorkerTurns
    <3> QED
      BY <1>1, <3>3, <3>4 DEF WorkerTypes, Working
  <2>2. CASE ~ shouldDeliver(p, job)
    <3>1. worker' = worker /\ filtered' = [filtered EXCEPT ![p] = @ \cup {job.id}]
      BY <2>2 DEF Receive
    <3> QED
      BY <1>1, <1>2, <3>1 DEF Receive, WorkerTypes
  <2> QED
    BY <2>1, <2>2
<1> QED
  BY <1>3, <1>4, CallFrame, EnrichFrame, ShutdownFrame DEF Receive, Types

(* A worker that is done with its job.                                     *)
LEMMA IdleTypes ==
  ASSUME WorkerTypes, NEW p \in Entry, worker[p].at = "sending",
         worker' = [worker EXCEPT ![p] = IdleWorker], Attempted(p),
         delivered' \in [Entry -> SUBSET Id], dead' \in [Entry -> SUBSET Id],
         rescued' \in [Entry -> SUBSET Id], filtered' = filtered
  PROVE  WorkerTypes'
<1>1. IdleWorker \in Working /\ IdleWorker.at = "idle" /\ IdleWorker.attempt <= MaxAttempts[p]
  BY WorkerType, AttemptsType
<1>2. /\ worker' \in [Entry -> Working]
      /\ \A x \in Entry : worker'[x].at = "sending" => worker'[x].job \in Job
      /\ \A x \in Entry : worker'[x].attempt <= MaxAttempts[x]
  BY <1>1, WorkerTurns
<1>3. got' \in [Entry -> Seq(Job)]
  BY AttemptedTypes
<1> QED
  BY <1>2, <1>3 DEF WorkerTypes, Working

LEMMA SendSucceedsTypes ==
  ASSUME Types, NEW p \in Entry, SendSucceeds(p)
  PROVE  Types'
<1>1. WorkerTypes /\ worker[p].job.id \in Id
  BY WorkerType DEF Types, SendSucceeds
<1>2. delivered' \in [Entry -> SUBSET Id] /\ dead' = dead /\ rescued' = rescued
  BY <1>1 DEF SendSucceeds, WorkerTypes
<1>3. WorkerTypes'
  BY <1>1, <1>2, IdleTypes DEF SendSucceeds, Attempted, WorkerTypes
<1> QED
  BY <1>3, CallFrame, EnrichFrame, ChannelFrame, ShutdownFrame DEF SendSucceeds, Types

LEMMA SendFailsTypes ==
  ASSUME Types, NEW p \in Entry, SendFails(p)
  PROVE  Types'
<1> DEFINE v == [worker[p] EXCEPT !.attempt = @ + 1]
<1>1. /\ WorkerTypes /\ worker[p] \in Working /\ worker[p].job \in Job
      /\ worker[p].attempt < MaxAttempts[p] /\ MaxAttempts[p] \in Nat
  BY WorkerType, AttemptsType DEF Types, SendFails
<1>2. worker' = [worker EXCEPT ![p] = v]
  BY DEF SendFails
<1>3. v \in Working /\ v.job = worker[p].job /\ v.attempt <= MaxAttempts[p]
  <2>1. worker[p].attempt \in Nat
    BY <1>1 DEF Working
  <2>2. worker[p].attempt + 1 \in Nat /\ worker[p].attempt + 1 <= MaxAttempts[p]
    BY <1>1, <2>1
  <2> QED
    BY <1>1, <2>2 DEF Working
<1>4. UNCHANGED <<delivered, dead, filtered, rescued>> /\ got' \in [Entry -> Seq(Job)]
  BY <1>1, AttemptedTypes DEF SendFails
<1> HIDE DEF v
<1>5. /\ worker' \in [Entry -> Working]
      /\ \A x \in Entry : worker'[x].at = "sending" => worker'[x].job \in Job
      /\ \A x \in Entry : worker'[x].attempt <= MaxAttempts[x]
  BY <1>1, <1>2, <1>3, WorkerTurns
<1>6. WorkerTypes'
  BY <1>1, <1>4, <1>5 DEF WorkerTypes, Working
<1> QED
  BY <1>6, CallFrame, EnrichFrame, ChannelFrame, ShutdownFrame DEF SendFails, Types

LEMMA GiveUpTypes ==
  ASSUME Types, NEW p \in Entry, GiveUp(p)
  PROVE  Types'
<1>1. WorkerTypes /\ worker[p].job.id \in Id
  BY WorkerType DEF Types, GiveUp
<1>2. rescued' \in [Entry -> SUBSET Id]
  <2>1. Fallback[p] # 0 => Fallback[p] \in Entry
    BY FallbackType, Sizes DEF Entry
  <2>2. rescued \in [Entry -> SUBSET Id]
    BY <1>1 DEF WorkerTypes
  <2>3. \/ /\ Fallback[p] # 0
           /\ rescued' = [rescued EXCEPT ![Fallback[p]] = @ \cup {worker[p].job.id}]
        \/ rescued' = rescued
    BY DEF GiveUp
  <2> QED
    BY <1>1, <2>1, <2>2, <2>3
<1>3. dead' \in [Entry -> SUBSET Id] /\ delivered' \in [Entry -> SUBSET Id]
  BY <1>1 DEF GiveUp, WorkerTypes
<1>4. WorkerTypes'
  BY <1>1, <1>2, <1>3, IdleTypes DEF GiveUp
<1> QED
  BY <1>4, CallFrame, EnrichFrame, ChannelFrame, ShutdownFrame DEF GiveUp, Types

LEMMA WorkerExitTypes ==
  ASSUME Types, NEW p \in Entry, WorkerExit(p)
  PROVE  Types'
<1>1. WorkerTypes'
  BY DEF WorkerExit, Types, WorkerTypes
<1> QED
  BY <1>1, CallFrame, EnrichFrame, ChannelFrame, ShutdownFrame DEF WorkerExit, Types

LEMMA ShutdownActionTypes ==
  ASSUME Types, shutdown
  PROVE  Types'
<1>1. CASE SetStopped
  BY <1>1, CallFrame, EnrichFrame, ChannelFrame, WorkerFrame
     DEF SetStopped, Types, ShutdownTypes
<1>2. CASE CloseEnrich
  <2>1. EnrichTypes'
    BY <1>2, Sizes DEF CloseEnrich, Types, EnrichTypes
  <2> QED
    BY <1>2, <2>1, CallFrame, ChannelFrame, WorkerFrame DEF CloseEnrich, Types, ShutdownTypes
<1>3. CASE CloseProviders
  <2>1. ChannelTypes'
    BY <1>3 DEF CloseProviders, Types, ChannelTypes
  <2> QED
    BY <1>3, <2>1, CallFrame, EnrichFrame, WorkerFrame DEF CloseProviders, Types, ShutdownTypes
<1>4. CASE ShutdownDone
  BY <1>4, CallFrame, EnrichFrame, ChannelFrame, WorkerFrame
     DEF ShutdownDone, Types, ShutdownTypes
<1> QED
  BY <1>1, <1>2, <1>3, <1>4 DEF shutdown

LEMMA StutterTypes == Types /\ UNCHANGED vars => Types'
BY CallFrame, EnrichFrame, ChannelFrame, WorkerFrame, ShutdownFrame DEF vars, Types

LEMMA NextTypes == Types /\ [Next]_vars => Types'
<1> SUFFICES ASSUME Types, [Next]_vars PROVE Types'
  OBVIOUS
<1>1. ASSUME NEW c \in Caller, NEW n \in Notice, NotifyIncident(c, n) PROVE Types'
  BY <1>1, NotifyTypes
<1>2. ASSUME NEW c \in Caller, Place(c) PROVE Types'
  BY <1>2, EnqueueTypes, CallFanOutTypes, RefuseTypes DEF Place
<1>3. CASE fanOut
  BY <1>3, OfferTypes, EvictTypes, RefillTypes DEF fanOut
<1>4. CASE Enrichment
  BY <1>4, EnricherReceiveTypes, enrichOneTypes, EnricherFanOutTypes, EnricherExitTypes
     DEF Enrichment
<1>5. CASE BreakerCooldown
  BY <1>5, BreakerCooldownTypes
<1>6. ASSUME NEW p \in Entry, Work(p) PROVE Types'
  BY <1>6, ReceiveTypes, SendSucceedsTypes, SendFailsTypes, GiveUpTypes, WorkerExitTypes
     DEF Work
<1>7. CASE shutdown
  BY <1>7, ShutdownActionTypes
<1>8. CASE Terminated \/ UNCHANGED vars
  BY <1>8, StutterTypes DEF Terminated
<1> QED
  BY <1>1, <1>2, <1>3, <1>4, <1>5, <1>6, <1>7, <1>8 DEF Next

LEMMA AlwaysTypes == Spec => []Types
BY InitTypes, NextTypes, PTL DEF Spec

(* Every variable of Delivery keeps its type, for any number of callers,   *)
(* providers and notifications and any channel capacity.                   *)
THEOREM TypeCorrect == Spec => []TypeOK
BY AlwaysTypes, TypesOK, PTL

-----------------------------------------------------------------------------
(***************************************************************************)
(* Safety at the channels.  A channel is closed while no fan-out runs and  *)
(* none can start: a caller finds "stopped" set, the enrichment worker has *)
(* exited.  ClosedIsQuiet is that argument, step for step of shutdown.     *)
(***************************************************************************)
ShutdownOrder ==
  /\ stopped <=> shutdownAt # "running"
  /\ enrichClosed => shutdownAt \notin {"running", "closeEnrich"}
  /\ closed <=> shutdownAt \in {"waitWorkers", "done"}

NoEnrichment ==
  /\ ~ LLM => enricher = IdleEnricher /\ enrichCh = <<>>
  /\ \A c \in Caller : At(c, "enqueue") => LLM
  /\ enricher.at = "exited" => enrichClosed

ClosedIsQuiet ==
  closed => fan = NoFan /\ (LLM => enricher.at = "exited")

(* Between an eviction and the second offer the channel has room: only the *)
(* worker touches it there, and the worker takes.                          *)
SafeInv == ShutdownOrder /\ NoEnrichment /\ ClosedIsQuiet /\ NewestKept

LEMMA SafeInvEnough == SafeInv => NoSendOnClosed
BY DEF SafeInv, ShutdownOrder, ClosedIsQuiet, NoSendOnClosed

LEMMA InitSafe == Init => SafeInv
BY DEF Init, SafeInv, ShutdownOrder, NoEnrichment, ClosedIsQuiet, NewestKept, At, AtStep,
       IdleEnricher

(* The parts of SafeInv, each with what it reads.                          *)
LEMMA OrderFrame ==
  ShutdownOrder /\ UNCHANGED <<stopped, shutdownAt, enrichClosed, closed>> => ShutdownOrder'
BY DEF ShutdownOrder

LEMMA EnrichmentFrame ==
  NoEnrichment /\ UNCHANGED <<calling, enrichCh, enrichClosed, enricher>> => NoEnrichment'
BY DEF NoEnrichment, At

LEMMA QuietFrame ==
  ClosedIsQuiet /\ UNCHANGED <<fan, closed, enricher>> => ClosedIsQuiet'
BY DEF ClosedIsQuiet

LEMMA NewestFrame == NewestKept /\ UNCHANGED <<fan, ch>> => NewestKept'
BY DEF NewestKept, AtStep, Room

LEMMA NotifySafe ==
  ASSUME Types, SafeInv, NEW c \in Caller, NEW n \in Notice, NotifyIncident(c, n)
  PROVE  SafeInv'
<1> USE DEF enrichVars, channelVars, shutdownVars
<1>1. ShutdownOrder' /\ ClosedIsQuiet' /\ NewestKept'
  BY OrderFrame, QuietFrame, NewestFrame DEF NotifyIncident, SafeInv
<1>2. NoEnrichment'
  <2>1. ASSUME NEW d \in Caller, At(d, "enqueue")' PROVE LLM
    BY <2>1 DEF NotifyIncident, SafeInv, NoEnrichment, At, Types, CallTypes
  <2> QED
    BY <2>1 DEF NotifyIncident, SafeInv, NoEnrichment
<1> QED
  BY <1>1, <1>2 DEF SafeInv

LEMMA PlaceSafe ==
  ASSUME Types, SafeInv, NEW c \in Caller, Place(c)
  PROVE  SafeInv'
<1> USE DEF enrichVars, channelVars, shutdownVars
<1>1. CASE Enqueue(c)
  <2>1. ShutdownOrder' /\ ClosedIsQuiet' /\ NewestKept'
    BY <1>1, OrderFrame, QuietFrame, NewestFrame DEF Enqueue, SafeInv
  <2>2. LLM /\ enricher' = enricher /\ enrichClosed' = enrichClosed
    BY <1>1 DEF Enqueue, SafeInv, NoEnrichment
  <2> QED
    BY <2>1, <2>2 DEF SafeInv, NoEnrichment
<1>2. CASE CallFanOut(c)
  <2>1. ~ stopped /\ ~ closed
    BY <1>2 DEF CallFanOut, SafeInv, ShutdownOrder
  <2>2. ShutdownOrder' /\ ClosedIsQuiet'
    BY <1>2, <2>1, OrderFrame DEF CallFanOut, SafeInv, ClosedIsQuiet
  <2>3. NewestKept'
    BY <1>2 DEF CallFanOut, StartFan, NewestKept, AtStep
  <2>4. NoEnrichment'
    BY <1>2 DEF CallFanOut, SafeInv, NoEnrichment, At, Types, CallTypes
  <2> QED
    BY <2>2, <2>3, <2>4 DEF SafeInv
<1>3. CASE Refuse(c)
  <2>1. ShutdownOrder' /\ ClosedIsQuiet' /\ NewestKept'
    BY <1>3, OrderFrame, QuietFrame, NewestFrame DEF Refuse, SafeInv
  <2>2. NoEnrichment'
    BY <1>3 DEF Refuse, SafeInv, NoEnrichment, At, Types, CallTypes
  <2> QED
    BY <2>1, <2>2 DEF SafeInv
<1> QED
  BY <1>1, <1>2, <1>3 DEF Place

(* A fan-out only runs while the channels are open, and is at "refill"     *)
(* only after Evict.                                                       *)
LEMMA fanOutSafe ==
  ASSUME Types, SafeInv, fanOut
  PROVE  SafeInv'
<1> USE DEF callVars, enrichVars, shutdownVars
<1>1. fan # NoFan /\ ~ closed /\ closed' = closed
  BY DEF fanOut, Offer, Evict, Refill, AtStep, SafeInv, ClosedIsQuiet
<1>2. ShutdownOrder' /\ NoEnrichment' /\ ClosedIsQuiet'
  <2>1. UNCHANGED <<stopped, shutdownAt, calling, enrichCh, enrichClosed, enricher>>
    BY DEF fanOut, Offer, Evict, Refill
  <2> QED
    BY <1>1, <2>1, OrderFrame, EnrichmentFrame DEF SafeInv, ClosedIsQuiet
<1>3. NewestKept'
  <2>1. fan \in Fan /\ (NextEntry # NoFan => NextEntry.step = "offer")
    BY <1>1, FanType, NextEntryType DEF Types
  <2>2. CASE Offer
    <3>1. fan' = NextEntry \/ fan' = [fan EXCEPT !.step = "evict"]
      BY <2>2 DEF Offer
    <3>2. fan' # NoFan => fan'.step # "refill"
      BY <2>1, <3>1 DEF Fan
    <3> QED
      BY <3>2 DEF NewestKept, AtStep
  <2>3. CASE Evict
    BY <2>3, EvictTypes DEF NewestKept
  <2>4. CASE Refill
    BY <2>1, <2>4 DEF Refill, NewestKept, AtStep
  <2> QED
    BY <2>2, <2>3, <2>4 DEF fanOut
<1> QED
  BY <1>2, <1>3 DEF SafeInv

LEMMA EnrichmentSafe ==
  ASSUME Types, SafeInv, Enrichment \/ BreakerCooldown
  PROVE  SafeInv'
<1> USE DEF callVars, channelVars, shutdownVars
<1>1. ShutdownOrder'
  BY OrderFrame DEF Enrichment, EnricherReceive, enrichOne, EnricherFanOut, EnricherExit,
                    BreakerCooldown, SafeInv
<1>2. CASE EnricherReceive
  <2>1. ClosedIsQuiet' /\ NoEnrichment'
    BY <1>2 DEF EnricherReceive, enricherFree, SafeInv, ClosedIsQuiet, NoEnrichment, At
  <2> QED
    BY <1>1, <1>2, <2>1, NewestFrame DEF EnricherReceive, SafeInv
<1>3. CASE enrichOne
  <2>1. LLM /\ ~ closed
    BY <1>3 DEF enrichOne, SafeInv, ClosedIsQuiet, NoEnrichment, IdleEnricher
  <2>2. enricher' = [enricher EXCEPT !.at = "fanOut"] /\ enricher'.at = "fanOut"
    BY <1>3 DEF enrichOne, Types, EnrichTypes
  <2>3. ClosedIsQuiet' /\ NoEnrichment'
    BY <1>3, <2>1, <2>2 DEF enrichOne, SafeInv, ClosedIsQuiet, NoEnrichment, At
  <2> QED
    BY <1>1, <1>3, <2>3, NewestFrame DEF enrichOne, SafeInv
<1>4. CASE EnricherFanOut
  <2>1. LLM /\ ~ closed
    BY <1>4 DEF EnricherFanOut, SafeInv, ClosedIsQuiet, NoEnrichment, IdleEnricher
  <2>2. ClosedIsQuiet' /\ NoEnrichment'
    BY <1>4, <2>1 DEF EnricherFanOut, IdleEnricher, SafeInv, ClosedIsQuiet, NoEnrichment, At
  <2>3. NewestKept'
    BY <1>4 DEF EnricherFanOut, StartFan, NewestKept, AtStep
  <2> QED
    BY <1>1, <2>2, <2>3 DEF SafeInv
<1>5. CASE EnricherExit
  <2>1. enricher' = [enricher EXCEPT !.at = "exited"] /\ enricher'.at = "exited"
    BY <1>5 DEF EnricherExit, Types, EnrichTypes
  <2>2. ClosedIsQuiet' /\ NoEnrichment'
    BY <1>5, <2>1 DEF EnricherExit, SafeInv, ClosedIsQuiet, NoEnrichment, At
  <2> QED
    BY <1>1, <1>5, <2>2, NewestFrame DEF EnricherExit, SafeInv
<1>6. CASE BreakerCooldown
  BY <1>1, <1>6, EnrichmentFrame, QuietFrame, NewestFrame DEF BreakerCooldown, SafeInv
<1> QED
  BY <1>2, <1>3, <1>4, <1>5, <1>6 DEF Enrichment

(* A worker takes from its channel: room stays room.                       *)
LEMMA WorkSafe ==
  ASSUME Types, SafeInv, NEW p \in Entry, Work(p)
  PROVE  SafeInv'
<1> USE DEF callVars, enrichVars, channelVars, shutdownVars
<1>1. UNCHANGED <<stopped, shutdownAt, enrichClosed, closed, calling, enrichCh, enricher, fan>>
  BY DEF Work, Receive, SendSucceeds, SendFails, GiveUp, WorkerExit
<1>2. ShutdownOrder' /\ NoEnrichment' /\ ClosedIsQuiet'
  BY <1>1, OrderFrame, EnrichmentFrame, QuietFrame DEF SafeInv
<1>3. NewestKept'
  <2>1. CASE Receive(p)
    <3>1. ch[p] # <<>> /\ ch' = [ch EXCEPT ![p] = Tail(@)]
      BY <2>1 DEF Receive
    <3>2. \A q \in Entry : Len(ch'[q]) <= Len(ch[q])
      BY <3>1, TakeTypes DEF Types
    <3>3. ch' \in [Entry -> Seq(Job)] /\ ch \in [Entry -> Seq(Job)]
      BY <3>1, TakeTypes DEF Types, ChannelTypes
    <3>4. ASSUME AtStep("refill")' PROVE Room(fan.entry)'
      <4>1. AtStep("refill") /\ fan' = fan
        BY <1>1, <3>4 DEF AtStep
      <4>2. fan.entry \in Entry /\ Room(fan.entry)
        BY <4>1, FanType DEF AtStep, Types, SafeInv, NewestKept
      <4>3. Len(ch[fan.entry]) \in Nat /\ Len(ch'[fan.entry]) \in Nat
        BY <3>3, <4>2, LenProperties
      <4> QED
        BY <3>2, <4>1, <4>2, <4>3, Sizes DEF Room
    <3> QED
      BY <3>4 DEF NewestKept
  <2>2. CASE ~ Receive(p)
    BY <1>1, <2>2, NewestFrame
       DEF Work, SendSucceeds, SendFails, GiveUp, WorkerExit, SafeInv
  <2> QED
    BY <2>1, <2>2
<1> QED
  BY <1>2, <1>3 DEF SafeInv

LEMMA ShutdownSafe ==
  ASSUME Types, SafeInv, shutdown
  PROVE  SafeInv'
<1> USE DEF callVars, enrichVars, channelVars
<1>1. NewestKept'
  BY NewestFrame DEF shutdown, SetStopped, CloseEnrich, CloseProviders, ShutdownDone, SafeInv
<1>2. ShutdownOrder'
  BY DEF shutdown, SetStopped, CloseEnrich, CloseProviders, ShutdownDone, SafeInv, ShutdownOrder
<1>3. NoEnrichment'
  <2>1. CASE CloseEnrich
    BY <2>1 DEF CloseEnrich, SafeInv, NoEnrichment, At, IdleEnricher
  <2>2. CASE ~ CloseEnrich
    BY <2>2, EnrichmentFrame DEF shutdown, SetStopped, CloseProviders, ShutdownDone, SafeInv
  <2> QED
    BY <2>1, <2>2
<1>4. ClosedIsQuiet'
  <2>1. CASE CloseProviders
    BY <2>1 DEF CloseProviders, EnrichDone, Unlocked, ClosedIsQuiet
  <2>2. CASE ~ CloseProviders
    BY <2>2, QuietFrame DEF shutdown, SetStopped, CloseEnrich, ShutdownDone, SafeInv
  <2> QED
    BY <2>1, <2>2
<1> QED
  BY <1>1, <1>2, <1>3, <1>4 DEF SafeInv

LEMMA StutterSafe == SafeInv /\ UNCHANGED vars => SafeInv'
BY OrderFrame, EnrichmentFrame, QuietFrame, NewestFrame
   DEF SafeInv, vars, callVars, enrichVars, channelVars, workerVars, shutdownVars

LEMMA NextSafe == Types /\ SafeInv /\ [Next]_vars => SafeInv'
<1> SUFFICES ASSUME Types, SafeInv, [Next]_vars PROVE SafeInv'
  OBVIOUS
<1>1. ASSUME NEW c \in Caller, NEW n \in Notice, NotifyIncident(c, n) PROVE SafeInv'
  BY <1>1, NotifySafe
<1>2. ASSUME NEW c \in Caller, Place(c) PROVE SafeInv'
  BY <1>2, PlaceSafe
<1>3. CASE fanOut
  BY <1>3, fanOutSafe
<1>4. CASE Enrichment \/ BreakerCooldown
  BY <1>4, EnrichmentSafe
<1>5. ASSUME NEW p \in Entry, Work(p) PROVE SafeInv'
  BY <1>5, WorkSafe
<1>6. CASE shutdown
  BY <1>6, ShutdownSafe
<1>7. CASE Terminated \/ UNCHANGED vars
  BY <1>7, StutterSafe DEF Terminated
<1> QED
  BY <1>1, <1>2, <1>3, <1>4, <1>5, <1>6, <1>7 DEF Next

LEMMA AlwaysSafe == Spec => []SafeInv
BY AlwaysTypes, InitSafe, NextSafe, PTL DEF Spec

(* However the callers, the enrichment and shutdown interleave, nothing is *)
(* ever sent to a channel that shutdown has closed.                        *)
THEOREM NeverSendsOnClosed == Spec => []NoSendOnClosed
BY AlwaysSafe, SafeInvEnough, PTL

(* A fan-out that had to evict finds room for the job it carries, whatever *)
(* the provider's worker received meanwhile.                               *)
THEOREM AlwaysKeepsNewest == Spec => []NewestKept
<1>1. SafeInv => NewestKept
  BY DEF SafeInv
<1> QED
  BY <1>1, AlwaysSafe, PTL

-----------------------------------------------------------------------------
(***************************************************************************)
(* Conservation.  Places is a sum, and a step of the code moves a job: it  *)
(* takes one from a term and gives one to another.  What is invariant is   *)
(* the sum for every id, 1 once the id is submitted and 0 before: an id    *)
(* that is already in a place could not be put into that place once more.  *)
(***************************************************************************)
IdleHasNoJob ==
  /\ enricher.at \in {"idle", "exited"} => enricher.job = NoJob
  /\ \A p \in Entry : worker[p].at # "sending" => worker[p].job = NoJob

Balance == \A p \in Entry, id \in Id : Places(p, id) = One(id <= issued)

ConservationInv == IdleHasNoJob /\ Balance

LEMMA BalanceEnough == Types /\ Balance => Conservation
BY DEF Types, CallTypes, Balance, Conservation, Submitted, One

LEMMA OneType == \A b \in BOOLEAN : One(b) \in {0, 1} /\ (b => One(b) = 1) /\ (~ b => One(b) = 0)
BY DEF One

(* Two finite sets that differ in one element at most.                     *)
LEMMA DifferInOne ==
  ASSUME NEW S, NEW T, NEW x, IsFiniteSet(S), S \ {x} = T \ {x}
  PROVE  /\ IsFiniteSet(T) /\ Cardinality(S) \in Nat /\ Cardinality(T) \in Nat
         /\ Cardinality(T) + One(x \in S) = Cardinality(S) + One(x \in T)
<1>1. IsFiniteSet(S \ {x}) /\ Cardinality(S) \in Nat
  BY FS_RemoveElement, FS_CardinalityType
<1>2. IsFiniteSet(T)
  <2>1. IsFiniteSet((T \ {x}) \cup {x})
    BY <1>1, FS_AddElement
  <2>2. T \in SUBSET ((T \ {x}) \cup {x})
    OBVIOUS
  <2> QED
    BY <2>1, <2>2, FS_Subset
<1>3. Cardinality(S \ {x}) = IF x \in S THEN Cardinality(S) - 1 ELSE Cardinality(S)
  BY FS_RemoveElement
<1>4. Cardinality(T \ {x}) = IF x \in T THEN Cardinality(T) - 1 ELSE Cardinality(T)
  BY <1>2, FS_RemoveElement
<1>5. Cardinality(T) \in Nat
  BY <1>2, FS_CardinalityType
<1>6. /\ One(x \in S) = IF x \in S THEN 1 ELSE 0
      /\ One(x \in T) = IF x \in T THEN 1 ELSE 0
  BY DEF One
<1>7. Cardinality(S \ {x}) = Cardinality(T \ {x})
  OBVIOUS
<1> QED
  BY <1>1, <1>2, <1>3, <1>4, <1>5, <1>6, <1>7

(* What Append and Tail do to the occurrences of an id in a channel.       *)
LEMMA OccurrencesType ==
  ASSUME NEW s \in Seq(Job), NEW id
  PROVE  /\ IsFiniteSet({i \in DOMAIN s : s[i].id = id})
         /\ Occurrences(s, id) \in Nat
<1>1. Len(s) \in Nat /\ DOMAIN s = 1 .. Len(s)
  BY LenProperties
<1>2. IsFiniteSet(1 .. Len(s))
  BY <1>1, FS_Interval
<1>3. {i \in DOMAIN s : s[i].id = id} \in SUBSET (1 .. Len(s))
  BY <1>1
<1>4. IsFiniteSet({i \in DOMAIN s : s[i].id = id})
  BY <1>2, <1>3, FS_Subset
<1> QED
  BY <1>4, FS_CardinalityType DEF Occurrences

LEMMA AppendOccurs ==
  ASSUME NEW s \in Seq(Job), NEW x \in Job, NEW id
  PROVE  Occurrences(Append(s, x), id) = Occurrences(s, id) + One(x.id = id)
<1> DEFINE t == Append(s, x)
           n == Len(s) + 1
           S == {i \in DOMAIN s : s[i].id = id}
           T == {i \in DOMAIN t : t[i].id = id}
<1>1. /\ t \in Seq(Job) /\ Len(t) = n /\ t[n] = x /\ Len(s) \in Nat
      /\ \A i \in 1 .. Len(s) : t[i] = s[i]
  BY AppendProperties, LenProperties
<1>2. DOMAIN s = 1 .. Len(s) /\ DOMAIN t = 1 .. n
  BY <1>1, LenProperties
<1>3. n \notin S /\ (n \in T <=> x.id = id)
  BY <1>1, <1>2
<1>4. S \ {n} = T \ {n}
  BY <1>1, <1>2
<1>5. IsFiniteSet(S) /\ Cardinality(S) \in Nat
  BY OccurrencesType DEF Occurrences
<1>6. Cardinality(T) + One(n \in S) = Cardinality(S) + One(n \in T) /\ Cardinality(T) \in Nat
  <2> HIDE DEF S, T, n
  <2> QED
    BY <1>4, <1>5, DifferInOne
<1>7. One(n \in S) = 0 /\ One(n \in T) = One(x.id = id)
  BY <1>3 DEF One
<1>8. Occurrences(t, id) = Cardinality(T) /\ Occurrences(s, id) = Cardinality(S)
  BY DEF Occurrences
<1>9. One(x.id = id) \in {0, 1}
  BY DEF One
<1> HIDE DEF S, T, n
<1> QED
  BY <1>5, <1>6, <1>7, <1>8, <1>9

LEMMA TailOccurs ==
  ASSUME NEW s \in Seq(Job), s # <<>>, NEW id
  PROVE  Occurrences(Tail(s), id) + One(Head(s).id = id) = Occurrences(s, id)
<1> DEFINE t == Tail(s)
           S == {i \in DOMAIN s : s[i].id = id}
           U == {i \in DOMAIN s \ {1} : s[i].id = id}
           T == {i \in DOMAIN t : t[i].id = id}
           f == [i \in U |-> i - 1]
<1>1. /\ t \in Seq(Job) /\ Len(t) = Len(s) - 1 /\ Len(s) \in Nat \ {0} /\ Head(s) = s[1]
      /\ \A i \in 1 .. Len(t) : t[i] = s[i + 1]
  BY HeadTailProperties, EmptySeq
<1>2. DOMAIN s = 1 .. Len(s) /\ DOMAIN t = 1 .. Len(s) - 1
  BY <1>1, LenProperties
<1>3. IsFiniteSet(S) /\ Cardinality(S) \in Nat
  BY OccurrencesType DEF Occurrences
<1>4. IsFiniteSet(U) /\ Cardinality(U) \in Nat /\ Cardinality(U) + One(1 \in S) = Cardinality(S)
  <2>1. S \ {1} = U \ {1} /\ 1 \notin U
    OBVIOUS
  <2>2. One(1 \in U) = 0
    BY <2>1 DEF One
  <2> HIDE DEF S, U
  <2>3. /\ IsFiniteSet(U) /\ Cardinality(U) \in Nat
        /\ Cardinality(U) + One(1 \in S) = Cardinality(S) + One(1 \in U)
    BY <2>1, <1>3, DifferInOne
  <2> QED
    BY <2>2, <2>3, <1>3
<1>5. Cardinality(T) = Cardinality(U)
  <2>1. f \in [U -> T]
    <3>1. ASSUME NEW i \in U PROVE i - 1 \in T
      <4>1. i \in 1 .. Len(s) /\ i # 1 /\ s[i].id = id
        BY <1>2
      <4>2. i - 1 \in 1 .. Len(s) - 1 /\ (i - 1) + 1 = i
        BY <1>1, <4>1
      <4>3. t[i - 1] = s[i]
        BY <1>1, <4>2
      <4> QED
        BY <1>2, <4>1, <4>2, <4>3
    <3> QED
      BY <3>1
  <2>2. \A a, b \in U : f[a] = f[b] => a = b
    <3> SUFFICES ASSUME NEW a \in U, NEW b \in U, f[a] = f[b] PROVE a = b
      OBVIOUS
    <3>1. a \in Int /\ b \in Int
      BY <1>1, <1>2
    <3>2. f[a] = a - 1 /\ f[b] = b - 1
      OBVIOUS
    <3>3. a - 1 = b - 1
      BY <3>2
    <3> QED
      BY <3>1, <3>3
  <2>3. \A j \in T : \E i \in U : f[i] = j
    <3> SUFFICES ASSUME NEW j \in T PROVE \E i \in U : f[i] = j
      OBVIOUS
    <3>1. j \in 1 .. Len(s) - 1 /\ t[j].id = id
      BY <1>2
    <3>2. j + 1 \in 1 .. Len(s) /\ j + 1 # 1 /\ (j + 1) - 1 = j
      BY <1>1, <3>1
    <3>3. s[j + 1].id = id
      BY <1>1, <3>1
    <3>4. j + 1 \in U
      BY <1>2, <3>2, <3>3
    <3>5. f[j + 1] = j
      BY <3>2, <3>4
    <3> QED
      BY <3>4, <3>5
  <2> HIDE DEF f, U, T
  <2>4. f \in Bijection(U, T)
    BY <2>1, <2>2, <2>3, Fun_IsBij
  <2>5. ExistsBijection(U, T)
    BY <2>4 DEF ExistsBijection
  <2> QED
    BY <2>5, <1>4, FS_Bijection
<1>6. One(1 \in S) = One(Head(s).id = id)
  <2>1. 1 \in S <=> Head(s).id = id
    BY <1>1, <1>2
  <2> QED
    BY <2>1 DEF One
<1>7. Occurrences(t, id) = Cardinality(T) /\ Occurrences(s, id) = Cardinality(S)
  BY DEF Occurrences
<1> HIDE DEF S, T, U
<1> QED
  BY <1>4, <1>5, <1>6, <1>7

(* The sum, by the variables its terms read.                               *)
Calls(id) == Cardinality({c \in Caller : HasCall(c, id)})

CallSum(id) == Calls(id) + One(id \in refused)
EnrichSum(id) == Occurrences(enrichCh, id) + One(Has(enricher.job, id))
ChannelSum(p, id) == One(InFan(p, id)) + Occurrences(ch[p], id) + One(id \in dropped[p])
WorkerSum(p, id) ==
  One(Has(worker[p].job, id)) + One(id \in delivered[p]) + One(id \in dead[p])
  + One(id \in filtered[p])

LEMMA CallsType ==
  ASSUME NEW id
  PROVE  /\ Calls(id) \in Nat
         /\ IsFiniteSet({c \in Caller : HasCall(c, id)})
<1>1. IsFiniteSet(Caller)
  BY DeliveryAssumption
<1>2. {c \in Caller : HasCall(c, id)} \in SUBSET Caller
  OBVIOUS
<1>3. IsFiniteSet({c \in Caller : HasCall(c, id)})
  BY <1>1, <1>2, FS_Subset
<1> QED
  BY <1>3, FS_CardinalityType DEF Calls

(* The terms are numbers, and Places is the sum of the four.               *)
LEMMA SumsType ==
  ASSUME Types, NEW p \in Entry, NEW id \in Id
  PROVE  /\ CallSum(id) \in Nat /\ EnrichSum(id) \in Nat
         /\ ChannelSum(p, id) \in Nat /\ WorkerSum(p, id) \in Nat
         /\ Places(p, id) = CallSum(id) + EnrichSum(id) + ChannelSum(p, id) + WorkerSum(p, id)
<1>1. enrichCh \in Seq(Job) /\ ch[p] \in Seq(Job)
  BY DEF Types, EnrichTypes, ChannelTypes
<1>2. /\ Calls(id) \in Nat /\ Occurrences(enrichCh, id) \in Nat
      /\ Occurrences(ch[p], id) \in Nat
  BY <1>1, CallsType, OccurrencesType
<1>3. /\ One(id \in refused) \in Nat /\ One(Has(enricher.job, id)) \in Nat
      /\ One(InFan(p, id)) \in Nat /\ One(Has(worker[p].job, id)) \in Nat
      /\ One(id \in dead[p]) \in Nat /\ One(id \in filtered[p]) \in Nat
      /\ One(id \in dropped[p]) \in Nat /\ One(id \in delivered[p]) \in Nat
  BY DEF One
<1>4. Places(p, id) =
        Calls(id) + One(id \in refused)
        + Occurrences(enrichCh, id) + One(Has(enricher.job, id))
        + One(InFan(p, id)) + Occurrences(ch[p], id) + One(Has(worker[p].job, id))
        + One(id \in delivered[p]) + One(id \in dead[p])
        + One(id \in filtered[p]) + One(id \in dropped[p])
  BY DEF Places, Calls
<1> QED
  BY <1>2, <1>3, <1>4 DEF CallSum, EnrichSum, ChannelSum, WorkerSum

(* The same after a step.                                                  *)
LEMMA SumsNext ==
  ASSUME Types', NEW p \in Entry, NEW id \in Id
  PROVE  /\ CallSum(id)' \in Nat /\ EnrichSum(id)' \in Nat
         /\ ChannelSum(p, id)' \in Nat /\ WorkerSum(p, id)' \in Nat
         /\ Places(p, id)'
              = CallSum(id)' + EnrichSum(id)' + ChannelSum(p, id)' + WorkerSum(p, id)'
<1>1. enrichCh' \in Seq(Job) /\ ch'[p] \in Seq(Job)
  BY DEF Types, EnrichTypes, ChannelTypes
<1>2. Occurrences(enrichCh', id) \in Nat /\ Occurrences(ch'[p], id) \in Nat
  BY <1>1, OccurrencesType
<1>3. Calls(id)' \in Nat
  <2>1. PICK T : T = {c \in Caller : HasCall(c, id)'}
    OBVIOUS
  <2>2. IsFiniteSet(Caller) /\ T \in SUBSET Caller
    BY <2>1, DeliveryAssumption
  <2>3. Cardinality(T) \in Nat
    BY <2>2, FS_Subset, FS_CardinalityType
  <2> QED
    BY <2>1, <2>3 DEF Calls
<1>4. /\ One(id \in refused)' \in Nat /\ One(Has(enricher'.job, id)) \in Nat
      /\ One(InFan(p, id))' \in Nat /\ One(Has(worker'[p].job, id)) \in Nat
      /\ One(id \in dead'[p]) \in Nat /\ One(id \in filtered'[p]) \in Nat
      /\ One(id \in dropped'[p]) \in Nat /\ One(id \in delivered'[p]) \in Nat
  BY DEF One
<1>5. Places(p, id)' =
        Calls(id)' + One(id \in refused)'
        + Occurrences(enrichCh', id) + One(Has(enricher'.job, id))
        + One(InFan(p, id))' + Occurrences(ch'[p], id) + One(Has(worker'[p].job, id))
        + One(id \in delivered'[p]) + One(id \in dead'[p])
        + One(id \in filtered'[p]) + One(id \in dropped'[p])
  BY DEF Places, Calls
<1> QED
  BY <1>2, <1>3, <1>4, <1>5 DEF CallSum, EnrichSum, ChannelSum, WorkerSum

(* A sum whose variables a step leaves alone.                              *)
LEMMA CallSumFrame ==
  ASSUME UNCHANGED <<calling, refused>>, NEW id
  PROVE  CallSum(id)' = CallSum(id)
BY DEF CallSum, Calls, HasCall

LEMMA EnrichSumFrame ==
  ASSUME UNCHANGED <<enrichCh, enricher>>, NEW id
  PROVE  EnrichSum(id)' = EnrichSum(id)
BY DEF EnrichSum

LEMMA ChannelSumFrame ==
  ASSUME UNCHANGED <<fan, ch, dropped>>, NEW p, NEW id
  PROVE  ChannelSum(p, id)' = ChannelSum(p, id)
BY DEF ChannelSum, InFan

LEMMA WorkerSumFrame ==
  ASSUME UNCHANGED <<worker, delivered, dead, filtered>>, NEW p, NEW id
  PROVE  WorkerSum(p, id)' = WorkerSum(p, id)
BY DEF WorkerSum

(* A step that submits nothing keeps the balance if it keeps the sum.      *)
LEMMA StillBalanced ==
  ASSUME Types, Types', Balance, issued' = issued,
         \A p \in Entry, id \in Id :
           CallSum(id)' + EnrichSum(id)' + ChannelSum(p, id)' + WorkerSum(p, id)'
             = CallSum(id) + EnrichSum(id) + ChannelSum(p, id) + WorkerSum(p, id)
  PROVE  Balance'
<1> SUFFICES ASSUME NEW p \in Entry, NEW id \in Id PROVE Places(p, id)' = One(id <= issued)
  BY DEF Balance
<1>1. Places(p, id)' = Places(p, id)
  BY SumsType, SumsNext
<1> QED
  BY <1>1 DEF Balance

(* No id is in two places.                                                 *)
LEMMA AtMostOne ==
  ASSUME Types, Balance, NEW p \in Entry, NEW id \in Id
  PROVE  CallSum(id) + EnrichSum(id) + ChannelSum(p, id) + WorkerSum(p, id) <= 1
<1>1. Places(p, id) = One(id <= issued) /\ One(id <= issued) <= 1
  BY DEF Balance, One
<1> QED
  BY <1>1, SumsType

(* What a caller's step does to the number of calls that carry an id.      *)
LEMMA CallsChange ==
  ASSUME CallTypes, NEW c \in Caller, NEW v, NEW id, calling' = [calling EXCEPT ![c] = v]
  PROVE  /\ Calls(id)' \in Nat
         /\ Calls(id)' + One(HasCall(c, id)) = Calls(id) + One(v # NoJob /\ v.job.id = id)
<1> DEFINE S == {d \in Caller : HasCall(d, id)}
<1>1. PICK T : T = {d \in Caller : HasCall(d, id)'}
  OBVIOUS
<1>2. \A d \in Caller : calling'[d] = IF d = c THEN v ELSE calling[d]
  BY DEF CallTypes
<1>3. HasCall(c, id)' <=> v # NoJob /\ v.job.id = id
  BY <1>2 DEF HasCall
<1>4. S \ {c} = T \ {c}
  BY <1>1, <1>2 DEF HasCall
<1>5. /\ c \in S <=> HasCall(c, id)
      /\ c \in T <=> (v # NoJob /\ v.job.id = id)
  BY <1>1, <1>3
<1>6. One(c \in S) = One(HasCall(c, id)) /\ One(c \in T) = One(v # NoJob /\ v.job.id = id)
  BY <1>5 DEF One
<1>7. Calls(id)' = Cardinality(T) /\ Calls(id) = Cardinality(S)
  BY <1>1 DEF Calls
<1>8. IsFiniteSet(S)
  BY CallsType
<1> HIDE DEF S
<1>9. Cardinality(T) \in Nat /\ Cardinality(T) + One(c \in S) = Cardinality(S) + One(c \in T)
  BY <1>4, <1>8, DifferInOne
<1> QED
  BY <1>6, <1>7, <1>9

(* A caller's job leaves it, and is refused or goes elsewhere.             *)
LEMMA CallLeaves ==
  ASSUME Types, NEW c \in Caller, NEW id \in Id, calling[c] # NoJob,
         calling' = [calling EXCEPT ![c] = NoJob]
  PROVE  Calls(id)' \in Nat /\ Calls(id)' + One(calling[c].job.id = id) = Calls(id)
<1>1. CallTypes
  BY DEF Types
<1>2. /\ Calls(id)' \in Nat
      /\ Calls(id)' + One(HasCall(c, id)) = Calls(id) + One(NoJob # NoJob /\ NoJob.job.id = id)
  BY <1>1, CallsChange
<1>3. One(HasCall(c, id)) = One(calling[c].job.id = id)
  BY DEF One, HasCall
<1>4. One(NoJob # NoJob /\ NoJob.job.id = id) = 0
  BY DEF One
<1>5. Calls(id) \in Nat
  BY CallsType
<1>6. One(calling[c].job.id = id) \in Nat
  BY DEF One
<1> QED
  BY <1>2, <1>3, <1>4, <1>5, <1>6

-----------------------------------------------------------------------------
(* Each action keeps the balance.                                          *)

LEMMA InitBalance == Init => ConservationInv
<1> SUFFICES ASSUME Init PROVE ConservationInv
  OBVIOUS
<1>1. IdleHasNoJob
  BY DEF Init, IdleHasNoJob, IdleEnricher, IdleWorker
<1>2. ASSUME NEW p \in Entry, NEW id \in Id PROVE Places(p, id) = One(id <= issued)
  <2>1. {c \in Caller : HasCall(c, id)} = {}
    BY DEF Init, HasCall
  <2>2. Occurrences(<<>>, id) = 0
    <3>1. {j \in DOMAIN <<>> : <<>>[j].id = id} = {}
      OBVIOUS
    <3> QED
      BY <3>1, FS_EmptySet DEF Occurrences
  <2>3. enrichCh = <<>> /\ ch[p] = <<>>
    BY DEF Init
  <2>4. /\ One(id \in refused) = 0 /\ One(id \in dead[p]) = 0 /\ One(id \in delivered[p]) = 0
        /\ One(id \in filtered[p]) = 0 /\ One(id \in dropped[p]) = 0
    BY DEF Init, One
  <2>5. One(InFan(p, id)) = 0
    BY DEF Init, One, InFan
  <2>6. One(Has(enricher.job, id)) = 0 /\ One(Has(worker[p].job, id)) = 0
    BY DEF Init, One, Has, IdleEnricher, IdleWorker
  <2>7. Cardinality({c \in Caller : HasCall(c, id)}) = 0
    BY <2>1, FS_EmptySet
  <2>8. One(id <= issued) = 0
    BY Sizes DEF Init, One, Id
  <2> QED
    BY <2>2, <2>3, <2>4, <2>5, <2>6, <2>7, <2>8 DEF Places
<1> QED
  BY <1>1, <1>2 DEF ConservationInv, Balance

LEMMA NotifyBalance ==
  ASSUME Types, Types', ConservationInv, NEW c \in Caller, NEW n \in Notice, NotifyIncident(c, n)
  PROVE  ConservationInv'
<1> DEFINE job == [id |-> issued + 1, by |-> c, notice |-> n]
           call == [at |-> IF LLM /\ n.action = "Create" THEN "enqueue" ELSE "fanOut",
                    job |-> job]
<1>1. /\ calling[c] = NoJob /\ calling' = [calling EXCEPT ![c] = call]
      /\ issued' = issued + 1 /\ issued \in Nat
  BY DEF NotifyIncident, Free, Types, CallTypes
<1>2. call # NoJob /\ call.job.id = issued + 1
  <2>1. call \in Call
    <3>1. call = calling'[c]
      BY <1>1 DEF Types, CallTypes
    <3>2. calling'[c] \in Call \cup {NoJob}
      BY DEF Types, CallTypes
    <3>3. issued + 1 \in Id
      BY <1>1, Sizes DEF NotifyIncident, Id
    <3>4. job \in Job
      BY <3>3 DEF Job
    <3> HIDE DEF job
    <3> QED
      BY <3>4 DEF Call
  <2>2. call.job.id = issued + 1
    OBVIOUS
  <2> HIDE DEF call
  <2> QED
    BY <2>1, <2>2, Sentinel
<1> HIDE DEF call
<1>3. IdleHasNoJob'
  BY DEF NotifyIncident, enrichVars, workerVars, ConservationInv, IdleHasNoJob
<1>4. ASSUME NEW p \in Entry, NEW id \in Id PROVE Places(p, id)' = One(id <= issued)'
  <2>1. /\ Calls(id)' \in Nat
        /\ Calls(id)' + One(HasCall(c, id)) = Calls(id) + One(call # NoJob /\ call.job.id = id)
    BY <1>1, CallsChange DEF Types
  <2>2. One(HasCall(c, id)) = 0 /\ One(call # NoJob /\ call.job.id = id) = One(id = issued + 1)
    BY <1>1, <1>2 DEF One, HasCall
  <2>3. /\ EnrichSum(id)' = EnrichSum(id) /\ ChannelSum(p, id)' = ChannelSum(p, id)
        /\ WorkerSum(p, id)' = WorkerSum(p, id)
    BY EnrichSumFrame, ChannelSumFrame, WorkerSumFrame
       DEF NotifyIncident, enrichVars, channelVars, workerVars
  <2>4. One(id \in refused)' = One(id \in refused) /\ One(id \in refused) \in Nat
    BY DEF NotifyIncident, One
  <2>5. Calls(id) \in Nat /\ One(id = issued + 1) \in Nat
    BY CallsType DEF One
  <2>6. CallSum(id)' = CallSum(id) + One(id = issued + 1)
    BY <2>1, <2>2, <2>4, <2>5 DEF CallSum
  <2>7. Places(p, id) = One(id <= issued)
    BY DEF ConservationInv, Balance
  <2>8. One(id <= issued)' = One(id <= issued) + One(id = issued + 1)
    <3>1. id \in Int
      BY Sizes DEF Id
    <3>2. One(id <= issued)' = One(id <= issued + 1)
      BY <1>1 DEF One
    <3>3. One(id <= issued + 1) = One(id <= issued) + One(id = issued + 1)
      <4>1. id <= issued + 1 <=> id <= issued \/ id = issued + 1
        BY <3>1, <1>1
      <4>2. ~ (id <= issued /\ id = issued + 1)
        BY <3>1, <1>1
      <4> QED
        BY <4>1, <4>2 DEF One
    <3> QED
      BY <3>2, <3>3
  <2>9. /\ Places(p, id) = CallSum(id) + EnrichSum(id) + ChannelSum(p, id) + WorkerSum(p, id)
        /\ CallSum(id) \in Nat /\ EnrichSum(id) \in Nat /\ ChannelSum(p, id) \in Nat
        /\ WorkerSum(p, id) \in Nat
    BY SumsType
  <2>10. Places(p, id)'
           = CallSum(id)' + EnrichSum(id)' + ChannelSum(p, id)' + WorkerSum(p, id)'
    BY SumsNext
  <2>11. One(id <= issued) \in Nat
    BY DEF One
  <2> QED
    BY <2>3, <2>5, <2>6, <2>7, <2>8, <2>9, <2>10, <2>11
<1>5. Balance'
  BY <1>4 DEF Balance
<1> QED
  BY <1>3, <1>5 DEF ConservationInv

LEMMA EnqueueBalance ==
  ASSUME Types, Types', ConservationInv, NEW c \in Caller, Enqueue(c)
  PROVE  ConservationInv'
<1>1. /\ CallTypes /\ calling[c] # NoJob /\ calling[c] \in Call /\ calling[c].job \in Job
      /\ enrichCh \in Seq(Job)
  BY CallingJob DEF Enqueue, At, Types, EnrichTypes
<1>2. IdleHasNoJob'
  BY DEF Enqueue, workerVars, ConservationInv, IdleHasNoJob
<1>3. ASSUME NEW p \in Entry, NEW id \in Id
      PROVE  CallSum(id)' + EnrichSum(id)' + ChannelSum(p, id)' + WorkerSum(p, id)'
               = CallSum(id) + EnrichSum(id) + ChannelSum(p, id) + WorkerSum(p, id)
  <2> DEFINE k == One(calling[c].job.id = id)
  <2>1. ChannelSum(p, id)' = ChannelSum(p, id) /\ WorkerSum(p, id)' = WorkerSum(p, id)
    BY ChannelSumFrame, WorkerSumFrame DEF Enqueue, channelVars, workerVars
  <2>2. One(id \in refused)' = One(id \in refused) /\ One(id \in refused) \in Nat
    BY DEF Enqueue, One
  <2>3. /\ One(Has(enricher.job, id))' = One(Has(enricher.job, id))
        /\ One(Has(enricher.job, id)) \in Nat
    BY DEF Enqueue, One
  <2>4. Calls(id) \in Nat /\ Occurrences(enrichCh, id) \in Nat /\ k \in Nat
    BY <1>1, CallsType, OccurrencesType DEF One
  <2>5. CallSum(id)' + EnrichSum(id)' = CallSum(id) + EnrichSum(id)
    <3>1. CASE ~ stopped /\ Len(enrichCh) < EnrichCap
      <4>1. /\ enrichCh' = Append(enrichCh, calling[c].job)
            /\ calling' = [calling EXCEPT ![c] = NoJob]
        BY <3>1 DEF Enqueue, AfterEnqueue
      <4>2. Calls(id)' \in Nat /\ Calls(id)' + k = Calls(id)
        BY <1>1, <4>1, CallLeaves
      <4>3. Occurrences(enrichCh', id) = Occurrences(enrichCh, id) + k
        BY <1>1, <4>1, AppendOccurs
      <4>4. CallSum(id)' = Calls(id)' + One(id \in refused)
        BY <2>2 DEF CallSum
      <4>5. EnrichSum(id)' = Occurrences(enrichCh', id) + One(Has(enricher.job, id))
        BY <2>3 DEF EnrichSum
      <4> HIDE DEF k
      <4> QED
        BY <2>2, <2>3, <2>4, <4>2, <4>3, <4>4, <4>5 DEF CallSum, EnrichSum
    <3>2. CASE ~ (~ stopped /\ Len(enrichCh) < EnrichCap)
      <4>1. calling' = [calling EXCEPT ![c] = [calling[c] EXCEPT !.at = "fanOut"]]
        BY <3>2 DEF Enqueue
      <4>2. UNCHANGED <<enrichCh, enricher>>
        BY <3>2 DEF Enqueue
      <4>3. PICK v : v = [calling[c] EXCEPT !.at = "fanOut"]
        OBVIOUS
      <4>4. v \in Call /\ v.job = calling[c].job
        BY <1>1, <4>3 DEF Call
      <4>5. /\ Calls(id)' \in Nat
            /\ Calls(id)' + One(HasCall(c, id)) = Calls(id) + One(v # NoJob /\ v.job.id = id)
        BY <1>1, <4>1, <4>3, CallsChange
      <4>6. One(HasCall(c, id)) = k /\ One(v # NoJob /\ v.job.id = id) = k
        BY <1>1, <4>4, Sentinel DEF One, HasCall
      <4>7. EnrichSum(id)' = EnrichSum(id)
        BY <4>2, EnrichSumFrame
      <4> HIDE DEF k
      <4>8. Calls(id)' = Calls(id)
        BY <2>4, <4>5, <4>6
      <4>9. CallSum(id)' = CallSum(id)
        BY <2>2, <4>8 DEF CallSum
      <4> QED
        BY <4>7, <4>9
    <3> QED
      BY <3>1, <3>2
  <2> QED
    BY <2>1, <2>5
<1>4. Balance'
  BY <1>3, StillBalanced DEF Enqueue, ConservationInv
<1> QED
  BY <1>2, <1>4 DEF ConservationInv

(* The fan-out that starts holds the job, for every provider.              *)
LEMMA FanStarts ==
  ASSUME Types, NEW by \in Caller \cup {Enricher}, NEW job \in Job, StartFan(by, job),
         UNCHANGED <<ch, dropped>>, NEW p \in Entry, NEW id \in Id
  PROVE  ChannelSum(p, id)' = ChannelSum(p, id) + One(job.id = id)
<1>1. fan = NoFan /\ fan' = [by |-> by, job |-> job, entry |-> 1, step |-> "offer"]
  BY DEF StartFan, Unlocked
<1>2. fan' # NoFan
  <2>1. 1 \in Entry
    BY Sizes DEF Entry
  <2>2. fan' \in Fan
    BY <1>1, <2>1 DEF Fan
  <2> QED
    BY <2>2, Sentinel
<1>3. fan'.job = job /\ fan'.entry = 1 /\ 1 <= p
  BY <1>1, Sizes DEF Entry
<1>4. One(InFan(p, id)) = 0 /\ One(InFan(p, id))' = One(job.id = id)
  BY <1>1, <1>2, <1>3 DEF One, InFan
<1>5. Occurrences(ch[p], id) \in Nat /\ One(id \in dropped[p]) \in Nat /\ One(job.id = id) \in Nat
  BY OccurrencesType DEF One, Types, ChannelTypes
<1> QED
  BY <1>4, <1>5 DEF ChannelSum

LEMMA CallFanOutBalance ==
  ASSUME Types, Types', ConservationInv, NEW c \in Caller, CallFanOut(c)
  PROVE  ConservationInv'
<1>1. /\ calling[c] # NoJob /\ calling[c].job \in Job
      /\ calling' = [calling EXCEPT ![c] = NoJob] /\ StartFan(c, calling[c].job)
  BY CallingJob DEF CallFanOut, At, Types
<1>2. IdleHasNoJob'
  BY DEF CallFanOut, enrichVars, workerVars, ConservationInv, IdleHasNoJob
<1>3. ASSUME NEW p \in Entry, NEW id \in Id
      PROVE  CallSum(id)' + EnrichSum(id)' + ChannelSum(p, id)' + WorkerSum(p, id)'
               = CallSum(id) + EnrichSum(id) + ChannelSum(p, id) + WorkerSum(p, id)
  <2> DEFINE k == One(calling[c].job.id = id)
  <2>1. EnrichSum(id)' = EnrichSum(id) /\ WorkerSum(p, id)' = WorkerSum(p, id)
    BY EnrichSumFrame, WorkerSumFrame DEF CallFanOut, enrichVars, workerVars
  <2>2. ChannelSum(p, id)' = ChannelSum(p, id) + k
    BY <1>1, FanStarts DEF CallFanOut
  <2>3. Calls(id)' \in Nat /\ Calls(id)' + k = Calls(id) /\ Calls(id) \in Nat
    BY <1>1, CallLeaves, CallsType
  <2>4. One(id \in refused)' = One(id \in refused) /\ One(id \in refused) \in Nat /\ k \in Nat
    BY DEF CallFanOut, One
  <2> HIDE DEF k
  <2>5. CallSum(id)' + k = CallSum(id)
    BY <2>3, <2>4 DEF CallSum
  <2>6. CallSum(id)' \in Nat /\ EnrichSum(id) \in Nat /\ ChannelSum(p, id) \in Nat
        /\ WorkerSum(p, id) \in Nat
    BY SumsType, SumsNext
  <2> QED
    BY <2>1, <2>2, <2>4, <2>5, <2>6
<1>4. Balance'
  BY <1>3, StillBalanced DEF CallFanOut, ConservationInv
<1> QED
  BY <1>2, <1>4 DEF ConservationInv

LEMMA RefuseBalance ==
  ASSUME Types, Types', ConservationInv, NEW c \in Caller, Refuse(c)
  PROVE  ConservationInv'
<1>1. /\ calling[c] # NoJob /\ calling[c].job \in Job
      /\ calling' = [calling EXCEPT ![c] = NoJob]
      /\ refused' = refused \cup {calling[c].job.id}
  BY CallingJob DEF Refuse, At, Types
<1>2. IdleHasNoJob'
  BY DEF Refuse, enrichVars, workerVars, ConservationInv, IdleHasNoJob
<1>3. ASSUME NEW p \in Entry, NEW id \in Id
      PROVE  CallSum(id)' + EnrichSum(id)' + ChannelSum(p, id)' + WorkerSum(p, id)'
               = CallSum(id) + EnrichSum(id) + ChannelSum(p, id) + WorkerSum(p, id)
  <2> DEFINE k == One(calling[c].job.id = id)
  <2>1. /\ EnrichSum(id)' = EnrichSum(id) /\ WorkerSum(p, id)' = WorkerSum(p, id)
        /\ ChannelSum(p, id)' = ChannelSum(p, id)
    BY EnrichSumFrame, WorkerSumFrame, ChannelSumFrame
       DEF Refuse, enrichVars, workerVars, channelVars
  <2>2. Calls(id)' \in Nat /\ Calls(id)' + k = Calls(id) /\ Calls(id) \in Nat
    BY <1>1, CallLeaves, CallsType
  <2>3. /\ CallSum(id) \in Nat /\ EnrichSum(id) \in Nat /\ ChannelSum(p, id) \in Nat
        /\ WorkerSum(p, id) \in Nat
        /\ CallSum(id) + EnrichSum(id) + ChannelSum(p, id) + WorkerSum(p, id) <= 1
    BY SumsType, AtMostOne DEF ConservationInv
  <2>4. Calls(id) + One(id \in refused) <= 1 /\ One(id \in refused) \in Nat
    BY <2>2, <2>3 DEF CallSum, One
  <2>5. One(id \in refused)' = One(id \in refused) + k
    <3>1. CASE calling[c].job.id = id
      <4>1. k = 1
        BY <3>1 DEF One
      <4>2. One(id \in refused) = 0
        BY <2>2, <2>4, <4>1
      <4>3. One(id \in refused)' = 1
        BY <1>1, <3>1 DEF One
      <4> QED
        BY <4>1, <4>2, <4>3
    <3>2. CASE calling[c].job.id # id
      <4>1. k = 0
        BY <3>2 DEF One
      <4>2. One(id \in refused)' = One(id \in refused)
        BY <1>1, <3>2 DEF One
      <4> QED
        BY <2>4, <4>1, <4>2
    <3> QED
      BY <3>1, <3>2
  <2>6. k \in Nat
    BY DEF One
  <2> HIDE DEF k
  <2>7. CallSum(id)' = CallSum(id)
    BY <2>2, <2>4, <2>5, <2>6 DEF CallSum
  <2> QED
    BY <2>1, <2>7
<1>4. Balance'
  BY <1>3, StillBalanced DEF Refuse, ConservationInv
<1> QED
  BY <1>2, <1>4 DEF ConservationInv

(* A fan-out that goes on to the next provider leaves one provider behind. *)
LEMMA FanMoves ==
  ASSUME ChannelTypes, fan # NoFan, fan' = NextEntry, NEW p \in Entry, NEW id
  PROVE  /\ One(InFan(p, id))' \in Nat
         /\ One(InFan(p, id))' + One(p = fan.entry /\ fan.job.id = id) = One(InFan(p, id))
<1>1. fan \in Fan /\ fan.entry \in 1 .. Entries /\ p \in 1 .. Entries
  BY FanType DEF Entry
<1>2. InFan(p, id) <=> fan.job.id = id /\ fan.entry <= p
  BY DEF InFan
<1>3. InFan(p, id)' <=> fan.job.id = id /\ fan.entry + 1 <= p
  <2>1. CASE fan.entry < Entries
    <3>1. fan' = [fan EXCEPT !.entry = @ + 1, !.step = "offer"]
      BY <2>1 DEF NextEntry
    <3>2. fan'.entry = fan.entry + 1 /\ fan'.job = fan.job
      BY <3>1, <1>1 DEF Fan
    <3>3. fan' # NoFan
      <4>1. fan.entry + 1 \in Entry
        BY <1>1, <2>1, Sizes DEF Entry
      <4>2. fan' \in Fan
        BY <3>1, <4>1, <1>1 DEF Fan
      <4> QED
        BY <4>2, Sentinel
    <3> QED
      BY <3>2, <3>3 DEF InFan
  <2>2. CASE ~ (fan.entry < Entries)
    <3>1. fan' = NoFan
      BY <2>2 DEF NextEntry
    <3>2. ~ (fan.entry + 1 <= p)
      BY <1>1, <2>2, Sizes
    <3> QED
      BY <3>1, <3>2 DEF InFan
  <2> QED
    BY <2>1, <2>2
<1>4. /\ fan.entry <= p <=> fan.entry + 1 <= p \/ p = fan.entry
      /\ ~ (fan.entry + 1 <= p /\ p = fan.entry)
  BY <1>1, Sizes
<1>5. /\ InFan(p, id) <=> InFan(p, id)' \/ (p = fan.entry /\ fan.job.id = id)
      /\ ~ (InFan(p, id)' /\ (p = fan.entry /\ fan.job.id = id))
  BY <1>2, <1>3, <1>4
<1> QED
  BY <1>5 DEF One

(* Put and NextEntry together move the job into the provider's channel.    *)
LEMMA FanPuts ==
  ASSUME Types, fan # NoFan, fan' = NextEntry, Put(fan.entry), dropped' = dropped,
         NEW p \in Entry, NEW id \in Id
  PROVE  ChannelSum(p, id)' = ChannelSum(p, id)
<1> DEFINE k == One(p = fan.entry /\ fan.job.id = id)
<1>1. /\ ChannelTypes /\ ch[p] \in Seq(Job) /\ fan.job \in Job
      /\ ch' = [ch EXCEPT ![fan.entry] = Append(@, fan.job)]
  BY FanType DEF Types, ChannelTypes, Put
<1>2. One(InFan(p, id))' \in Nat /\ One(InFan(p, id))' + k = One(InFan(p, id))
  BY <1>1, FanMoves
<1>3. Occurrences(ch[p], id) \in Nat
  BY <1>1, OccurrencesType
<1>4. Occurrences(ch'[p], id) = Occurrences(ch[p], id) + k
  <2>1. CASE p = fan.entry
    <3>1. ch'[p] = Append(ch[p], fan.job)
      BY <1>1, <2>1 DEF ChannelTypes
    <3>2. k = One(fan.job.id = id)
      BY <2>1 DEF One
    <3> HIDE DEF k
    <3> QED
      BY <1>1, <3>1, <3>2, AppendOccurs
  <2>2. CASE p # fan.entry
    <3>1. ch'[p] = ch[p] /\ k = 0
      BY <1>1, <2>2 DEF ChannelTypes, One
    <3> HIDE DEF k
    <3> QED
      BY <3>1, <1>3
  <2> QED
    BY <2>1, <2>2
<1>5. One(id \in dropped[p]) \in Nat /\ k \in Nat
  BY DEF One
<1> HIDE DEF k
<1> QED
  BY <1>2, <1>3, <1>4, <1>5 DEF ChannelSum

LEMMA OfferBalance ==
  ASSUME Types, Types', ConservationInv, Offer
  PROVE  ConservationInv'
<1>1. fan # NoFan /\ fan \in Fan
  BY FanType DEF Offer, AtStep, Types
<1>2. IdleHasNoJob'
  BY DEF Offer, enrichVars, workerVars, ConservationInv, IdleHasNoJob
<1>3. ASSUME NEW p \in Entry, NEW id \in Id
      PROVE  CallSum(id)' + EnrichSum(id)' + ChannelSum(p, id)' + WorkerSum(p, id)'
               = CallSum(id) + EnrichSum(id) + ChannelSum(p, id) + WorkerSum(p, id)
  <2>1. /\ CallSum(id)' = CallSum(id) /\ EnrichSum(id)' = EnrichSum(id)
        /\ WorkerSum(p, id)' = WorkerSum(p, id)
    BY CallSumFrame, EnrichSumFrame, WorkerSumFrame DEF Offer, callVars, enrichVars, workerVars
  <2>2. ChannelSum(p, id)' = ChannelSum(p, id)
    <3>1. CASE Room(fan.entry)
      BY <1>1, <3>1, FanPuts DEF Offer
    <3>2. CASE ~ Room(fan.entry)
      <4>1. fan' = [fan EXCEPT !.step = "evict"] /\ ch' = ch /\ dropped' = dropped
        BY <3>2 DEF Offer
      <4>2. fan' \in Fan /\ fan'.job = fan.job /\ fan'.entry = fan.entry
        BY <1>1, <4>1 DEF Fan
      <4>3. InFan(p, id)' <=> InFan(p, id)
        BY <1>1, <4>2, Sentinel DEF InFan
      <4>4. One(InFan(p, id))' = One(InFan(p, id))
        BY <4>3 DEF One
      <4> QED
        BY <4>1, <4>4 DEF ChannelSum
    <3> QED
      BY <3>1, <3>2
  <2> QED
    BY <2>1, <2>2
<1>4. Balance'
  BY <1>3, StillBalanced DEF Offer, callVars, ConservationInv
<1> QED
  BY <1>2, <1>4 DEF ConservationInv

LEMMA EvictBalance ==
  ASSUME Types, Types', ConservationInv, Evict
  PROVE  ConservationInv'
<1>1. /\ fan # NoFan /\ fan \in Fan /\ fan.entry \in Entry
      /\ fan' = [fan EXCEPT !.step = "refill"]
  BY FanType DEF Evict, AtStep, Types
<1>2. IdleHasNoJob'
  BY DEF Evict, enrichVars, workerVars, ConservationInv, IdleHasNoJob
<1>3. ASSUME NEW p \in Entry, NEW id \in Id
      PROVE  CallSum(id)' + EnrichSum(id)' + ChannelSum(p, id)' + WorkerSum(p, id)'
               = CallSum(id) + EnrichSum(id) + ChannelSum(p, id) + WorkerSum(p, id)
  <2>1. /\ CallSum(id)' = CallSum(id) /\ EnrichSum(id)' = EnrichSum(id)
        /\ WorkerSum(p, id)' = WorkerSum(p, id)
    BY CallSumFrame, EnrichSumFrame, WorkerSumFrame DEF Evict, callVars, enrichVars, workerVars
  <2>2. One(InFan(p, id))' = One(InFan(p, id)) /\ One(InFan(p, id)) \in Nat
    <3>1. fan' \in Fan /\ fan'.job = fan.job /\ fan'.entry = fan.entry
      BY <1>1 DEF Fan
    <3>2. InFan(p, id)' <=> InFan(p, id)
      BY <1>1, <3>1, Sentinel DEF InFan
    <3> QED
      BY <3>2 DEF One
  <2>3. CASE p = fan.entry /\ ch[p] # <<>>
    <3> DEFINE k == One(Head(ch[p]).id = id)
    <3>1. ch'[p] = Tail(ch[p]) /\ dropped'[p] = dropped[p] \cup {Head(ch[p]).id}
      BY <2>3 DEF Evict, Evictee, Types, ChannelTypes
    <3>2. ch[p] \in Seq(Job) /\ ch'[p] \in Seq(Job)
      BY DEF Types, ChannelTypes
    <3>3. /\ Occurrences(ch'[p], id) + k = Occurrences(ch[p], id)
          /\ Occurrences(ch'[p], id) \in Nat /\ Occurrences(ch[p], id) \in Nat
      <4>1. Occurrences(Tail(ch[p]), id) + k = Occurrences(ch[p], id)
        BY <2>3, <3>2, TailOccurs
      <4> HIDE DEF k
      <4> QED
        BY <3>1, <3>2, <4>1, OccurrencesType
    <3>4. /\ CallSum(id) \in Nat /\ EnrichSum(id) \in Nat /\ WorkerSum(p, id) \in Nat
          /\ CallSum(id) + EnrichSum(id) + ChannelSum(p, id) + WorkerSum(p, id) <= 1
          /\ ChannelSum(p, id) \in Nat
      BY SumsType, AtMostOne DEF ConservationInv
    <3>5. One(id \in dropped[p]) \in Nat /\ k \in Nat
      BY DEF One
    <3>6. One(id \in dropped[p]) + k <= 1
      <4> HIDE DEF k
      <4>1. ChannelSum(p, id) <= 1
        BY <3>4
      <4> QED
        BY <2>2, <3>3, <3>5, <4>1 DEF ChannelSum
    <3>7. One(id \in dropped'[p]) = One(id \in dropped[p]) + k
      <4>1. /\ Head(ch[p]).id = id => One(id \in dropped'[p]) = 1 /\ k = 1
            /\ Head(ch[p]).id # id => One(id \in dropped'[p]) = One(id \in dropped[p]) /\ k = 0
            /\ One(id \in dropped[p]) \in {0, 1}
        BY <3>1 DEF One
      <4> HIDE DEF k
      <4> QED
        BY <3>6, <4>1
    <3> HIDE DEF k
    <3>8. ChannelSum(p, id)' = ChannelSum(p, id)
      BY <2>2, <3>3, <3>5, <3>7 DEF ChannelSum
    <3> QED
      BY <2>1, <3>8
  <2>4. CASE ~ (p = fan.entry /\ ch[p] # <<>>)
    <3>1. ch'[p] = ch[p] /\ dropped'[p] = dropped[p]
      <4>1. CASE ch[fan.entry] = <<>>
        BY <4>1 DEF Evict, Evictee
      <4>2. CASE ch[fan.entry] # <<>>
        <5>1. /\ ch' = [ch EXCEPT ![fan.entry] = Tail(@)]
              /\ \E d : dropped' = [dropped EXCEPT ![fan.entry] = d]
          BY <4>2 DEF Evict, Evictee
        <5> QED
          BY <2>4, <4>2, <5>1 DEF Types, ChannelTypes
      <4> QED
        BY <4>1, <4>2
    <3>2. ChannelSum(p, id)' = ChannelSum(p, id)
      BY <2>2, <3>1 DEF ChannelSum
    <3> QED
      BY <2>1, <3>2
  <2> QED
    BY <2>3, <2>4
<1>4. Balance'
  BY <1>3, StillBalanced DEF Evict, callVars, ConservationInv
<1> QED
  BY <1>2, <1>4 DEF ConservationInv

LEMMA RefillBalance ==
  ASSUME Types, Types', ConservationInv, Refill
  PROVE  ConservationInv'
<1>1. fan # NoFan /\ fan \in Fan /\ fan.entry \in Entry /\ fan' = NextEntry
  BY FanType DEF Refill, AtStep, Types
<1>2. IdleHasNoJob'
  BY DEF Refill, enrichVars, workerVars, ConservationInv, IdleHasNoJob
<1>3. ASSUME NEW p \in Entry, NEW id \in Id
      PROVE  CallSum(id)' + EnrichSum(id)' + ChannelSum(p, id)' + WorkerSum(p, id)'
               = CallSum(id) + EnrichSum(id) + ChannelSum(p, id) + WorkerSum(p, id)
  <2>1. /\ CallSum(id)' = CallSum(id) /\ EnrichSum(id)' = EnrichSum(id)
        /\ WorkerSum(p, id)' = WorkerSum(p, id)
    BY CallSumFrame, EnrichSumFrame, WorkerSumFrame DEF Refill, callVars, enrichVars, workerVars
  <2>2. ChannelSum(p, id)' = ChannelSum(p, id)
    <3>1. CASE Room(fan.entry)
      BY <1>1, <3>1, FanPuts DEF Refill
    <3>2. CASE ~ Room(fan.entry)
      <4> DEFINE k == One(p = fan.entry /\ fan.job.id = id)
      <4>1. ch' = ch /\ dropped' = [dropped EXCEPT ![fan.entry] = @ \cup {fan.job.id}]
        BY <3>2 DEF Refill
      <4>2. One(InFan(p, id))' \in Nat /\ One(InFan(p, id))' + k = One(InFan(p, id))
        BY <1>1, FanMoves DEF Types
      <4>3. /\ Occurrences(ch[p], id) \in Nat /\ One(id \in dropped[p]) \in Nat /\ k \in Nat
            /\ ChannelSum(p, id) <= 1
        <5>1. /\ CallSum(id) \in Nat /\ EnrichSum(id) \in Nat /\ WorkerSum(p, id) \in Nat
              /\ CallSum(id) + EnrichSum(id) + ChannelSum(p, id) + WorkerSum(p, id) <= 1
              /\ ChannelSum(p, id) \in Nat
          BY SumsType, AtMostOne DEF ConservationInv
        <5>2. ChannelSum(p, id) <= 1
          BY <5>1
        <5>3. Occurrences(ch[p], id) \in Nat
          BY OccurrencesType DEF Types, ChannelTypes
        <5> QED
          BY <5>2, <5>3 DEF One
      <4>4. One(id \in dropped[p]) + k <= 1
        <5> HIDE DEF k
        <5> QED
          BY <4>2, <4>3 DEF ChannelSum
      <4>5. One(id \in dropped'[p]) = One(id \in dropped[p]) + k
        <5>1. CASE p = fan.entry
          <6>1. dropped'[p] = dropped[p] \cup {fan.job.id}
            BY <4>1, <5>1 DEF Types, ChannelTypes
          <6>2. /\ fan.job.id = id => One(id \in dropped'[p]) = 1 /\ k = 1
                /\ fan.job.id # id => One(id \in dropped'[p]) = One(id \in dropped[p]) /\ k = 0
                /\ One(id \in dropped[p]) \in {0, 1}
            BY <5>1, <6>1 DEF One
          <6> HIDE DEF k
          <6> QED
            BY <4>4, <6>2
        <5>2. CASE p # fan.entry
          <6>1. dropped'[p] = dropped[p] /\ k = 0
            BY <4>1, <5>2 DEF One, Types, ChannelTypes
          <6> HIDE DEF k
          <6> QED
            BY <4>3, <6>1
        <5> QED
          BY <5>1, <5>2
      <4> HIDE DEF k
      <4> QED
        BY <4>1, <4>2, <4>3, <4>5 DEF ChannelSum
    <3> QED
      BY <3>1, <3>2
  <2> QED
    BY <2>1, <2>2
<1>4. Balance'
  BY <1>3, StillBalanced DEF Refill, callVars, ConservationInv
<1> QED
  BY <1>2, <1>4 DEF ConservationInv

(* A step that leaves every sum alone.                                     *)
LEMMA NothingMoves ==
  ASSUME Types, Types', ConservationInv, IdleHasNoJob',
         UNCHANGED <<issued, calling, refused, enrichCh, fan, ch, dropped,
                     delivered, dead, filtered>>,
         enricher'.job = enricher.job, \A p \in Entry : worker'[p].job = worker[p].job
  PROVE  ConservationInv'
<1>1. ASSUME NEW p \in Entry, NEW id \in Id
      PROVE  CallSum(id)' + EnrichSum(id)' + ChannelSum(p, id)' + WorkerSum(p, id)'
               = CallSum(id) + EnrichSum(id) + ChannelSum(p, id) + WorkerSum(p, id)
  <2>1. CallSum(id)' = CallSum(id) /\ ChannelSum(p, id)' = ChannelSum(p, id)
    BY CallSumFrame, ChannelSumFrame
  <2>2. EnrichSum(id)' = EnrichSum(id)
    BY DEF EnrichSum
  <2>3. WorkerSum(p, id)' = WorkerSum(p, id)
    BY DEF WorkerSum
  <2> QED
    BY <2>1, <2>2, <2>3
<1>2. Balance'
  BY <1>1, StillBalanced DEF ConservationInv
<1> QED
  BY <1>2 DEF ConservationInv

LEMMA EnricherReceiveBalance ==
  ASSUME Types, Types', ConservationInv, EnricherReceive
  PROVE  ConservationInv'
<1>1. /\ enrichCh # <<>> /\ enrichCh \in Seq(Job) /\ enrichCh' = Tail(enrichCh)
      /\ enricher' = [at |-> "analyze", job |-> Head(enrichCh)]
      /\ enricher.job = NoJob /\ Head(enrichCh) \in Job
  BY TakeType DEF EnricherReceive, enricherFree, Types, EnrichTypes, ConservationInv, IdleHasNoJob
<1>2. IdleHasNoJob'
  <2>1. enricher'.at = "analyze" /\ worker' = worker
    BY <1>1 DEF EnricherReceive, workerVars
  <2> QED
    BY <2>1 DEF ConservationInv, IdleHasNoJob
<1>3. ASSUME NEW p \in Entry, NEW id \in Id
      PROVE  CallSum(id)' + EnrichSum(id)' + ChannelSum(p, id)' + WorkerSum(p, id)'
               = CallSum(id) + EnrichSum(id) + ChannelSum(p, id) + WorkerSum(p, id)
  <2>1. /\ CallSum(id)' = CallSum(id) /\ ChannelSum(p, id)' = ChannelSum(p, id)
        /\ WorkerSum(p, id)' = WorkerSum(p, id)
    BY CallSumFrame, ChannelSumFrame, WorkerSumFrame
       DEF EnricherReceive, callVars, channelVars, workerVars
  <2>2. EnrichSum(id)' = EnrichSum(id)
    <3> DEFINE k == One(Head(enrichCh).id = id)
    <3>1. Occurrences(Tail(enrichCh), id) + k = Occurrences(enrichCh, id)
      BY <1>1, TailOccurs
    <3>2. One(Has(enricher.job, id)) = 0
      BY <1>1 DEF One, Has
    <3>3. Has(enricher'.job, id) <=> Head(enrichCh).id = id
      BY <1>1, Sentinel DEF Has
    <3>4. One(Has(enricher'.job, id)) = k /\ k \in Nat
      BY <3>3 DEF One
    <3>5. Occurrences(enrichCh', id) \in Nat /\ Occurrences(enrichCh, id) \in Nat
      BY OccurrencesType DEF Types, EnrichTypes
    <3> HIDE DEF k
    <3> QED
      BY <1>1, <3>1, <3>2, <3>4, <3>5 DEF EnrichSum
  <2> QED
    BY <2>1, <2>2
<1>4. Balance'
  BY <1>3, StillBalanced DEF EnricherReceive, callVars, ConservationInv
<1> QED
  BY <1>2, <1>4 DEF ConservationInv

LEMMA EnricherFanOutBalance ==
  ASSUME Types, Types', ConservationInv, EnricherFanOut
  PROVE  ConservationInv'
<1>1. /\ enricher.job \in Job /\ StartFan(Enricher, enricher.job)
      /\ enricher'.at = "idle" /\ enricher'.job = NoJob /\ enrichCh' = enrichCh
  BY DEF EnricherFanOut, Types, EnrichTypes, IdleEnricher
<1>2. IdleHasNoJob'
  BY <1>1 DEF EnricherFanOut, workerVars, ConservationInv, IdleHasNoJob
<1>3. ASSUME NEW p \in Entry, NEW id \in Id
      PROVE  CallSum(id)' + EnrichSum(id)' + ChannelSum(p, id)' + WorkerSum(p, id)'
               = CallSum(id) + EnrichSum(id) + ChannelSum(p, id) + WorkerSum(p, id)
  <2> DEFINE k == One(enricher.job.id = id)
  <2>1. CallSum(id)' = CallSum(id) /\ WorkerSum(p, id)' = WorkerSum(p, id)
    BY CallSumFrame, WorkerSumFrame DEF EnricherFanOut, callVars, workerVars
  <2>2. ChannelSum(p, id)' = ChannelSum(p, id) + k
    BY <1>1, FanStarts DEF EnricherFanOut
  <2>3. One(Has(enricher.job, id)) = k /\ One(Has(enricher'.job, id)) = 0 /\ k \in Nat
    BY <1>1, Sentinel DEF One, Has
  <2>4. Occurrences(enrichCh, id) \in Nat
    BY OccurrencesType DEF Types, EnrichTypes
  <2> HIDE DEF k
  <2>5. EnrichSum(id)' + k = EnrichSum(id)
    BY <1>1, <2>3, <2>4 DEF EnrichSum
  <2>6. CallSum(id) \in Nat /\ EnrichSum(id)' \in Nat /\ ChannelSum(p, id) \in Nat
        /\ WorkerSum(p, id) \in Nat
    BY SumsType, SumsNext
  <2> QED
    BY <2>1, <2>2, <2>3, <2>5, <2>6
<1>4. Balance'
  BY <1>3, StillBalanced DEF EnricherFanOut, callVars, ConservationInv
<1> QED
  BY <1>2, <1>4 DEF ConservationInv

LEMMA EnrichmentBalance ==
  ASSUME Types, Types', ConservationInv, Enrichment \/ BreakerCooldown
  PROVE  ConservationInv'
<1>1. CASE EnricherReceive
  BY <1>1, EnricherReceiveBalance
<1>2. CASE enrichOne
  <2>1. enricher'.at = "fanOut" /\ enricher'.job = enricher.job
    BY <1>2 DEF enrichOne, Types, EnrichTypes
  <2> QED
    BY <1>2, <2>1, NothingMoves
       DEF enrichOne, callVars, channelVars, workerVars, ConservationInv, IdleHasNoJob
<1>3. CASE EnricherFanOut
  BY <1>3, EnricherFanOutBalance
<1>4. CASE EnricherExit
  <2>1. /\ enricher'.at = "exited" /\ enricher'.job = enricher.job /\ enricher.at = "idle"
    BY <1>4 DEF EnricherExit, enricherFree, Types, EnrichTypes
  <2> QED
    BY <1>4, <2>1, NothingMoves
       DEF EnricherExit, callVars, channelVars, workerVars, ConservationInv, IdleHasNoJob
<1>5. CASE BreakerCooldown
  BY <1>5, NothingMoves
     DEF BreakerCooldown, callVars, channelVars, workerVars, ConservationInv, IdleHasNoJob
<1> QED
  BY <1>1, <1>2, <1>3, <1>4, <1>5 DEF Enrichment

LEMMA ReceiveBalance ==
  ASSUME Types, Types', ConservationInv, NEW q \in Entry, Receive(q)
  PROVE  ConservationInv'
<1> DEFINE job == Head(ch[q])
<1>1. /\ ch[q] # <<>> /\ ch' = [ch EXCEPT ![q] = Tail(@)] /\ ch[q] \in Seq(Job)
      /\ job \in Job /\ worker[q].job = NoJob
  BY TakeType DEF Receive, Types, ChannelTypes, ConservationInv, IdleHasNoJob
<1>2. \/ /\ worker' = [worker EXCEPT ![q] = [at |-> "sending", job |-> job, attempt |-> 1]]
         /\ filtered' = filtered
      \/ /\ filtered' = [filtered EXCEPT ![q] = @ \cup {job.id}]
         /\ worker' = worker
  BY DEF Receive
<1>3. /\ fan' = fan /\ dropped' = dropped /\ delivered' = delivered /\ dead' = dead
      /\ enricher' = enricher /\ issued' = issued
  BY DEF Receive, enrichVars, callVars
<1> HIDE DEF job
<1>4. IdleHasNoJob'
  <2>1. ASSUME NEW p \in Entry, worker'[p].at # "sending" PROVE worker'[p].job = NoJob
    <3>1. worker[p].at # "sending" /\ worker'[p] = worker[p]
      <4>1. worker \in [Entry -> Working]
        BY WorkerType DEF Types
      <4>2. CASE worker' = [worker EXCEPT ![q] = [at |-> "sending", job |-> job, attempt |-> 1]]
        BY <2>1, <4>1, <4>2
      <4> QED
        BY <1>2, <2>1, <4>2
    <3> QED
      BY <3>1 DEF ConservationInv, IdleHasNoJob
  <2> QED
    BY <1>3, <2>1 DEF ConservationInv, IdleHasNoJob
<1>5. ASSUME NEW p \in Entry, NEW id \in Id
      PROVE  CallSum(id)' + EnrichSum(id)' + ChannelSum(p, id)' + WorkerSum(p, id)'
               = CallSum(id) + EnrichSum(id) + ChannelSum(p, id) + WorkerSum(p, id)
  <2>1. CallSum(id)' = CallSum(id) /\ EnrichSum(id)' = EnrichSum(id)
    BY CallSumFrame, EnrichSumFrame DEF Receive, callVars, enrichVars
  <2>2. CASE p # q
    <3>1. ch'[p] = ch[p] /\ worker'[p] = worker[p] /\ filtered'[p] = filtered[p]
      BY <1>1, <1>2, <2>2 DEF Types, ChannelTypes, WorkerTypes
    <3>2. One(InFan(p, id))' = One(InFan(p, id))
      BY <1>3 DEF InFan
    <3>3. ChannelSum(p, id)' = ChannelSum(p, id)
      BY <1>3, <3>1, <3>2 DEF ChannelSum
    <3>4. WorkerSum(p, id)' = WorkerSum(p, id)
      BY <1>3, <3>1 DEF WorkerSum
    <3> QED
      BY <2>1, <3>3, <3>4
  <2>3. CASE p = q
    <3> DEFINE k == One(job.id = id)
    <3>1. ch'[p] = Tail(ch[p]) /\ ch[p] \in Seq(Job) /\ ch'[p] \in Seq(Job)
      BY <1>1, <2>3 DEF Types, ChannelTypes
    <3>2. /\ Occurrences(Tail(ch[p]), id) + k = Occurrences(ch[p], id)
      BY <1>1, <2>3, TailOccurs DEF job
    <3>3. Occurrences(ch'[p], id) \in Nat /\ Occurrences(ch[p], id) \in Nat
      BY <3>1, OccurrencesType
    <3>4. One(InFan(p, id))' = One(InFan(p, id)) /\ One(InFan(p, id)) \in Nat
      BY <1>3 DEF InFan, One
    <3>5. /\ One(id \in dropped[p]) \in Nat /\ One(id \in dead[p]) \in Nat
          /\ One(id \in filtered[p]) \in {0, 1} /\ k \in Nat
      BY DEF One
    <3>6. One(id \in delivered[p]) \in Nat
      BY DEF One
    <3>7. One(Has(worker[p].job, id)) = 0
      BY <1>1, <2>3 DEF One, Has
    <3>8. ChannelSum(p, id)' + k = ChannelSum(p, id)
      <4> HIDE DEF k
      <4> QED
        BY <1>3, <3>1, <3>2, <3>3, <3>4, <3>5 DEF ChannelSum
    <3>9. WorkerSum(p, id)' = WorkerSum(p, id) + k
      <4>1. CASE /\ worker' = [worker EXCEPT ![q] = [at |-> "sending", job |-> job, attempt |-> 1]]
                 /\ filtered' = filtered
        <5>1. worker'[p].job = job
          BY <2>3, <4>1 DEF Types, WorkerTypes
        <5>2. One(Has(worker'[p].job, id)) = k
          BY <1>1, <5>1, Sentinel DEF One, Has
        <5> HIDE DEF k
        <5> QED
          BY <1>3, <3>5, <3>6, <3>7, <4>1, <5>2 DEF WorkerSum
      <4>2. CASE /\ filtered' = [filtered EXCEPT ![q] = @ \cup {job.id}]
                 /\ worker' = worker
        <5>1. filtered'[p] = filtered[p] \cup {job.id}
          BY <2>3, <4>2 DEF Types, WorkerTypes
        <5>2. /\ job.id = id => One(id \in filtered'[p]) = 1 /\ k = 1
              /\ job.id # id => One(id \in filtered'[p]) = One(id \in filtered[p]) /\ k = 0
          BY <5>1 DEF One
        <5>3. /\ CallSum(id) \in Nat /\ EnrichSum(id) \in Nat /\ WorkerSum(p, id) \in Nat
              /\ CallSum(id) + EnrichSum(id) + ChannelSum(p, id) + WorkerSum(p, id) <= 1
              /\ ChannelSum(p, id) \in Nat /\ ChannelSum(p, id)' \in Nat
          BY SumsType, SumsNext, AtMostOne DEF ConservationInv
        <5> HIDE DEF k
        <5>4. WorkerSum(p, id) + k <= 1
          BY <3>5, <3>8, <5>3
        <5>5. One(id \in filtered[p]) + k <= 1
          BY <3>5, <3>6, <3>7, <5>4 DEF WorkerSum
        <5>6. One(id \in filtered'[p]) = One(id \in filtered[p]) + k
          BY <3>5, <5>2, <5>5
        <5> QED
          BY <1>3, <3>5, <3>6, <3>7, <4>2, <5>6 DEF WorkerSum
      <4> QED
        BY <1>2, <4>1, <4>2
    <3> HIDE DEF k
    <3>10. /\ CallSum(id) \in Nat /\ EnrichSum(id) \in Nat /\ WorkerSum(p, id) \in Nat
           /\ ChannelSum(p, id)' \in Nat
      BY SumsType, SumsNext
    <3> QED
      BY <2>1, <3>5, <3>8, <3>9, <3>10
  <2> QED
    BY <2>2, <2>3
<1>6. Balance'
  BY <1>3, <1>5, StillBalanced DEF ConservationInv
<1> QED
  BY <1>4, <1>6 DEF ConservationInv

(* A worker that is done with its job leaves it acknowledged or dead.      *)
LEMMA WorkerDone ==
  ASSUME Types, Types', ConservationInv, NEW q \in Entry, worker[q].at = "sending",
         worker' = [worker EXCEPT ![q] = IdleWorker],
         UNCHANGED <<issued, calling, refused, enrichCh, enricher, fan, ch, dropped, filtered>>,
         \/ delivered' = [delivered EXCEPT ![q] = @ \cup {worker[q].job.id}] /\ dead' = dead
         \/ dead' = [dead EXCEPT ![q] = @ \cup {worker[q].job.id}] /\ delivered' = delivered
  PROVE  ConservationInv'
<1>1. /\ worker[q].job \in Job
      /\ \A p \in Entry : worker'[p] = IF p = q THEN IdleWorker ELSE worker[p]
  BY DEF Types, WorkerTypes
<1>2. IdleHasNoJob'
  BY <1>1 DEF IdleWorker, ConservationInv, IdleHasNoJob
<1>3. ASSUME NEW p \in Entry, NEW id \in Id
      PROVE  CallSum(id)' + EnrichSum(id)' + ChannelSum(p, id)' + WorkerSum(p, id)'
               = CallSum(id) + EnrichSum(id) + ChannelSum(p, id) + WorkerSum(p, id)
  <2>1. /\ CallSum(id)' = CallSum(id) /\ EnrichSum(id)' = EnrichSum(id)
        /\ ChannelSum(p, id)' = ChannelSum(p, id)
    BY CallSumFrame, EnrichSumFrame, ChannelSumFrame
  <2>2. CASE p # q
    <3>1. delivered'[p] = delivered[p] /\ worker'[p] = worker[p] /\ dead'[p] = dead[p]
      BY <1>1, <2>2 DEF Types, WorkerTypes
    <3>2. WorkerSum(p, id)' = WorkerSum(p, id)
      BY <3>1 DEF WorkerSum
    <3> QED
      BY <2>1, <3>2
  <2>3. CASE p = q
    <3> DEFINE k == One(worker[p].job.id = id)
    <3>1. One(Has(worker[p].job, id)) = k /\ One(Has(worker'[p].job, id)) = 0
      BY <1>1, <2>3, Sentinel DEF One, Has, IdleWorker
    <3>2. /\ One(id \in delivered[p]) \in {0, 1} /\ One(id \in dead[p]) \in {0, 1}
          /\ One(id \in filtered[p]) \in Nat /\ k \in Nat
      BY DEF One
    <3>3. WorkerSum(p, id) <= 1
      <4>1. /\ CallSum(id) \in Nat /\ EnrichSum(id) \in Nat /\ ChannelSum(p, id) \in Nat
            /\ CallSum(id) + EnrichSum(id) + ChannelSum(p, id) + WorkerSum(p, id) <= 1
            /\ WorkerSum(p, id) \in Nat
        BY SumsType, AtMostOne DEF ConservationInv
      <4> QED
        BY <4>1
    <3>4. WorkerSum(p, id)' = WorkerSum(p, id)
      <4>1. CASE /\ delivered' = [delivered EXCEPT ![q] = @ \cup {worker[q].job.id}]
                 /\ dead' = dead
        <5>1. delivered'[p] = delivered[p] \cup {worker[p].job.id}
          BY <2>3, <4>1 DEF Types, WorkerTypes
        <5>2. /\ worker[p].job.id = id => One(id \in delivered'[p]) = 1 /\ k = 1
              /\ worker[p].job.id # id
                   => One(id \in delivered'[p]) = One(id \in delivered[p]) /\ k = 0
          BY <5>1 DEF One
        <5> HIDE DEF k
        <5>3. One(id \in delivered[p]) + k <= 1
          BY <3>1, <3>2, <3>3 DEF WorkerSum
        <5>4. One(id \in delivered'[p]) = One(id \in delivered[p]) + k
          BY <3>2, <5>2, <5>3
        <5> QED
          BY <3>1, <3>2, <4>1, <5>4 DEF WorkerSum
      <4>2. CASE /\ dead' = [dead EXCEPT ![q] = @ \cup {worker[q].job.id}]
                 /\ delivered' = delivered
        <5>1. dead'[p] = dead[p] \cup {worker[p].job.id}
          BY <2>3, <4>2 DEF Types, WorkerTypes
        <5>2. /\ worker[p].job.id = id => One(id \in dead'[p]) = 1 /\ k = 1
              /\ worker[p].job.id # id => One(id \in dead'[p]) = One(id \in dead[p]) /\ k = 0
          BY <5>1 DEF One
        <5> HIDE DEF k
        <5>3. One(id \in dead[p]) + k <= 1
          BY <3>1, <3>2, <3>3 DEF WorkerSum
        <5>4. One(id \in dead'[p]) = One(id \in dead[p]) + k
          BY <3>2, <5>2, <5>3
        <5> QED
          BY <3>1, <3>2, <4>2, <5>4 DEF WorkerSum
      <4> QED
        BY <4>1, <4>2
    <3> QED
      BY <2>1, <3>4
  <2> QED
    BY <2>2, <2>3
<1>4. Balance'
  BY <1>3, StillBalanced DEF ConservationInv
<1> QED
  BY <1>2, <1>4 DEF ConservationInv

LEMMA WorkBalance ==
  ASSUME Types, Types', ConservationInv, NEW p \in Entry, Work(p)
  PROVE  ConservationInv'
<1> USE DEF callVars, enrichVars, channelVars
<1>1. CASE Receive(p)
  BY <1>1, ReceiveBalance
<1>2. CASE SendSucceeds(p)
  BY <1>2, WorkerDone DEF SendSucceeds
<1>3. CASE SendFails(p)
  <2>1. /\ worker' = [worker EXCEPT ![p] = [worker[p] EXCEPT !.attempt = @ + 1]]
        /\ worker[p].at = "sending"
    BY <1>3 DEF SendFails
  <2>2. \A r \in Entry : worker'[r].job = worker[r].job /\ worker'[r].at = worker[r].at
    BY <2>1 DEF Types, WorkerTypes
  <2>3. IdleHasNoJob'
    BY <1>3, <2>2 DEF SendFails, ConservationInv, IdleHasNoJob
  <2> QED
    BY <1>3, <2>2, <2>3, NothingMoves DEF SendFails
<1>4. CASE GiveUp(p)
  BY <1>4, WorkerDone DEF GiveUp
<1>5. CASE WorkerExit(p)
  <2>1. /\ worker' = [worker EXCEPT ![p] = [worker[p] EXCEPT !.at = "exited"]]
        /\ worker[p].at = "idle"
    BY <1>5 DEF WorkerExit
  <2>2. \A r \in Entry : /\ worker'[r].job = worker[r].job
                         /\ worker'[r].at = IF r = p THEN "exited" ELSE worker[r].at
    BY <2>1 DEF Types, WorkerTypes
  <2>3. IdleHasNoJob'
    BY <1>5, <2>1, <2>2 DEF WorkerExit, ConservationInv, IdleHasNoJob
  <2> QED
    BY <1>5, <2>2, <2>3, NothingMoves DEF WorkerExit
<1> QED
  BY <1>1, <1>2, <1>3, <1>4, <1>5 DEF Work

(* Shutdown moves no job, and no more does a step that stutters.           *)
LEMMA StillnessBalance ==
  ASSUME Types, Types', ConservationInv, shutdown \/ UNCHANGED vars
  PROVE  ConservationInv'
<1> USE DEF callVars, enrichVars, channelVars, workerVars
<1>1. UNCHANGED <<issued, calling, refused, enrichCh, enricher, fan, ch, dropped,
                  worker, delivered, dead, filtered>>
  BY DEF shutdown, SetStopped, CloseEnrich, CloseProviders, ShutdownDone, vars
<1>2. IdleHasNoJob'
  BY <1>1 DEF ConservationInv, IdleHasNoJob
<1> QED
  BY <1>1, <1>2, NothingMoves

LEMMA NextBalance == Types /\ Types' /\ ConservationInv /\ [Next]_vars => ConservationInv'
<1> SUFFICES ASSUME Types, Types', ConservationInv, [Next]_vars PROVE ConservationInv'
  OBVIOUS
<1>1. ASSUME NEW c \in Caller, NEW n \in Notice, NotifyIncident(c, n) PROVE ConservationInv'
  BY <1>1, NotifyBalance
<1>2. ASSUME NEW c \in Caller, Place(c) PROVE ConservationInv'
  BY <1>2, EnqueueBalance, CallFanOutBalance, RefuseBalance DEF Place
<1>3. CASE fanOut
  BY <1>3, OfferBalance, EvictBalance, RefillBalance DEF fanOut
<1>4. CASE Enrichment \/ BreakerCooldown
  BY <1>4, EnrichmentBalance
<1>5. ASSUME NEW p \in Entry, Work(p) PROVE ConservationInv'
  BY <1>5, WorkBalance
<1>6. CASE shutdown \/ UNCHANGED vars
  BY <1>6, StillnessBalance
<1>7. CASE Terminated
  BY <1>7, StillnessBalance DEF Terminated
<1> QED
  BY <1>1, <1>2, <1>3, <1>4, <1>5, <1>6, <1>7 DEF Next

(* Every notification is, for every provider, in exactly one place at any  *)
(* time: none is lost between the goroutines and none handled twice, for   *)
(* any number of callers and providers and any capacities.                 *)
THEOREM AlwaysConserved == Spec => []Conservation
<1>1. Spec => []ConservationInv
  BY AlwaysTypes, InitBalance, NextBalance, PTL DEF Spec
<1>2. Types /\ ConservationInv => Conservation
  BY BalanceEnough DEF ConservationInv
<1> QED
  BY <1>1, <1>2, AlwaysTypes, PTL

-----------------------------------------------------------------------------
(***************************************************************************)
(* One story.  What was fanned out has left the callers and the enrichment *)
(* for good, so no job enters the story twice; and what a provider was told*)
(* last, what its worker holds, what its channel holds and the fan-out     *)
(* that has yet to reach it are in the order of the story.                 *)
(***************************************************************************)
LeftForGood ==
  \A i \in DOMAIN order, p \in Entry :
    ChannelSum(p, order[i].id) + WorkerSum(p, order[i].id) >= 1

LEMMA AppendType ==
  ASSUME NEW s \in Seq(Job), NEW x \in Job
  PROVE  /\ Len(s) \in Nat /\ DOMAIN s = 1 .. Len(s)
         /\ DOMAIN Append(s, x) = 1 .. Len(s) + 1
         /\ Append(s, x)[Len(s) + 1] = x
         /\ \A i \in 1 .. Len(s) : Append(s, x)[i] = s[i]
<1>1. Append(s, x) \in Seq(Job) /\ Len(Append(s, x)) = Len(s) + 1
  BY AppendProperties
<1>2. Append(s, x)[Len(s) + 1] = x /\ \A i \in 1 .. Len(s) : Append(s, x)[i] = s[i]
  BY AppendProperties
<1> QED
  BY <1>1, <1>2, LenProperties

LEMMA OrderType ==
  ASSUME Types
  PROVE  order \in Seq(Job) /\ \A i \in DOMAIN order : order[i] \in Job /\ order[i].id \in Id
<1>1. order \in Seq(Job)
  BY DEF Types, ChannelTypes
<1>2. \A i \in DOMAIN order : order[i] \in Job
  BY <1>1, LenProperties
<1> QED
  BY <1>1, <1>2 DEF Job

(* A job that starts to be fanned out was not fanned out before.           *)
LEMMA NewToStory ==
  ASSUME Types, Balance, LeftForGood, NEW job \in Job,
         CallSum(job.id) + EnrichSum(job.id) >= 1
  PROVE  \A i \in DOMAIN order : order[i].id # job.id
<1> SUFFICES ASSUME NEW i \in DOMAIN order, order[i].id = job.id PROVE FALSE
  OBVIOUS
<1>1. 1 \in Entry /\ job.id \in Id
  BY Sizes DEF Entry, Job
<1>2. ChannelSum(1, job.id) + WorkerSum(1, job.id) >= 1
  BY <1>1 DEF LeftForGood
<1>3. /\ CallSum(job.id) \in Nat /\ EnrichSum(job.id) \in Nat
      /\ ChannelSum(1, job.id) \in Nat /\ WorkerSum(1, job.id) \in Nat
      /\ CallSum(job.id) + EnrichSum(job.id) + ChannelSum(1, job.id) + WorkerSum(1, job.id) <= 1
  BY <1>1, SumsType, AtMostOne
<1> QED
  BY <1>2, <1>3

(* Both goroutines that start a fan-out hold its job.                      *)
LEMMA CallerHolds ==
  ASSUME Types, NEW c \in Caller, calling[c] # NoJob
  PROVE  CallSum(calling[c].job.id) + EnrichSum(calling[c].job.id) >= 1
<1> DEFINE id == calling[c].job.id
           S == {d \in Caller : HasCall(d, id)}
<1>1. id \in Id
  BY CallingJob DEF Types
<1>2. IsFiniteSet(S) /\ Calls(id) = Cardinality(S) /\ Calls(id) \in Nat
  BY CallsType DEF Calls
<1>3. S # {}
  BY DEF HasCall
<1>4. Calls(id) >= 1
  <2> HIDE DEF S
  <2>1. Calls(id) # 0
    BY <1>2, <1>3, FS_EmptySet
  <2> QED
    BY <1>2, <2>1
<1>5. One(id \in refused) \in Nat
  BY DEF One
<1>6. 1 \in Entry
  BY Sizes DEF Entry
<1>7. EnrichSum(id) \in Nat
  BY <1>1, <1>6, SumsType
<1> HIDE DEF id
<1>8. CallSum(id) >= 1 /\ CallSum(id) \in Nat
  BY <1>2, <1>4, <1>5 DEF CallSum
<1>9. CallSum(id) + EnrichSum(id) >= 1
  BY <1>7, <1>8
<1> QED
  BY <1>9 DEF id

LEMMA EnricherHolds ==
  ASSUME Types, enricher.job \in Job
  PROVE  CallSum(enricher.job.id) + EnrichSum(enricher.job.id) >= 1
<1> DEFINE id == enricher.job.id
<1>1. id \in Id /\ 1 \in Entry
  BY Sizes DEF Job, Entry
<1>2. One(Has(enricher.job, id)) = 1
  BY Sentinel DEF One, Has
<1>3. Occurrences(enrichCh, id) \in Nat
  BY OccurrencesType DEF Types, EnrichTypes
<1>4. CallSum(id) \in Nat
  BY <1>1, SumsType
<1> HIDE DEF id
<1>5. CallSum(id) + EnrichSum(id) >= 1
  BY <1>2, <1>3, <1>4 DEF EnrichSum
<1> QED
  BY <1>5 DEF id

(* A fan-out that starts adds its job to the story.                        *)
LEMMA StartFanLeaves ==
  ASSUME Types, Types', LeftForGood, NEW by \in Caller \cup {Enricher}, NEW job \in Job,
         StartFan(by, job), UNCHANGED <<ch, dropped, worker, delivered, dead, filtered>>
  PROVE  LeftForGood'
<1> SUFFICES ASSUME NEW i \in DOMAIN order', NEW p \in Entry
             PROVE  (ChannelSum(p, order[i].id) + WorkerSum(p, order[i].id) >= 1)'
  BY DEF LeftForGood
<1>1. order' = Append(order, job) /\ order \in Seq(Job)
  BY OrderType DEF StartFan
<1>2. PICK id : id = order'[i].id
  OBVIOUS
<1>3. /\ DOMAIN order' = 1 .. Len(order) + 1 /\ DOMAIN order = 1 .. Len(order)
      /\ order'[Len(order) + 1] = job /\ Len(order) \in Nat
      /\ \A j \in 1 .. Len(order) : order'[j] = order[j]
  BY <1>1, AppendType
<1>4. id \in Id
  <2>1. order'[i] \in Job
    BY <1>1, <1>3, OrderType
  <2> QED
    BY <1>2, <2>1 DEF Job
<1>5. ChannelSum(p, id)' = ChannelSum(p, id) + One(job.id = id)
  BY <1>4, FanStarts
<1>6. WorkerSum(p, id)' = WorkerSum(p, id)
  BY WorkerSumFrame
<1>7. ChannelSum(p, id) \in Nat /\ WorkerSum(p, id) \in Nat
  BY <1>4, SumsType
<1>8. CASE i = Len(order) + 1
  <2>1. One(job.id = id) = 1
    BY <1>2, <1>3, <1>8 DEF One
  <2>2. ChannelSum(p, id)' + WorkerSum(p, id)' >= 1
    BY <1>5, <1>6, <1>7, <2>1
  <2> QED
    BY <1>2, <2>2
<1>9. CASE i # Len(order) + 1
  <2>1. i \in DOMAIN order /\ order'[i] = order[i]
    BY <1>3, <1>9
  <2>2. ChannelSum(p, id) + WorkerSum(p, id) >= 1
    BY <1>2, <2>1 DEF LeftForGood
  <2>3. One(job.id = id) \in Nat
    BY DEF One
  <2>4. ChannelSum(p, id)' + WorkerSum(p, id)' >= 1
    BY <1>5, <1>6, <1>7, <2>2, <2>3
  <2> QED
    BY <1>2, <2>4
<1> QED
  BY <1>8, <1>9

(* Any other step leaves one side of the sum alone.                        *)
LEMMA StaysLeft ==
  ASSUME Types, Types', ConservationInv, ConservationInv', LeftForGood, order' = order,
         \/ UNCHANGED <<fan, ch, dropped, worker, delivered, dead, filtered>>
         \/ UNCHANGED <<issued, calling, refused, enrichCh, enricher>>
  PROVE  LeftForGood'
<1> SUFFICES ASSUME NEW i \in DOMAIN order, NEW p \in Entry
             PROVE  (ChannelSum(p, order[i].id) + WorkerSum(p, order[i].id) >= 1)'
  BY DEF LeftForGood
<1>1. PICK id : id = order[i].id
  OBVIOUS
<1>2. id \in Id
  BY <1>1, OrderType
<1>3. ChannelSum(p, id) + WorkerSum(p, id) >= 1
  BY <1>1 DEF LeftForGood
<1>4. ChannelSum(p, id)' + WorkerSum(p, id)' >= 1
  <2>1. CASE UNCHANGED <<fan, ch, dropped, worker, delivered, dead, filtered>>
    <3>1. ChannelSum(p, id)' = ChannelSum(p, id) /\ WorkerSum(p, id)' = WorkerSum(p, id)
      BY <2>1, ChannelSumFrame, WorkerSumFrame
    <3> QED
      BY <1>3, <3>1
  <2>2. CASE UNCHANGED <<issued, calling, refused, enrichCh, enricher>>
    <3>1. CallSum(id)' = CallSum(id) /\ EnrichSum(id)' = EnrichSum(id)
      BY <2>2, CallSumFrame, EnrichSumFrame
    <3>2. Places(p, id)' = Places(p, id)
      <4>1. Places(p, id)' = One(id <= issued)' /\ Places(p, id) = One(id <= issued)
        BY <1>2 DEF ConservationInv, Balance
      <4>2. One(id <= issued)' = One(id <= issued)
        BY <2>2 DEF One
      <4> QED
        BY <4>1, <4>2
    <3>3. /\ Places(p, id) = CallSum(id) + EnrichSum(id) + ChannelSum(p, id) + WorkerSum(p, id)
          /\ CallSum(id) \in Nat /\ EnrichSum(id) \in Nat
          /\ ChannelSum(p, id) \in Nat /\ WorkerSum(p, id) \in Nat
      BY <1>2, SumsType
    <3>4. /\ Places(p, id)'
               = CallSum(id)' + EnrichSum(id)' + ChannelSum(p, id)' + WorkerSum(p, id)'
          /\ ChannelSum(p, id)' \in Nat /\ WorkerSum(p, id)' \in Nat
      BY <1>2, SumsNext
    <3> QED
      BY <1>3, <3>1, <3>2, <3>3, <3>4
  <2> QED
    BY <2>1, <2>2
<1> QED
  BY <1>1, <1>4

LEMMA NextLeft ==
  Types /\ Types' /\ ConservationInv /\ ConservationInv' /\ LeftForGood /\ [Next]_vars
    => LeftForGood'
<1> SUFFICES ASSUME Types, Types', ConservationInv, ConservationInv', LeftForGood, [Next]_vars
             PROVE  LeftForGood'
  OBVIOUS
<1> USE DEF callVars, enrichVars, channelVars, workerVars
<1>1. ASSUME NEW c \in Caller, NEW n \in Notice, NotifyIncident(c, n) PROVE LeftForGood'
  BY <1>1, StaysLeft DEF NotifyIncident
<1>2. ASSUME NEW c \in Caller, Enqueue(c) \/ Refuse(c) PROVE LeftForGood'
  BY <1>2, StaysLeft DEF Enqueue, Refuse
<1>3. ASSUME NEW c \in Caller, CallFanOut(c) PROVE LeftForGood'
  <2>1. calling[c].job \in Job
    BY <1>3, CallingJob DEF CallFanOut, At, Types
  <2> QED
    BY <1>3, <2>1, StartFanLeaves DEF CallFanOut
<1>4. CASE fanOut
  BY <1>4, StaysLeft DEF fanOut, Offer, Evict, Refill
<1>5. CASE EnricherReceive \/ enrichOne \/ EnricherExit \/ BreakerCooldown
  BY <1>5, StaysLeft DEF EnricherReceive, enrichOne, EnricherExit, BreakerCooldown
<1>6. CASE EnricherFanOut
  <2>1. enricher.job \in Job
    BY <1>6 DEF EnricherFanOut, Types, EnrichTypes
  <2> QED
    BY <1>6, <2>1, StartFanLeaves DEF EnricherFanOut
<1>7. ASSUME NEW p \in Entry, Work(p) PROVE LeftForGood'
  BY <1>7, StaysLeft DEF Work, Receive, SendSucceeds, SendFails, GiveUp, WorkerExit
<1>8. CASE shutdown \/ Terminated \/ UNCHANGED vars
  BY <1>8, StaysLeft
     DEF shutdown, SetStopped, CloseEnrich, CloseProviders, ShutdownDone, Terminated, vars
<1> QED
  BY <1>1, <1>2, <1>3, <1>4, <1>5, <1>6, <1>7, <1>8 DEF Next, Place, Enrichment

(***************************************************************************)
(* The places of provider p in the order in which a job passes them, the   *)
(* last one first: what p was told last, its worker, its channel from the  *)
(* head and the fan-out on its way to p.  InLine says that job x is in the *)
(* s-th of them.  A job that p was told and its worker still holds, to try *)
(* again, is with the worker.                                              *)
(***************************************************************************)
InLine(p, s, x) ==
  \/ s = 1 /\ got[p] # <<>> /\ x = got[p][Len(got[p])] /\ x # worker[p].job
  \/ s = 2 /\ worker[p].job # NoJob /\ x = worker[p].job
  \/ s - 2 \in 1 .. Len(ch[p]) /\ x = ch[p][s - 2]
  \/ s = Len(ch[p]) + 3 /\ fan # NoFan /\ fan.entry <= p /\ x = fan.job

InStory(x) == \E k \in DOMAIN order : order[k] = x
Before(x, y) == \E k, l \in DOMAIN order : k < l /\ order[k] = x /\ order[l] = y

LineInv ==
  \A p \in Entry :
    /\ \A s \in Nat : \A x : InLine(p, s, x) => InStory(x)
    /\ \A s, t \in Nat : \A x, y : s < t /\ InLine(p, s, x) /\ InLine(p, t, y) => Before(x, y)

StoryInv == LeftForGood /\ LineInv

(***************************************************************************)
(* A step that only moves jobs down the line: whoever is in place s was in *)
(* place m[s], and nobody overtakes.                                       *)
(***************************************************************************)
LEMMA LineMoves ==
  ASSUME LineInv, NEW p \in Entry, order' = order, NEW m,
         \A s \in Nat : \A x : InLine(p, s, x)' => m[s] \in Nat /\ InLine(p, m[s], x),
         \A s, t \in Nat : \A x, y :
           s < t /\ InLine(p, s, x)' /\ InLine(p, t, y)' => m[s] < m[t]
  PROVE  /\ \A s \in Nat : \A x : InLine(p, s, x)' => InStory(x)'
         /\ \A s, t \in Nat : \A x, y :
              s < t /\ InLine(p, s, x)' /\ InLine(p, t, y)' => Before(x, y)'
<1>1. ASSUME NEW s \in Nat, NEW x, InLine(p, s, x)' PROVE InStory(x)'
  <2>1. InStory(x)
    BY <1>1 DEF LineInv
  <2> QED
    BY <2>1 DEF InStory
<1>2. ASSUME NEW s \in Nat, NEW t \in Nat, NEW x, NEW y, s < t, InLine(p, s, x)', InLine(p, t, y)'
      PROVE  Before(x, y)'
  <2>1. /\ m[s] \in Nat /\ m[t] \in Nat /\ m[s] < m[t]
        /\ InLine(p, m[s], x) /\ InLine(p, m[t], y)
    BY <1>2
  <2>2. Before(x, y)
    BY <2>1 DEF LineInv
  <2> QED
    BY <2>2 DEF Before
<1> QED
  BY <1>1, <1>2

(* Nobody moves.                                                           *)
LEMMA LineStays ==
  ASSUME LineInv, NEW p \in Entry, order' = order,
         \A s \in Nat : \A x : InLine(p, s, x)' => InLine(p, s, x)
  PROVE  /\ \A s \in Nat : \A x : InLine(p, s, x)' => InStory(x)'
         /\ \A s, t \in Nat : \A x, y :
              s < t /\ InLine(p, s, x)' /\ InLine(p, t, y)' => Before(x, y)'
<1>1. ASSUME NEW s \in Nat, NEW x, InLine(p, s, x)' PROVE InStory(x)'
  <2>1. InStory(x)
    BY <1>1 DEF LineInv
  <2> QED
    BY <2>1 DEF InStory
<1>2. ASSUME NEW s \in Nat, NEW t \in Nat, NEW x, NEW y, s < t, InLine(p, s, x)', InLine(p, t, y)'
      PROVE  Before(x, y)'
  <2>1. Before(x, y)
    BY <1>2 DEF LineInv
  <2> QED
    BY <2>1 DEF Before
<1> QED
  BY <1>1, <1>2

LEMMA LineFrame ==
  ASSUME LineInv, UNCHANGED <<order, fan, ch, got>>,
         \A p \in Entry : worker'[p].job = worker[p].job
  PROVE  LineInv'
<1> SUFFICES ASSUME NEW p \in Entry
    PROVE  /\ \A s \in Nat : \A x : InLine(p, s, x)' => InStory(x)'
           /\ \A s, t \in Nat : \A x, y :
                s < t /\ InLine(p, s, x)' /\ InLine(p, t, y)' => Before(x, y)'
  BY DEF LineInv
<1>1. ASSUME NEW s \in Nat, NEW x, InLine(p, s, x)' PROVE InLine(p, s, x)
  BY <1>1 DEF InLine
<1> QED
  BY <1>1, LineStays

(* A fan-out that starts: its job comes last, in the story and in line.    *)
LEMMA StartFanLine ==
  ASSUME Types, LineInv, NEW by, NEW job \in Job, StartFan(by, job),
         UNCHANGED <<ch, got, worker>>
  PROVE  LineInv'
<1>1. /\ fan = NoFan /\ fan'.job = job
      /\ order' = Append(order, job) /\ order \in Seq(Job)
  BY OrderType DEF StartFan, Unlocked
<1>2. /\ DOMAIN order' = 1 .. Len(order) + 1 /\ DOMAIN order = 1 .. Len(order)
      /\ order'[Len(order) + 1] = job /\ Len(order) \in Nat
      /\ \A j \in 1 .. Len(order) : order'[j] = order[j]
  BY <1>1, AppendType
<1>3. ASSUME NEW x, InStory(x) PROVE InStory(x)' /\ Before(x, job)'
  <2>1. PICK k \in DOMAIN order : order[k] = x
    BY <1>3 DEF InStory
  <2>2. /\ k \in DOMAIN order' /\ order'[k] = x /\ Len(order) + 1 \in DOMAIN order'
        /\ k < Len(order) + 1
    BY <1>2, <2>1
  <2> QED
    BY <1>2, <2>2 DEF InStory, Before
<1>4. ASSUME NEW x, NEW y, Before(x, y) PROVE Before(x, y)'
  <2>1. PICK k, l \in DOMAIN order : k < l /\ order[k] = x /\ order[l] = y
    BY <1>4 DEF Before
  <2>2. /\ k \in DOMAIN order' /\ l \in DOMAIN order' /\ order'[k] = x /\ order'[l] = y
    BY <1>2, <2>1
  <2> QED
    BY <2>1, <2>2 DEF Before
<1>5. InStory(job)'
  <2>1. Len(order) + 1 \in DOMAIN order'
    BY <1>2
  <2> QED
    BY <1>2, <2>1 DEF InStory
<1>6. ASSUME NEW p \in Entry, NEW s \in Nat, NEW x, InLine(p, s, x)'
      PROVE  InLine(p, s, x) \/ (s = Len(ch[p]) + 3 /\ x = job)
  BY <1>1, <1>6 DEF InLine
<1>7. ASSUME NEW p \in Entry, NEW s \in Nat, NEW x, InLine(p, s, x) PROVE s < Len(ch[p]) + 3
  <2>1. Len(ch[p]) \in Nat
    BY LenProperties DEF Types, ChannelTypes
  <2>2. s = 1 \/ s = 2 \/ s - 2 \in 1 .. Len(ch[p])
    BY <1>1, <1>7 DEF InLine
  <2> QED
    BY <2>1, <2>2
<1>8. ASSUME NEW p \in Entry, NEW s \in Nat, NEW x, InLine(p, s, x)' PROVE InStory(x)'
  BY <1>3, <1>5, <1>6, <1>8 DEF LineInv
<1>9. ASSUME NEW p \in Entry, NEW s \in Nat, NEW t \in Nat, NEW x, NEW y,
             s < t, InLine(p, s, x)', InLine(p, t, y)'
      PROVE  Before(x, y)'
  <2>1. CASE InLine(p, s, x) /\ InLine(p, t, y)
    <3>1. Before(x, y)
      BY <1>9, <2>1 DEF LineInv
    <3> QED
      BY <1>4, <3>1
  <2>2. CASE InLine(p, s, x) /\ y = job
    <3>1. InStory(x)
      BY <2>2 DEF LineInv
    <3> QED
      BY <1>3, <2>2, <3>1
  <2>3. CASE ~ InLine(p, s, x)
    <3>1. s = Len(ch[p]) + 3 /\ Len(ch[p]) \in Nat
      BY <1>6, <1>9, <2>3, LenProperties DEF Types, ChannelTypes
    <3>2. t <= Len(ch[p]) + 3
      BY <1>6, <1>7, <1>9, <3>1
    <3> QED
      BY <1>9, <3>1, <3>2
  <2> QED
    BY <1>6, <1>9, <2>1, <2>2, <2>3
<1> QED
  BY <1>8, <1>9 DEF LineInv

(* The job a fan-out puts into a channel keeps its place: it was behind    *)
(* the channel and is its tail.                                            *)
LEMMA FanPutsLine ==
  ASSUME Types, LineInv, fan # NoFan, fan' = NextEntry,
         \/ Put(fan.entry)
         \/ ch' = ch,
         UNCHANGED <<order, got, worker>>
  PROVE  LineInv'
<1>1. fan \in Fan /\ fan.entry \in 1 .. Entries /\ fan.job \in Job
  BY FanType DEF Types, Entry
<1>2. ASSUME fan' # NoFan PROVE fan'.entry = fan.entry + 1 /\ fan'.job = fan.job
  BY <1>1, <1>2 DEF NextEntry, Fan
<1> SUFFICES ASSUME NEW p \in Entry
    PROVE  /\ \A s \in Nat : \A x : InLine(p, s, x)' => InStory(x)'
           /\ \A s, t \in Nat : \A x, y :
                s < t /\ InLine(p, s, x)' /\ InLine(p, t, y)' => Before(x, y)'
  BY DEF LineInv
<1>3. p \in 1 .. Entries /\ ch[p] \in Seq(Job) /\ Len(ch[p]) \in Nat
  BY LenProperties DEF Entry, Types, ChannelTypes
<1>4. \/ ch'[p] = ch[p]
      \/ p = fan.entry /\ ch'[p] = Append(ch[p], fan.job)
  BY <1>1 DEF Put, Types, ChannelTypes, Entry
<1>5. ASSUME NEW s \in Nat, NEW x, InLine(p, s, x)' PROVE InLine(p, s, x)
  <2>1. CASE ch'[p] = ch[p]
    <3>1. fan' # NoFan /\ fan'.entry <= p => fan.entry <= p /\ fan'.job = fan.job
      BY <1>1, <1>2, <1>3
    <3> QED
      BY <1>5, <2>1, <3>1 DEF InLine
  <2>2. CASE p = fan.entry /\ ch'[p] = Append(ch[p], fan.job)
    <3>1. /\ Len(ch'[p]) = Len(ch[p]) + 1 /\ ch'[p][Len(ch[p]) + 1] = fan.job
          /\ \A j \in 1 .. Len(ch[p]) : ch'[p][j] = ch[p][j]
      BY <1>1, <1>3, <2>2, AppendProperties
    <3>2. ~ (fan' # NoFan /\ fan'.entry <= p)
      BY <1>1, <1>2, <2>2
    <3>3. CASE s - 2 \in 1 .. Len(ch'[p]) /\ x = ch'[p][s - 2]
      <4>1. CASE s - 2 \in 1 .. Len(ch[p])
        BY <3>1, <3>3, <4>1 DEF InLine
      <4>2. CASE s - 2 \notin 1 .. Len(ch[p])
        <5>1. s - 2 = Len(ch[p]) + 1
          BY <1>3, <3>1, <3>3, <4>2
        <5>2. s = Len(ch[p]) + 3 /\ x = fan.job /\ fan.entry <= p
          BY <1>1, <1>3, <2>2, <3>1, <3>3, <5>1
        <5> QED
          BY <5>2 DEF InLine
      <4> QED
        BY <4>1, <4>2
    <3>4. CASE ~ (s - 2 \in 1 .. Len(ch'[p]) /\ x = ch'[p][s - 2])
      BY <1>5, <3>2, <3>4 DEF InLine
    <3> QED
      BY <3>3, <3>4
  <2> QED
    BY <1>4, <2>1, <2>2
<1> QED
  BY <1>5, LineStays

(* What a provider was told last is a job.                                 *)
LEMMA LastTold ==
  ASSUME Types, NEW p \in Entry, got[p] # <<>>
  PROVE  got[p][Len(got[p])] \in Job
<1>1. got[p] \in Seq(Job) /\ got[p] # <<>>
  BY DEF Types, WorkerTypes
<1>2. Len(got[p]) \in 1 .. Len(got[p])
  BY <1>1, EmptySeq, LenProperties
<1> QED
  BY <1>1, <1>2, LenProperties

(* A job taken from the head of a channel for good, or for the worker.     *)
LEMMA TakenLine ==
  ASSUME Types, LineInv, NEW q \in Entry, ch[q] # <<>>, ch' = [ch EXCEPT ![q] = Tail(@)],
         UNCHANGED <<order, got>>,
         fan' = fan \/ (fan # NoFan /\ fan' = [fan EXCEPT !.step = "refill"]),
         \/ worker' = worker
         \/ /\ worker[q].job = NoJob
            /\ worker' = [worker EXCEPT ![q] =
                            [at |-> "sending", job |-> Head(ch[q]), attempt |-> 1]]
  PROVE  LineInv'
<1>1. fan' # NoFan => fan # NoFan /\ fan'.job = fan.job /\ fan'.entry = fan.entry
  BY FanType DEF Types, Fan
<1> SUFFICES ASSUME NEW p \in Entry
    PROVE  /\ \A s \in Nat : \A x : InLine(p, s, x)' => InStory(x)'
           /\ \A s, t \in Nat : \A x, y :
                s < t /\ InLine(p, s, x)' /\ InLine(p, t, y)' => Before(x, y)'
  BY DEF LineInv
<1>2. CASE p # q
  <2>1. ch'[p] = ch[p] /\ worker'[p] = worker[p]
    BY <1>2 DEF Types, ChannelTypes, WorkerTypes
  <2>2. ASSUME NEW s \in Nat, NEW x, InLine(p, s, x)' PROVE InLine(p, s, x)
    BY <1>1, <2>1, <2>2 DEF InLine
  <2> QED
    BY <2>2, LineStays
<1>3. CASE p = q
  <2>1. ch'[p] = Tail(ch[p]) /\ ch[p] \in Seq(Job) /\ ch[p] # <<>>
    BY <1>3 DEF Types, ChannelTypes
  <2>2. /\ Len(ch'[p]) = Len(ch[p]) - 1 /\ Len(ch[p]) \in Nat \ {0} /\ Head(ch[p]) = ch[p][1]
        /\ \A j \in 1 .. Len(ch'[p]) : ch'[p][j] = ch[p][j + 1]
    <3>1. /\ Len(Tail(ch[p])) = Len(ch[p]) - 1 /\ Head(ch[p]) = ch[p][1]
          /\ \A j \in 1 .. Len(Tail(ch[p])) : Tail(ch[p])[j] = ch[p][j + 1]
      BY <2>1, HeadTailProperties
    <3>2. Len(ch[p]) \in Nat \ {0}
      BY <2>1, TakeType
    <3> QED
      BY <2>1, <3>1, <3>2
  <2>3. ASSUME NEW s \in Nat, NEW x, InLine(p, s, x)', s > 2 PROVE InLine(p, s + 1, x)
    <3>1. CASE s - 2 \in 1 .. Len(ch'[p]) /\ x = ch'[p][s - 2]
      <4>1. (s + 1) - 2 \in 1 .. Len(ch[p]) /\ (s - 2) + 1 = (s + 1) - 2
        BY <2>2, <3>1
      <4>2. x = ch[p][(s - 2) + 1]
        BY <2>2, <3>1
      <4>3. x = ch[p][(s + 1) - 2]
        BY <4>1, <4>2
      <4> QED
        BY <4>1, <4>3 DEF InLine
    <3>2. CASE s = Len(ch'[p]) + 3 /\ fan' # NoFan /\ fan'.entry <= p /\ x = fan'.job
      <4>1. s + 1 = Len(ch[p]) + 3
        BY <2>2, <3>2
      <4> QED
        BY <1>1, <3>2, <4>1 DEF InLine
    <3> QED
      BY <2>3, <3>1, <3>2 DEF InLine
  <2>4. ASSUME NEW s \in Nat, NEW x, InLine(p, s, x)', s <= 2
        PROVE  \/ s = 1 /\ InLine(p, 1, x)
               \/ s = 2 /\ x = worker'[p].job /\ x # NoJob
    <3>1. ~ (s - 2 \in 1 .. Len(ch'[p])) /\ s # Len(ch'[p]) + 3
      BY <2>2, <2>4
    <3>2. \/ s = 1 /\ got'[p] # <<>> /\ x = got'[p][Len(got'[p])]
          \/ s = 2 /\ worker'[p].job # NoJob /\ x = worker'[p].job
      BY <2>4, <3>1 DEF InLine
    <3>3. got' = got
      OBVIOUS
    <3>4. CASE s = 1 /\ got[p] # <<>> /\ x = got[p][Len(got[p])]
      <4>1. x \in Job
        BY <3>4, LastTold
      <4>2. x # worker[p].job
        <5>1. CASE worker' = worker
          <6>1. s = 1 => x # worker'[p].job
            BY <2>2, <2>4, <3>1, <3>4 DEF InLine
          <6> QED
            BY <3>4, <5>1, <6>1
        <5>2. CASE worker[q].job = NoJob
          BY <1>3, <4>1, <5>2, Sentinel
        <5> QED
          BY <5>1, <5>2
      <4> QED
        BY <3>4, <4>2 DEF InLine
    <3> QED
      BY <3>2, <3>3, <3>4
  <2>5. CASE worker' = worker
    <3> DEFINE m == [s \in Nat |-> IF s <= 2 THEN s ELSE s + 1]
    <3>1. \A s \in Nat : m[s] = (IF s <= 2 THEN s ELSE s + 1) /\ m[s] \in Nat
      OBVIOUS
    <3>2. \A s, t \in Nat : s < t => m[s] < m[t]
      BY <3>1
    <3>3. ASSUME NEW s \in Nat, NEW x, InLine(p, s, x)' PROVE InLine(p, m[s], x)
      <4>1. CASE s <= 2
        <5>1. m[s] = s
          BY <3>1, <4>1
        <5>2. InLine(p, s, x)
          BY <2>4, <2>5, <3>3, <4>1 DEF InLine
        <5> QED
          BY <5>1, <5>2
      <4>2. CASE ~ (s <= 2)
        <5>1. m[s] = s + 1 /\ s > 2
          BY <3>1, <4>2
        <5> QED
          BY <2>3, <3>3, <5>1
      <4> QED
        BY <4>1, <4>2
    <3> HIDE DEF m
    <3> QED
      BY <3>1, <3>2, <3>3, LineMoves
  <2>6. CASE worker' = [worker EXCEPT ![q] =
                          [at |-> "sending", job |-> Head(ch[q]), attempt |-> 1]]
    <3> DEFINE m == [s \in Nat |-> IF s <= 1 THEN s ELSE s + 1]
    <3>1. \A s \in Nat : m[s] = (IF s <= 1 THEN s ELSE s + 1) /\ m[s] \in Nat
      OBVIOUS
    <3>2. \A s, t \in Nat : s < t => m[s] < m[t]
      BY <3>1
    <3>3. worker'[p].job = ch[p][1]
      BY <1>3, <2>2, <2>6 DEF Types, WorkerTypes
    <3>4. ASSUME NEW s \in Nat, NEW x, InLine(p, s, x)' PROVE InLine(p, m[s], x)
      <4>1. CASE s <= 2
        <5>1. CASE s = 1 /\ InLine(p, 1, x)
          <6>1. m[s] = 1
            BY <3>1, <5>1
          <6> QED
            BY <5>1, <6>1
        <5>2. CASE s = 2 /\ x = worker'[p].job
          <6>1. m[s] = 3
            BY <3>1, <5>2
          <6>2. 3 - 2 \in 1 .. Len(ch[p]) /\ x = ch[p][3 - 2]
            BY <2>2, <3>3, <5>2
          <6> QED
            BY <6>1, <6>2 DEF InLine
        <5> QED
          BY <2>4, <3>4, <4>1, <5>1, <5>2
      <4>2. CASE ~ (s <= 2)
        <5>1. m[s] = s + 1 /\ s > 2
          BY <3>1, <4>2
        <5> QED
          BY <2>3, <3>4, <5>1
      <4> QED
        BY <4>1, <4>2
    <3> HIDE DEF m
    <3> QED
      BY <3>1, <3>2, <3>4, LineMoves
  <2> QED
    BY <2>5, <2>6
<1> QED
  BY <1>2, <1>3

(* What the provider was told last once an attempt is over.                *)
LEMMA AttemptTells ==
  ASSUME Types, NEW q \in Entry, worker[q].at = "sending", Attempted(q)
  PROVE  /\ worker[q].job \in Job /\ worker[q].job # NoJob
         /\ \A p \in Entry : p # q => got'[p] = got[p]
         /\ \/ got'[q] = got[q]
            \/ got'[q] # <<>> /\ got'[q][Len(got'[q])] = worker[q].job
<1>1. WorkerTypes /\ worker[q].job \in Job /\ got[q] \in Seq(Job)
  BY DEF Types, WorkerTypes
<1>2. got' = got \/ got' = [got EXCEPT ![q] = Append(@, worker[q].job)]
  BY <1>1, AttemptedTypes
<1>3. got \in [Entry -> Seq(Job)]
  BY <1>1 DEF WorkerTypes
<1>4. CASE got' = [got EXCEPT ![q] = Append(@, worker[q].job)]
  <2>1. got'[q] = Append(got[q], worker[q].job) /\ \A p \in Entry : p # q => got'[p] = got[p]
    BY <1>3, <1>4
  <2>2. /\ Len(Append(got[q], worker[q].job)) = Len(got[q]) + 1
        /\ Append(got[q], worker[q].job)[Len(got[q]) + 1] = worker[q].job
        /\ Append(got[q], worker[q].job) # <<>>
    BY <1>1, AppendProperties
  <2> QED
    BY <1>1, <2>1, <2>2, Sentinel
<1> QED
  BY <1>1, <1>2, <1>4, Sentinel

(* An attempt that is to be repeated leaves the job with the worker.       *)
LEMMA AgainLine ==
  ASSUME Types, LineInv, NEW q \in Entry, worker[q].at = "sending", Attempted(q),
         UNCHANGED <<order, fan, ch>>, \A p \in Entry : worker'[p].job = worker[p].job
  PROVE  LineInv'
<1> SUFFICES ASSUME NEW p \in Entry
    PROVE  /\ \A s \in Nat : \A x : InLine(p, s, x)' => InStory(x)'
           /\ \A s, t \in Nat : \A x, y :
                s < t /\ InLine(p, s, x)' /\ InLine(p, t, y)' => Before(x, y)'
  BY DEF LineInv
<1>1. worker'[p].job = worker[p].job /\ ch'[p] = ch[p] /\ fan' = fan
  OBVIOUS
<1>2. \/ got'[p] = got[p]
      \/ got'[p] # <<>> /\ got'[p][Len(got'[p])] = worker[p].job
  BY AttemptTells
<1>3. ASSUME NEW s \in Nat, NEW x, InLine(p, s, x)' PROVE InLine(p, s, x)
  <2>1. CASE got'[p] = got[p]
    BY <1>1, <1>3, <2>1 DEF InLine
  <2>2. CASE got'[p] # <<>> /\ got'[p][Len(got'[p])] = worker[p].job
    BY <1>1, <1>3, <2>2 DEF InLine
  <2> QED
    BY <1>2, <2>1, <2>2
<1> QED
  BY <1>3, LineStays

(* A worker that is done: its job, if the provider was told of it, becomes *)
(* what it was told last.                                                  *)
LEMMA DoneLine ==
  ASSUME Types, LineInv, NEW q \in Entry, worker[q].at = "sending", Attempted(q),
         worker' = [worker EXCEPT ![q] = IdleWorker], UNCHANGED <<order, fan, ch>>
  PROVE  LineInv'
<1> SUFFICES ASSUME NEW p \in Entry
    PROVE  /\ \A s \in Nat : \A x : InLine(p, s, x)' => InStory(x)'
           /\ \A s, t \in Nat : \A x, y :
                s < t /\ InLine(p, s, x)' /\ InLine(p, t, y)' => Before(x, y)'
  BY DEF LineInv
<1>1. worker[q].job \in Job /\ worker[q].job # NoJob
  BY AttemptTells
<1>2. CASE p # q
  <2>1. got'[p] = got[p] /\ worker'[p] = worker[p]
    BY <1>2, AttemptTells DEF Types, WorkerTypes
  <2>2. ASSUME NEW s \in Nat, NEW x, InLine(p, s, x)' PROVE InLine(p, s, x)
    BY <2>1, <2>2 DEF InLine
  <2> QED
    BY <2>2, LineStays
<1>3. CASE p = q
  <2>1. worker'[p].job = NoJob /\ ch'[p] = ch[p] /\ fan' = fan
    BY <1>3 DEF Types, WorkerTypes, IdleWorker
  <2>2. \/ got'[p] = got[p]
        \/ got'[p] # <<>> /\ got'[p][Len(got'[p])] = worker[p].job
    BY <1>3, AttemptTells
  <2>3. Len(ch[p]) \in Nat
    BY LenProperties DEF Types, ChannelTypes
  <2> DEFINE first == IF got'[p][Len(got'[p])] = worker[p].job THEN 2 ELSE 1
             m == [s \in Nat |-> IF s = 1 THEN first ELSE s]
  <2>4. first \in {1, 2} /\ \A s \in Nat : m[s] = (IF s = 1 THEN first ELSE s) /\ m[s] \in Nat
    OBVIOUS
  <2>5. ASSUME NEW s \in Nat, NEW x, InLine(p, s, x)' PROVE s # 2 /\ InLine(p, m[s], x)
    <3>1. s # 2
      BY <2>1, <2>3, <2>5 DEF InLine
    <3>2. CASE s = 1
      <4>1. got'[p] # <<>> /\ x = got'[p][Len(got'[p])] /\ m[s] = first
        BY <2>1, <2>3, <2>4, <2>5, <3>2 DEF InLine
      <4>2. CASE x = worker[p].job
        <5>1. first = 2 /\ InLine(p, 2, x)
          BY <1>1, <1>3, <4>1, <4>2 DEF InLine
        <5> HIDE DEF m, first
        <5> QED
          BY <3>1, <4>1, <5>1
      <4>3. CASE x # worker[p].job
        <5>1. first = 1 /\ got'[p] = got[p]
          BY <2>2, <4>1, <4>3
        <5>2. InLine(p, 1, x)
          BY <4>1, <4>3, <5>1 DEF InLine
        <5> HIDE DEF m, first
        <5> QED
          BY <3>1, <4>1, <5>1, <5>2
      <4> QED
        BY <4>2, <4>3
    <3>3. CASE s # 1
      <4>1. m[s] = s
        BY <2>4, <3>3
      <4>2. InLine(p, s, x)
        BY <2>1, <2>5, <3>1, <3>3 DEF InLine
      <4> HIDE DEF m, first
      <4> QED
        BY <3>1, <4>1, <4>2
    <3> QED
      BY <3>2, <3>3
  <2>6. ASSUME NEW s \in Nat, NEW t \in Nat, NEW x, NEW y,
               s < t, InLine(p, s, x)', InLine(p, t, y)'
        PROVE  m[s] < m[t]
    <3>1. s # 2 /\ t # 2
      BY <2>5, <2>6
    <3>2. m[s] = (IF s = 1 THEN first ELSE s) /\ m[t] = (IF t = 1 THEN first ELSE t)
      BY <2>4
    <3>3. s = 0 \/ s >= 1
      OBVIOUS
    <3> HIDE DEF m, first
    <3>4. s # 0
      <4>1. ~ InLine(p, 0, x)'
        BY <2>1, <2>3 DEF InLine
      <4> QED
        BY <2>6, <4>1
    <3> QED
      BY <2>4, <2>6, <3>1, <3>2, <3>3, <3>4
  <2> HIDE DEF m, first
  <2> QED
    BY <2>4, <2>5, <2>6, LineMoves
<1> QED
  BY <1>2, <1>3

LEMMA fanOutLine ==
  ASSUME Types, LineInv, fanOut
  PROVE  LineInv'
<1> USE DEF workerVars
<1>1. CASE Offer
  <2>1. fan # NoFan /\ UNCHANGED <<order, got, worker>>
    BY <1>1 DEF Offer, AtStep
  <2>2. CASE Room(fan.entry)
    BY <1>1, <2>1, <2>2, FanPutsLine DEF Offer
  <2>3. CASE ~ Room(fan.entry)
    <3>1. fan' = [fan EXCEPT !.step = "evict"] /\ ch' = ch
      BY <1>1, <2>3 DEF Offer
    <3>2. fan'.job = fan.job /\ fan'.entry = fan.entry
      BY <2>1, <3>1, FanType DEF Types, Fan
    <3>3. ASSUME NEW p \in Entry, NEW s \in Nat, NEW x, InLine(p, s, x)' PROVE InLine(p, s, x)
      BY <2>1, <3>1, <3>2, <3>3 DEF InLine
    <3> QED
      BY <2>1, <3>3, LineStays DEF LineInv
  <2> QED
    BY <2>2, <2>3
<1>2. CASE Evict
  <2>1. /\ fan # NoFan /\ fan.entry \in Entry /\ UNCHANGED <<order, got, worker>>
        /\ fan' = [fan EXCEPT !.step = "refill"]
    BY <1>2, FanType DEF Evict, AtStep, Types
  <2>2. CASE ch[fan.entry] = <<>>
    <3>1. ch' = ch
      BY <1>2, <2>2 DEF Evict, Evictee
    <3>2. fan'.job = fan.job /\ fan'.entry = fan.entry
      BY <2>1, FanType DEF Types, Fan
    <3>3. ASSUME NEW p \in Entry, NEW s \in Nat, NEW x, InLine(p, s, x)' PROVE InLine(p, s, x)
      BY <2>1, <3>1, <3>2, <3>3 DEF InLine
    <3> QED
      BY <2>1, <3>3, LineStays DEF LineInv
  <2>3. CASE ch[fan.entry] # <<>>
    <3>1. ch' = [ch EXCEPT ![fan.entry] = Tail(@)]
      BY <1>2, <2>3 DEF Evict, Evictee
    <3> QED
      BY <2>1, <2>3, <3>1, TakenLine
  <2> QED
    BY <2>2, <2>3
<1>3. CASE Refill
  <2>1. /\ fan # NoFan /\ fan' = NextEntry /\ UNCHANGED <<order, got, worker>>
        /\ Put(fan.entry) \/ ch' = ch
    BY <1>3 DEF Refill, AtStep
  <2> QED
    BY <2>1, FanPutsLine
<1> QED
  BY <1>1, <1>2, <1>3 DEF fanOut

LEMMA WorkLine ==
  ASSUME Types, ConservationInv, LineInv, NEW p \in Entry, Work(p)
  PROVE  LineInv'
<1> USE DEF channelVars
<1>1. CASE Receive(p)
  <2>1. /\ ch[p] # <<>> /\ ch' = [ch EXCEPT ![p] = Tail(@)] /\ worker[p].job = NoJob
        /\ UNCHANGED <<order, got, fan>>
    BY <1>1 DEF Receive, ConservationInv, IdleHasNoJob
  <2>2. \/ worker' = worker
        \/ worker' = [worker EXCEPT ![p] = [at |-> "sending", job |-> Head(ch[p]), attempt |-> 1]]
    BY <1>1 DEF Receive
  <2> QED
    BY <2>1, <2>2, TakenLine
<1>2. CASE SendSucceeds(p)
  BY <1>2, DoneLine DEF SendSucceeds, Attempted
<1>3. CASE SendFails(p)
  <2>1. \A r \in Entry : worker'[r].job = worker[r].job
    BY <1>3 DEF SendFails, Types, WorkerTypes
  <2> QED
    BY <1>3, <2>1, AgainLine DEF SendFails
<1>4. CASE GiveUp(p)
  BY <1>4, DoneLine DEF GiveUp
<1>5. CASE WorkerExit(p)
  <2>1. \A r \in Entry : worker'[r].job = worker[r].job
    BY <1>5 DEF WorkerExit, Types, WorkerTypes
  <2> QED
    BY <1>5, <2>1, LineFrame DEF WorkerExit
<1> QED
  BY <1>1, <1>2, <1>3, <1>4, <1>5 DEF Work

LEMMA NextLine == Types /\ ConservationInv /\ LineInv /\ [Next]_vars => LineInv'
<1> SUFFICES ASSUME Types, ConservationInv, LineInv, [Next]_vars PROVE LineInv'
  OBVIOUS
<1> USE DEF channelVars, workerVars
<1>1. ASSUME NEW c \in Caller, NEW n \in Notice, NotifyIncident(c, n) PROVE LineInv'
  BY <1>1, LineFrame DEF NotifyIncident
<1>2. ASSUME NEW c \in Caller, Enqueue(c) \/ Refuse(c) PROVE LineInv'
  BY <1>2, LineFrame DEF Enqueue, Refuse
<1>3. ASSUME NEW c \in Caller, CallFanOut(c) PROVE LineInv'
  <2>1. calling[c].job \in Job
    BY <1>3, CallingJob DEF CallFanOut, At, Types
  <2> QED
    BY <1>3, <2>1, StartFanLine DEF CallFanOut
<1>4. CASE fanOut
  BY <1>4, fanOutLine
<1>5. CASE EnricherReceive \/ enrichOne \/ EnricherExit \/ BreakerCooldown
  BY <1>5, LineFrame DEF EnricherReceive, enrichOne, EnricherExit, BreakerCooldown
<1>6. CASE EnricherFanOut
  <2>1. enricher.job \in Job
    BY <1>6 DEF EnricherFanOut, Types, EnrichTypes
  <2> QED
    BY <1>6, <2>1, StartFanLine DEF EnricherFanOut
<1>7. ASSUME NEW p \in Entry, Work(p) PROVE LineInv'
  BY <1>7, WorkLine
<1>8. CASE shutdown \/ Terminated \/ UNCHANGED vars
  BY <1>8, LineFrame
     DEF shutdown, SetStopped, CloseEnrich, CloseProviders, ShutdownDone, Terminated, vars
<1> QED
  BY <1>1, <1>2, <1>3, <1>4, <1>5, <1>6, <1>7, <1>8 DEF Next, Place, Enrichment

LEMMA InitStory == Init => StoryInv /\ Story!Init
<1> SUFFICES ASSUME Init PROVE StoryInv /\ Story!Init
  OBVIOUS
<1>1. DOMAIN order = {}
  BY DEF Init
<1>2. ASSUME NEW p \in Entry, NEW s \in Nat, NEW x PROVE ~ InLine(p, s, x)
  <2>1. got[p] = <<>> /\ ch[p] = <<>> /\ fan = NoFan /\ worker[p].job = NoJob
    BY DEF Init, IdleWorker
  <2>2. Len(ch[p]) = 0
    BY <2>1, EmptySeq
  <2>3. ~ (s - 2 \in 1 .. Len(ch[p]))
    BY <2>2
  <2> QED
    BY <2>1, <2>3 DEF InLine
<1>3. Story!Init
  BY DEF Init, Story!Init, Entry
<1> QED
  BY <1>1, <1>2, <1>3 DEF StoryInv, LeftForGood, LineInv

(* A job that starts to be fanned out is published.                        *)
LEMMA FanPublishes ==
  ASSUME Types, Balance, LeftForGood, NEW by, NEW job \in Job, StartFan(by, job),
         got' = got, CallSum(job.id) + EnrichSum(job.id) >= 1
  PROVE  Story!Next
<1>1. \A i \in DOMAIN order : order[i] # job
  BY NewToStory
<1>2. Story!Publish(job)
  BY <1>1 DEF StartFan, Story!Publish
<1> QED
  BY <1>2 DEF Story!Next

(* An attempt tells the provider what its worker holds, or nothing.        *)
LEMMA AttemptIsTold ==
  ASSUME Types, LineInv, NEW p \in Entry, worker[p].at = "sending", Attempted(p), order' = order
  PROVE  Story!Next \/ UNCHANGED <<order, got>>
<1>1. worker[p].job \in Job /\ worker[p].job # NoJob
  BY AttemptTells
<1>2. InLine(p, 2, worker[p].job)
  BY <1>1 DEF InLine
<1>3. DOMAIN order = 1 .. Len(order) /\ Len(order) \in Nat
  BY OrderType, LenProperties
<1>4. PICK i \in DOMAIN order :
        /\ order[i] = worker[p].job
        /\ got[p] = <<>> \/ \E k \in 1 .. i : order[k] = got[p][Len(got[p])]
  <2>1. PICK j \in DOMAIN order : order[j] = worker[p].job
    BY <1>2 DEF LineInv, InStory
  <2>2. CASE got[p] = <<>>
    BY <2>1, <2>2
  <2>3. CASE got[p] # <<>> /\ got[p][Len(got[p])] = worker[p].job
    <3>1. j \in 1 .. j
      BY <1>3, <2>1
    <3> QED
      BY <2>1, <2>3, <3>1
  <2>4. CASE got[p] # <<>> /\ got[p][Len(got[p])] # worker[p].job
    <3>1. InLine(p, 1, got[p][Len(got[p])])
      BY <2>4 DEF InLine
    <3>2. Before(got[p][Len(got[p])], worker[p].job)
      BY <1>2, <3>1 DEF LineInv
    <3>3. PICK k, l \in DOMAIN order :
            k < l /\ order[k] = got[p][Len(got[p])] /\ order[l] = worker[p].job
      BY <3>2 DEF Before
    <3>4. k \in 1 .. l
      BY <1>3, <3>3
    <3> QED
      BY <3>3, <3>4
  <2> QED
    BY <2>2, <2>3, <2>4
<1>5. CASE CarriedOut(p)
  <2>1. Story!Tell(p, i)
    BY <1>4, <1>5 DEF CarriedOut, Story!Tell, Story!Ahead
  <2> QED
    BY <2>1 DEF Story!Next, Entry
<1> QED
  BY <1>5 DEF Attempted

(* Every step of the delivery is a step of the story, or says nothing.     *)
LEMMA NextTells ==
  Types /\ ConservationInv /\ StoryInv /\ [Next]_vars => [Story!Next]_<<order, got>>
<1> SUFFICES ASSUME Types, ConservationInv, StoryInv, [Next]_vars
             PROVE  Story!Next \/ UNCHANGED <<order, got>>
  OBVIOUS
<1> USE DEF channelVars, workerVars
<1>1. ASSUME NEW c \in Caller, NEW n \in Notice, NotifyIncident(c, n)
      PROVE  UNCHANGED <<order, got>>
  BY <1>1 DEF NotifyIncident
<1>2. ASSUME NEW c \in Caller, Enqueue(c) \/ Refuse(c) PROVE UNCHANGED <<order, got>>
  BY <1>2 DEF Enqueue, Refuse
<1>3. ASSUME NEW c \in Caller, CallFanOut(c) PROVE Story!Next
  <2>1. calling[c] # NoJob /\ calling[c].job \in Job
    BY <1>3, CallingJob DEF CallFanOut, At, Types
  <2>2. CallSum(calling[c].job.id) + EnrichSum(calling[c].job.id) >= 1
    BY <2>1, CallerHolds
  <2> QED
    BY <1>3, <2>1, <2>2, FanPublishes DEF CallFanOut, ConservationInv, StoryInv
<1>4. CASE fanOut
  BY <1>4 DEF fanOut, Offer, Evict, Refill
<1>5. CASE EnricherReceive \/ enrichOne \/ EnricherExit \/ BreakerCooldown
  BY <1>5 DEF EnricherReceive, enrichOne, EnricherExit, BreakerCooldown
<1>6. CASE EnricherFanOut
  <2>1. enricher.job \in Job
    BY <1>6 DEF EnricherFanOut, Types, EnrichTypes
  <2>2. CallSum(enricher.job.id) + EnrichSum(enricher.job.id) >= 1
    BY <2>1, EnricherHolds
  <2> QED
    BY <1>6, <2>1, <2>2, FanPublishes DEF EnricherFanOut, ConservationInv, StoryInv
<1>7. ASSUME NEW p \in Entry, Work(p) PROVE Story!Next \/ UNCHANGED <<order, got>>
  <2>1. CASE SendSucceeds(p) \/ SendFails(p) \/ GiveUp(p)
    BY <2>1, AttemptIsTold DEF StoryInv, SendSucceeds, SendFails, GiveUp, Attempted
  <2>2. CASE Receive(p) \/ WorkerExit(p)
    BY <2>2 DEF Receive, WorkerExit
  <2> QED
    BY <1>7, <2>1, <2>2 DEF Work
<1>8. CASE shutdown \/ Terminated \/ UNCHANGED vars
  BY <1>8 DEF shutdown, SetStopped, CloseEnrich, CloseProviders, ShutdownDone, Terminated, vars
<1> QED
  BY <1>1, <1>2, <1>3, <1>4, <1>5, <1>6, <1>7, <1>8 DEF Next, Place, Enrichment

(* The delivery implements the broadcast of one story: however many        *)
(* goroutines notify and however the providers fail, each is told a part   *)
(* of the same sequence of jobs in its order.  A job is told again only    *)
(* while it is the last one told, when the answer to it was lost.          *)
THEOREM AlwaysOneStory == Spec => TellsOneStory
<1>1. Spec => []ConservationInv
  BY AlwaysTypes, InitBalance, NextBalance, PTL DEF Spec
<1>2. Types /\ Types' /\ ConservationInv /\ ConservationInv' /\ StoryInv /\ [Next]_vars
        => StoryInv'
  BY NextLeft, NextLine DEF StoryInv
<1>3. Spec => []StoryInv
  BY <1>1, <1>2, AlwaysTypes, InitStory, PTL DEF Spec
<1> QED
  BY <1>1, <1>3, AlwaysTypes, InitStory, NextTells, PTL DEF Spec, TellsOneStory, Story!Spec

=============================================================================
