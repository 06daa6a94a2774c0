------------------------------ MODULE Delivery ------------------------------
(***************************************************************************)
(* Alert delivery (internal/alert/alert.go): from NotifyIncident, which    *)
(* any goroutine of kwatch may call, through an optional enrichment worker *)
(* and one bounded channel per provider, to the provider's own worker with *)
(* its retries, and the drain at shutdown.                                 *)
(*                                                                         *)
(* a.mu is held across steps only by fanOut, so "fan" is both the fan-out  *)
(* in progress and the lock: it is NoFan exactly when a.mu is free.  The   *)
(* workers receive without the lock, between any two steps of a fan-out.   *)
(*                                                                         *)
(* The model starts where main has called Start.  Silenced and skipped     *)
(* notifications change nothing and have no action.  Message texts and the *)
(* enrichment's result are left out.                                       *)
(***************************************************************************)
EXTENDS Integers, Sequences, FiniteSets

CONSTANTS
  Caller,      \* goroutines that call NotifyIncident
  Enricher,    \* the enrichment worker
  Entries,     \* number of providers; a.entries is 1 .. Entries
  Notice,      \* what may be notified: records of incident key and action
  Routes,      \* provider -> the incident keys its routes let through
  Fallback,    \* provider -> its fallback provider, 0 = none
  LLM,         \* llm.enabled
  ChannelCap,  \* channelCap
  EnrichCap,   \* capacity of enrichCh
  MaxAttempts, \* provider -> its retry.maxAttempts
  BreakerThreshold,
  NoJob, NoFan, \* sentinels
  MaxCalls     \* bound: notifications submitted in a behaviour

Entry == 1 .. Entries
Id    == 1 .. MaxCalls
Job   == [id : Id, by : Caller, notice : Notice]

(* A call is first at "enqueue" when it may go through the enrichment.     *)
Call == [at : {"enqueue", "fanOut"}, job : Job]
Fan  == [by : Caller \cup {Enricher}, job : Job, entry : Entry,
         step : {"offer", "evict", "refill"}]

ASSUME DeliveryAssumption ==
  /\ Entries \in Nat \ {0} /\ ChannelCap \in Nat \ {0} /\ EnrichCap \in Nat \ {0}
  /\ MaxAttempts \in [Entry -> Nat \ {0}]
  /\ BreakerThreshold \in Nat \ {0} /\ MaxCalls \in Nat
  /\ LLM \in BOOLEAN
  /\ IsFiniteSet(Caller) /\ Enricher \notin Caller
  /\ Notice \subseteq [key : STRING, action : {"Create", "Update", "Resolved", "DigestFlush"}]
  /\ Routes \in [Entry -> SUBSET STRING]
  /\ Fallback \in [Entry -> 0 .. Entries]
  /\ NoJob \notin Job \cup Call /\ NoFan \notin Fan

(***************************************************************************)
(* Definitions named Bug... are mistakes this code could have made, each   *)
(* next to the definition it would replace.  Nothing uses them: they show  *)
(* that the properties below can fail.                                     *)
(***************************************************************************)

VARIABLES
  issued,       \* number of notifications submitted so far
  calling,      \* caller -> its NotifyIncident call: the job and the step it is at
  refused,      \* ids that NotifyIncident dropped because of the shutdown
  enrichCh,     \* the channel of creates waiting for enrichment
  enrichClosed,
  enricher,     \* the enrichment worker
  brk,          \* its circuit breaker
  fan,          \* the fan-out in progress, under a.mu
  order,        \* the jobs in the order in which they were fanned out
  ch,           \* provider -> its channel
  closed,       \* the provider channels are closed
  worker,       \* provider -> its worker
  got,          \* provider -> the jobs it carried out, in order, repeated ones too
  delivered,    \* provider -> ids it acknowledged
  dead,         \* provider -> ids in the dead-letter ring
  filtered,     \* provider -> ids its routes kept away
  dropped,      \* provider -> ids lost to a full channel
  rescued,      \* provider -> ids it was sent as the fallback of another
  stopped,
  shutdownAt    \* where shutdown is

callVars     == <<issued, calling, refused>>
enrichVars   == <<enrichCh, enrichClosed, enricher, brk>>
channelVars  == <<fan, order, ch, closed, dropped>>
workerVars   == <<worker, got, delivered, dead, filtered, rescued>>
shutdownVars == <<stopped, shutdownAt>>

vars == <<callVars, enrichVars, channelVars, workerVars, shutdownVars>>

IdleEnricher == [at |-> "idle", job |-> NoJob]
IdleWorker   == [at |-> "idle", job |-> NoJob, attempt |-> 0]

TypeOK ==
  /\ issued \in 0 .. MaxCalls
  /\ calling \in [Caller -> Call \cup {NoJob}]
  /\ refused \subseteq Id
  /\ enrichCh \in Seq(Job) /\ Len(enrichCh) <= EnrichCap
  /\ enrichClosed \in BOOLEAN
  /\ enricher \in [at : {"idle", "analyze", "fanOut", "exited"}, job : Job \cup {NoJob}]
  /\ brk \in [fails : 0 .. BreakerThreshold, open : BOOLEAN]
  /\ fan \in Fan \cup {NoFan}
  /\ order \in Seq(Job)
  /\ ch \in [Entry -> Seq(Job)] /\ \A p \in Entry : Len(ch[p]) <= ChannelCap
  /\ closed \in BOOLEAN
  /\ worker \in [Entry -> [at : {"idle", "sending", "exited"}, job : Job \cup {NoJob},
                           attempt : Nat]]
  /\ \A p \in Entry : worker[p].attempt <= MaxAttempts[p]
  /\ got \in [Entry -> Seq(Job)]
  /\ delivered \in [Entry -> SUBSET Id]
  /\ dead \in [Entry -> SUBSET Id]
  /\ filtered \in [Entry -> SUBSET Id]
  /\ dropped \in [Entry -> SUBSET Id]
  /\ rescued \in [Entry -> SUBSET Id]
  /\ stopped \in BOOLEAN
  /\ shutdownAt \in {"running", "closeEnrich", "closeProviders", "waitWorkers", "done"}

Unlocked == fan = NoFan

-----------------------------------------------------------------------------
(* NotifyIncident.                                                         *)

FansOut(x) == fan # NoFan /\ fan.by = x

(* A caller makes one call at a time; a fan-out it started is part of it.  *)
Free(c) == calling[c] = NoJob /\ ~ FansOut(c)

NotifyIncident(c, n) ==
  LET job == [id |-> issued + 1, by |-> c, notice |-> n]
      at  == IF LLM /\ n.action = "Create" THEN "enqueue" ELSE "fanOut"
  IN  /\ issued < MaxCalls
      /\ Free(c)
      /\ issued' = issued + 1
      /\ calling' = [calling EXCEPT ![c] = [at |-> at, job |-> job]]
      /\ UNCHANGED <<refused, enrichVars, channelVars, workerVars, shutdownVars>>

At(c, step) == calling[c] # NoJob /\ calling[c].at = step

BugAfterEnqueue(c) == [calling EXCEPT ![c].at = "fanOut"]  \* no return once enqueued

AfterEnqueue(c) == [calling EXCEPT ![c] = NoJob]

(* The non-blocking send to the enrichment channel, under the lock.        *)
Enqueue(c) ==
  LET room == ~ stopped /\ Len(enrichCh) < EnrichCap
  IN  /\ At(c, "enqueue")
      /\ Unlocked
      /\ IF room
         THEN enrichCh' = Append(enrichCh, calling[c].job) /\ calling' = AfterEnqueue(c)
         ELSE calling' = [calling EXCEPT ![c].at = "fanOut"] /\ UNCHANGED enrichCh
      /\ UNCHANGED <<issued, refused, enrichClosed, enricher, brk,
                     channelVars, workerVars, shutdownVars>>

StartFan(by, job) ==
  /\ Unlocked
  /\ fan' = [by |-> by, job |-> job, entry |-> 1, step |-> "offer"]
  /\ order' = Append(order, job)

(* The lock is taken for fanOut, or the notification is dropped: kwatch is *)
(* shutting down.                                                          *)
CallFanOut(c) ==
  /\ At(c, "fanOut")
  /\ ~ stopped
  /\ StartFan(c, calling[c].job)
  /\ calling' = [calling EXCEPT ![c] = NoJob]
  /\ UNCHANGED <<issued, refused, ch, closed, dropped, enrichVars, workerVars, shutdownVars>>

Refuse(c) ==
  /\ At(c, "fanOut")
  /\ Unlocked
  /\ stopped
  /\ refused' = refused \cup {calling[c].job.id}
  /\ calling' = [calling EXCEPT ![c] = NoJob]
  /\ UNCHANGED <<issued, enrichVars, channelVars, workerVars, shutdownVars>>

-----------------------------------------------------------------------------
(* fanOut: for each provider, offer; if its channel is full, evict the     *)
(* oldest job and offer again.                                             *)

AtStep(step) == fan # NoFan /\ fan.step = step

Room(p) == Len(ch[p]) < ChannelCap

NextEntry ==
  IF fan.entry < Entries THEN [fan EXCEPT !.entry = @ + 1, !.step = "offer"] ELSE NoFan

Put(p) == ch' = [ch EXCEPT ![p] = Append(@, fan.job)]

Offer ==
  /\ AtStep("offer")
  /\ IF Room(fan.entry)
     THEN Put(fan.entry) /\ fan' = NextEntry
     ELSE fan' = [fan EXCEPT !.step = "evict"] /\ UNCHANGED ch
  /\ UNCHANGED <<order, closed, dropped, callVars, enrichVars, workerVars, shutdownVars>>

(* The receive that makes room; the worker may have made it already.       *)
Evictee(p) == IF ch[p] = <<>> THEN <<>> ELSE <<Head(ch[p])>>

Evict ==
  LET out == Evictee(fan.entry)
  IN  /\ AtStep("evict")
      /\ IF out = <<>> THEN UNCHANGED <<ch, dropped>>
         ELSE /\ ch' = [ch EXCEPT ![fan.entry] = Tail(@)]
              /\ dropped' = [dropped EXCEPT ![fan.entry] = @ \cup {out[1].id}]
      /\ fan' = [fan EXCEPT !.step = "refill"]
      /\ UNCHANGED <<order, closed, callVars, enrichVars, workerVars, shutdownVars>>

Refill ==
  LET p == fan.entry
  IN  /\ AtStep("refill")
      /\ IF Room(p) THEN Put(p) /\ UNCHANGED dropped
         ELSE UNCHANGED ch /\ dropped' = [dropped EXCEPT ![p] = @ \cup {fan.job.id}]
      /\ fan' = NextEntry
      /\ UNCHANGED <<order, closed, callVars, enrichVars, workerVars, shutdownVars>>

fanOut == Offer \/ Evict \/ Refill

-----------------------------------------------------------------------------
(* The enrichment worker: enrichOne for each job of enrichCh.              *)

enricherFree == enricher.at = "idle" /\ ~ FansOut(Enricher)

EnricherReceive ==
  /\ LLM
  /\ enricherFree
  /\ enrichCh # <<>>
  /\ enricher' = [at |-> "analyze", job |-> Head(enrichCh)]
  /\ enrichCh' = Tail(enrichCh)
  /\ UNCHANGED <<enrichClosed, brk, callVars, channelVars, workerVars, shutdownVars>>

(* breaker.record                                                          *)
record(ok) ==
  LET fails == IF brk.fails < BreakerThreshold THEN brk.fails + 1 ELSE BreakerThreshold
  IN  IF ok THEN [fails |-> 0, open |-> FALSE]
      ELSE [fails |-> fails, open |-> fails = BreakerThreshold]

(***************************************************************************)
(* The sidecar answers, fails, or is not asked because the breaker is      *)
(* open; a panic leaves the breaker as it is.  The job goes on regardless. *)
(***************************************************************************)
enrichOne ==
  /\ enricher.at = "analyze"
  /\ \/ ~ brk.open /\ \E ok \in BOOLEAN : brk' = record(ok)
     \/ UNCHANGED brk
  /\ enricher' = [enricher EXCEPT !.at = "fanOut"]
  /\ UNCHANGED <<enrichCh, enrichClosed, callVars, channelVars, workerVars, shutdownVars>>

BreakerCooldown ==
  /\ brk.open
  /\ brk' = [brk EXCEPT !.open = FALSE]
  /\ UNCHANGED <<enrichCh, enrichClosed, enricher, callVars, channelVars, workerVars,
                 shutdownVars>>

(* The deferred fanOut; it does not look at a.stopped.                     *)
EnricherFanOut ==
  /\ enricher.at = "fanOut"
  /\ StartFan(Enricher, enricher.job)
  /\ enricher' = IdleEnricher
  /\ UNCHANGED <<enrichCh, enrichClosed, brk, ch, closed, dropped, callVars, workerVars,
                 shutdownVars>>

BugEnricherExit ==            \* the channel is not drained
  /\ LLM
  /\ enricherFree
  /\ enrichClosed
  /\ enricher' = [enricher EXCEPT !.at = "exited"]
  /\ UNCHANGED <<enrichCh, enrichClosed, brk, callVars, channelVars, workerVars, shutdownVars>>

EnricherExit ==
  /\ LLM
  /\ enricherFree
  /\ enrichClosed /\ enrichCh = <<>>
  /\ enricher' = [enricher EXCEPT !.at = "exited"]
  /\ UNCHANGED <<enrichCh, enrichClosed, brk, callVars, channelVars, workerVars, shutdownVars>>

-----------------------------------------------------------------------------
(* A provider's worker: deliverOne for each job of its channel.            *)

shouldDeliver(p, job) == job.notice.action = "DigestFlush" \/ job.notice.key \in Routes[p]

Receive(p) ==
  LET job == Head(ch[p])
  IN  /\ worker[p].at = "idle"
      /\ ch[p] # <<>>
      /\ ch' = [ch EXCEPT ![p] = Tail(@)]
      /\ IF shouldDeliver(p, job)
         THEN /\ worker' = [worker EXCEPT ![p] = [at |-> "sending", job |-> job, attempt |-> 1]]
              /\ UNCHANGED filtered
         ELSE /\ filtered' = [filtered EXCEPT ![p] = @ \cup {job.id}]
              /\ UNCHANGED worker
      /\ UNCHANGED <<fan, order, closed, dropped, got, delivered, dead, rescued, callVars,
                     enrichVars, shutdownVars>>

CarriedOut(p) == got' = [got EXCEPT ![p] = Append(@, worker[p].job)]

SendSucceeds(p) ==
  /\ worker[p].at = "sending"
  /\ CarriedOut(p)
  /\ delivered' = [delivered EXCEPT ![p] = @ \cup {worker[p].job.id}]
  /\ worker' = [worker EXCEPT ![p] = IdleWorker]
  /\ UNCHANGED <<dead, filtered, rescued, callVars, enrichVars, channelVars, shutdownVars>>

(* An attempt that returns an error may have been carried out: its answer  *)
(* was late or lost.                                                       *)
Attempted(p) == CarriedOut(p) \/ UNCHANGED got

SendFails(p) ==
  /\ worker[p].at = "sending"
  /\ worker[p].attempt < MaxAttempts[p]
  /\ Attempted(p)
  /\ worker' = [worker EXCEPT ![p].attempt = @ + 1]
  /\ UNCHANGED <<delivered, dead, filtered, rescued, callVars, enrichVars, channelVars,
                 shutdownVars>>

BugGiveUp(p) ==               \* the job goes to the fallback's own worker
  LET f == Fallback[p]
  IN  /\ worker[p].at = "sending"
      /\ worker[p].attempt = MaxAttempts[p]
      /\ dead' = [dead EXCEPT ![p] = @ \cup {worker[p].job.id}]
      /\ IF f # 0 /\ Room(f) THEN ch' = [ch EXCEPT ![f] = Append(@, worker[p].job)]
         ELSE UNCHANGED ch
      /\ Attempted(p)
      /\ worker' = [worker EXCEPT ![p] = IdleWorker]
      /\ UNCHANGED <<delivered, filtered, rescued, fan, order, closed, dropped, callVars,
                     enrichVars, shutdownVars>>

(***************************************************************************)
(* The last attempt failed: recordDeadLetter, then one message to the      *)
(* fallback provider, whose failure is only logged.                        *)
(***************************************************************************)
GiveUp(p) ==
  LET id == worker[p].job.id
  IN  /\ worker[p].at = "sending"
      /\ worker[p].attempt = MaxAttempts[p]
      /\ Attempted(p)
      /\ dead' = [dead EXCEPT ![p] = @ \cup {id}]
      /\ IF Fallback[p] # 0
         THEN rescued' = [rescued EXCEPT ![Fallback[p]] = @ \cup {id}]
         ELSE UNCHANGED rescued
      /\ worker' = [worker EXCEPT ![p] = IdleWorker]
      /\ UNCHANGED <<delivered, filtered, callVars, enrichVars, channelVars, shutdownVars>>

WorkerExit(p) ==
  /\ worker[p].at = "idle"
  /\ closed /\ ch[p] = <<>>
  /\ worker' = [worker EXCEPT ![p].at = "exited"]
  /\ UNCHANGED <<got, delivered, dead, filtered, rescued, callVars, enrichVars, channelVars,
                 shutdownVars>>

Work(p) == Receive(p) \/ SendSucceeds(p) \/ SendFails(p) \/ GiveUp(p) \/ WorkerExit(p)

-----------------------------------------------------------------------------
(* shutdown, once the context is cancelled.                                *)

SetStopped ==
  /\ shutdownAt = "running"
  /\ Unlocked
  /\ stopped' = TRUE
  /\ shutdownAt' = "closeEnrich"
  /\ UNCHANGED <<callVars, enrichVars, channelVars, workerVars>>

CloseEnrich ==
  /\ shutdownAt = "closeEnrich"
  /\ enrichClosed' = LLM
  /\ shutdownAt' = "closeProviders"
  /\ UNCHANGED <<stopped, enrichCh, enricher, brk, callVars, channelVars, workerVars>>

BugEnrichDone == TRUE         \* shutdown does not wait for the enrichment in flight

(* enrichWg.Wait() is over.                                                *)
EnrichDone == LLM => enricher.at = "exited"

CloseProviders ==
  /\ shutdownAt = "closeProviders"
  /\ EnrichDone
  /\ Unlocked
  /\ closed' = TRUE
  /\ shutdownAt' = "waitWorkers"
  /\ UNCHANGED <<stopped, fan, order, ch, dropped, callVars, enrichVars, workerVars>>

(* providerWg.Wait() is over.                                              *)
ShutdownDone ==
  /\ shutdownAt = "waitWorkers"
  /\ \A p \in Entry : worker[p].at = "exited"
  /\ shutdownAt' = "done"
  /\ UNCHANGED <<stopped, callVars, enrichVars, channelVars, workerVars>>

shutdown == SetStopped \/ CloseEnrich \/ CloseProviders \/ ShutdownDone

-----------------------------------------------------------------------------
Init ==
  /\ issued = 0
  /\ calling = [c \in Caller |-> NoJob]
  /\ refused = {}
  /\ enrichCh = <<>> /\ enrichClosed = FALSE
  /\ enricher = IdleEnricher
  /\ brk = [fails |-> 0, open |-> FALSE]
  /\ fan = NoFan
  /\ order = <<>>
  /\ ch = [p \in Entry |-> <<>>]
  /\ closed = FALSE
  /\ worker = [p \in Entry |-> IdleWorker]
  /\ got = [p \in Entry |-> <<>>]
  /\ delivered = [p \in Entry |-> {}]
  /\ dead = [p \in Entry |-> {}]
  /\ filtered = [p \in Entry |-> {}]
  /\ dropped = [p \in Entry |-> {}]
  /\ rescued = [p \in Entry |-> {}]
  /\ stopped = FALSE
  /\ shutdownAt = "running"

Place(c) == Enqueue(c) \/ CallFanOut(c) \/ Refuse(c)
Enrichment == EnricherReceive \/ enrichOne \/ EnricherFanOut \/ EnricherExit

(* kwatch has shut down and no call is left: nothing more can happen.      *)
Terminated ==
  /\ shutdownAt = "done" /\ issued = MaxCalls
  /\ \A c \in Caller : calling[c] = NoJob
  /\ UNCHANGED vars

Next ==
  \/ \E c \in Caller, n \in Notice : NotifyIncident(c, n)
  \/ \E c \in Caller : Place(c)
  \/ fanOut
  \/ Enrichment
  \/ BreakerCooldown
  \/ \E p \in Entry : Work(p)
  \/ shutdown
  \/ Terminated

Spec == Init /\ [][Next]_vars

(***************************************************************************)
(* Go schedules every goroutine that can run and sync.Mutex starves none;  *)
(* a provider call ends, by an answer or the HTTP client's timeout.  That  *)
(* anybody notifies, or stops kwatch, is not assumed.                      *)
(***************************************************************************)
FairSpec ==
  /\ Spec
  /\ \A c \in Caller : WF_vars(Place(c))
  /\ WF_vars(fanOut)
  /\ WF_vars(Enrichment)
  /\ \A p \in Entry : WF_vars(Work(p))
  /\ WF_vars(CloseEnrich) /\ WF_vars(CloseProviders) /\ WF_vars(ShutdownDone)

-----------------------------------------------------------------------------
(* Invariants.                                                             *)

(* No channel is sent to after shutdown closed it, whichever caller or     *)
(* enrichment is in the middle of a fan-out: such a send panics.           *)
NoSendOnClosed ==
  /\ fan # NoFan => ~ closed
  /\ (\E c \in Caller : At(c, "enqueue")) /\ ~ stopped => ~ enrichClosed

(* After evicting the oldest job there is room for the new one: a fan-out  *)
(* never drops the job it carries.                                         *)
NewestKept == AtStep("refill") => Room(fan.entry)

Submitted == {id \in Id : id <= issued}

(* Where the job of that id is, as provider p sees it: a number of places, *)
(* summed over those where it may be.                                      *)
One(b) == IF b THEN 1 ELSE 0
Occurrences(s, id) == Cardinality({i \in DOMAIN s : s[i].id = id})
Has(x, id) == x # NoJob /\ x.id = id
HasCall(c, id) == calling[c] # NoJob /\ calling[c].job.id = id
InFan(p, id) == fan # NoFan /\ fan.job.id = id /\ fan.entry <= p

Places(p, id) ==
  Cardinality({c \in Caller : HasCall(c, id)}) + One(id \in refused)
  + Occurrences(enrichCh, id) + One(Has(enricher.job, id))
  + One(InFan(p, id)) + Occurrences(ch[p], id) + One(Has(worker[p].job, id))
  + One(id \in delivered[p]) + One(id \in dead[p])
  + One(id \in filtered[p]) + One(id \in dropped[p])

(***************************************************************************)
(* Every notification is, for every provider, in exactly one place: with   *)
(* its caller, with the enrichment, in a fan-out that has yet to reach the *)
(* provider, in its channel or with its worker; or acknowledged, dead,     *)
(* filtered, dropped from a full channel or refused at shutdown.           *)
(***************************************************************************)
Conservation == \A p \in Entry, id \in Submitted : Places(p, id) = 1

-----------------------------------------------------------------------------
(***************************************************************************)
(* However many goroutines notify and however differently the providers    *)
(* fail, what the providers' own workers tell is a part of one and the     *)
(* same story, in its order: nobody is told an older notification after a  *)
(* newer one, and one that is repeated, because an attempt failed only for *)
(* its answer, is the one told last.                                       *)
(***************************************************************************)
Story == INSTANCE Broadcast WITH Entries <- Entries, Job <- Job, order <- order, got <- got
TellsOneStory == Story!Spec

(* Liveness, under FairSpec.                                               *)

Settled(p, id) == id \in delivered[p] \cup dead[p] \cup filtered[p] \cup dropped[p]

(* What was submitted is settled with every provider, also when kwatch is  *)
(* stopped meanwhile.                                                      *)
EverythingSettles ==
  \A id \in Id : (id <= issued) ~> (id \in refused \/ \A p \in Entry : Settled(p, id))
=============================================================================
