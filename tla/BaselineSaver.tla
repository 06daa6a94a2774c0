---------------------------- MODULE BaselineSaver ----------------------------
(***************************************************************************)
(* How a changed baseline gets from the engine to its ConfigMap            *)
(* (cmd/kwatch/main.go): the hook OnBaselineChange, which the engine calls *)
(* after its unlock, hands a snapshot to a channel of capacity one; the    *)
(* saver writes the last one it received once no other came for Interval.  *)
(*                                                                         *)
(* A snapshot is the number of the change it was taken after.  What the    *)
(* ConfigMap's API does with a write is left open: SaveBaseline may fail,  *)
(* and may fail after the write took effect.                               *)
(***************************************************************************)
EXTENDS Integers, Sequences

CONSTANTS
  Publisher,   \* goroutines whose calls of the engine change the baseline
  Interval,    \* the saver's interval
  None,        \* no snapshot
  Off,         \* the timer is not running
  MaxChanges   \* bound: changes of the baseline in a behaviour

ASSUME SaverAssumption ==
  /\ Interval \in Nat \ {0} /\ MaxChanges \in Nat
  /\ None \notin Nat /\ Off \notin Nat

Snapshot == 0 .. MaxChanges

(***************************************************************************)
(* Definitions named Bug... are mistakes this code could have made, each   *)
(* next to the definition it would replace.  Nothing uses them: they show  *)
(* that the properties below can fail.                                     *)
(***************************************************************************)

VARIABLES
  version,    \* number of changes of the engine's baseline
  at,         \* publisher -> where it is in the engine's call and the hook
  snap,       \* publisher -> the snapshot it hands over
  baselineCh,
  saver,      \* where startBaselineSaver is
  pending,    \* the last snapshot it received
  timer,      \* time left
  stored,     \* the snapshot in the ConfigMap
  cancelled,  \* main has cancelled the context
  handed,     \* history: the snapshot of the last hook call that returned
  failed      \* history: the last save reported an error

engineVars  == <<version, at, snap>>
saverVars   == <<saver, pending, timer, stored, failed>>
vars == <<engineVars, baselineCh, handed, saverVars, cancelled>>

TypeOK ==
  /\ version \in Snapshot
  /\ at \in [Publisher -> {"idle", "changed", "offer", "drain", "block"}]
  /\ snap \in [Publisher -> Snapshot]
  /\ baselineCh \in Seq(Snapshot) /\ Len(baselineCh) <= 1
  /\ saver \in {"select", "saving", "flushing", "exited"}
  /\ pending \in Snapshot \cup {None}
  /\ timer \in 0 .. Interval \cup {Off}
  /\ stored \in Snapshot
  /\ cancelled \in BOOLEAN
  /\ handed \in Snapshot \cup {None}
  /\ failed \in BOOLEAN

-----------------------------------------------------------------------------
(* The engine: a change under its lock, a snapshot, the hook.              *)

(* MarkResolved, RemovePod, ResolveByResource and checkLifecycle take the  *)
(* lock again for the snapshot, after the hook of the incident.            *)
Change(p) ==
  /\ at[p] = "idle" /\ version < MaxChanges
  /\ version' = version + 1
  /\ at' = [at EXCEPT ![p] = "changed"]
  /\ UNCHANGED <<snap, baselineCh, handed, saverVars, cancelled>>

TakeSnapshot(p) ==
  /\ at[p] = "changed"
  /\ snap' = [snap EXCEPT ![p] = version]
  /\ at' = [at EXCEPT ![p] = "offer"]
  /\ UNCHANGED <<version, baselineCh, handed, saverVars, cancelled>>

(* SetSeen and ClearSeenForPod take it before they unlock.                 *)
ChangeAndSnapshot(p) ==
  /\ at[p] = "idle" /\ version < MaxChanges
  /\ version' = version + 1
  /\ snap' = [snap EXCEPT ![p] = version + 1]
  /\ at' = [at EXCEPT ![p] = "offer"]
  /\ UNCHANGED <<baselineCh, handed, saverVars, cancelled>>

Room == baselineCh = <<>>

HandOver(p) ==
  /\ baselineCh' = Append(baselineCh, snap[p])
  /\ handed' = snap[p]
  /\ at' = [at EXCEPT ![p] = "idle"]

(* OnBaselineChange: a send, if there is room; else a receive, if there is *)
(* something to receive; then a send that waits for room.                  *)
Offer(p) ==
  /\ at[p] = "offer"
  /\ IF Room THEN HandOver(p)
     ELSE at' = [at EXCEPT ![p] = "drain"] /\ UNCHANGED <<baselineCh, handed>>
  /\ UNCHANGED <<version, snap, saverVars, cancelled>>

Drain(p) ==
  /\ at[p] = "drain"
  /\ baselineCh' = <<>>
  /\ at' = [at EXCEPT ![p] = "block"]
  /\ UNCHANGED <<version, snap, handed, saverVars, cancelled>>

BugSend(p) ==                 \* a send that gives up when there is no room
  IF Room THEN HandOver(p)
  ELSE at' = [at EXCEPT ![p] = "idle"] /\ handed' = snap[p] /\ UNCHANGED baselineCh

Send(p) == Room /\ HandOver(p)

BlockingSend(p) ==
  /\ at[p] = "block"
  /\ Send(p)
  /\ UNCHANGED <<version, snap, saverVars, cancelled>>

OnBaselineChange(p) == Offer(p) \/ Drain(p) \/ BlockingSend(p)

-----------------------------------------------------------------------------
(* startBaselineSaver: the three cases of its select.                      *)

(* time.NewTimer or Reset.                                                 *)
Armed == Interval

Receive ==
  /\ saver = "select" /\ baselineCh # <<>>
  /\ pending' = Head(baselineCh)
  /\ baselineCh' = Tail(baselineCh)
  /\ timer' = Armed
  /\ UNCHANGED <<saver, stored, failed, handed, engineVars, cancelled>>

Fire ==
  /\ saver = "select" /\ timer = 0
  /\ saver' = "saving"
  /\ UNCHANGED <<pending, timer, stored, failed, baselineCh, handed, engineVars, cancelled>>

(* SaveBaseline returns; a failure may come after the write took effect.   *)
SaveBaseline ==
  \/ stored' = pending /\ failed' = FALSE
  \/ stored' \in {stored, pending} /\ failed' = TRUE

BugAfterSave == IF failed' THEN "exited" ELSE "select"  \* an error ends the saver

AfterSave == "select"

Saved ==
  /\ saver = "saving"
  /\ SaveBaseline
  /\ saver' = AfterSave
  /\ timer' = Off
  /\ UNCHANGED <<pending, baselineCh, handed, engineVars, cancelled>>

AtStop == IF pending = None THEN "exited" ELSE "flushing"

(* ctx.Done(): what is pending is written once more, saved or not.         *)
Stop ==
  /\ saver = "select" /\ cancelled
  /\ timer' = Off
  /\ saver' = AtStop
  /\ UNCHANGED <<pending, stored, failed, baselineCh, handed, engineVars, cancelled>>

Flushed ==
  /\ saver = "flushing"
  /\ SaveBaseline
  /\ saver' = "exited"
  /\ UNCHANGED <<pending, timer, baselineCh, handed, engineVars, cancelled>>

startBaselineSaver == Receive \/ Fire \/ Saved \/ Stop \/ Flushed

-----------------------------------------------------------------------------
Tick ==
  /\ timer \in Nat \ {0}
  /\ timer' = timer - 1
  /\ UNCHANGED <<saver, pending, stored, failed, baselineCh, handed, engineVars, cancelled>>

(* SIGTERM.                                                                *)
Cancel ==
  /\ ~ cancelled
  /\ cancelled' = TRUE
  /\ UNCHANGED <<engineVars, baselineCh, handed, saverVars>>

Init ==
  /\ version = 0
  /\ at = [p \in Publisher |-> "idle"]
  /\ snap = [p \in Publisher |-> 0]
  /\ baselineCh = <<>>
  /\ saver = "select" /\ pending = None /\ timer = Off
  /\ stored = 0
  /\ cancelled = FALSE
  /\ handed = None /\ failed = FALSE

Publish(p) == Change(p) \/ TakeSnapshot(p) \/ ChangeAndSnapshot(p) \/ OnBaselineChange(p)

(***************************************************************************)
(* main ends with os.Exit once the alerts are drained, without a look at   *)
(* the saver or at hooks still blocked; until then they may take any       *)
(* number of steps.                                                        *)
(***************************************************************************)
Exit == cancelled /\ UNCHANGED vars

Next ==
  \/ \E p \in Publisher : Publish(p)
  \/ startBaselineSaver
  \/ Tick
  \/ Cancel
  \/ Exit

Spec == Init /\ [][Next]_vars

(***************************************************************************)
(* Go runs every goroutine that can run, a blocked send included, select   *)
(* starves no ready case for ever, API calls end, and time passes.  That   *)
(* the baseline changes, or kwatch is stopped, is not assumed.             *)
(***************************************************************************)
FairSpec ==
  /\ Spec
  /\ \A p \in Publisher : WF_vars(TakeSnapshot(p) \/ OnBaselineChange(p))
  /\ WF_vars(startBaselineSaver)
  /\ WF_vars(Tick)

-----------------------------------------------------------------------------
(* The saver has nothing left to write.                                    *)
AtRest == saver \in {"select", "exited"} /\ timer = Off /\ pending # None

(***************************************************************************)
(* Once the saver is at rest, by its timer or after the flush at shutdown, *)
(* the ConfigMap holds what it received last, unless the save failed.      *)
(***************************************************************************)
ReceivedIsSaved == AtRest /\ ~ failed => stored = pending

(***************************************************************************)
(* The snapshot handed over last is in the channel or was received last,   *)
(* unless a hook has just taken it out to put its own there: a full        *)
(* channel, and two hooks emptying and filling it at once, never leave an  *)
(* earlier hand-over, or none, where the last one was.  The one handed     *)
(* over last need not be the newest: between its snapshot and the channel  *)
(* a hook can be overtaken, and then its older one replaces the newer.     *)
(***************************************************************************)
LastHandedKept ==
  \/ handed = None
  \/ baselineCh = <<handed>>
  \/ baselineCh = <<>> /\ (pending = handed \/ \E p \in Publisher : at[p] = "block")

(* Types, and both statements above: what was handed over last is not lost *)
(* on its way to the saver, and what the saver received it has written     *)
(* once it is at rest.  What is in the channel when it exits stays there.  *)
BaselineKept == TypeOK /\ ReceivedIsSaved /\ LastHandedKept

(* Liveness, under FairSpec.                                               *)

(* A hook call returns while kwatch is not being stopped, so no detector   *)
(* hangs on the baseline.                                                  *)
HookReturns ==
  \A p \in Publisher : at[p] = "block" ~> (at[p] = "idle" \/ cancelled)

=============================================================================
