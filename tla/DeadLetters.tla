---------------------------- MODULE DeadLetters ----------------------------
(***************************************************************************)
(* The dead-letter ring of the alert manager (internal/alert/alert.go):    *)
(* the providers' workers record what they gave up on, the health server   *)
(* reads it.  Both run under dlqMu.  Notifier uses the ring.               *)
(***************************************************************************)
EXTENDS Integers, Sequences, FiniteSets

CONSTANTS
  Failure,     \* a provider, an incident key, an action, an error
  Empty,       \* a slot never written: its Timestamp is zero
  DlqCap       \* dlqCap

ASSUME DeadLetterAssumption ==
  /\ DlqCap \in Nat \ {0}
  /\ Empty \notin Failure

VARIABLES
  dlqRing, \* slot -> what it holds
  dlqHead, \* the slot to be written next
  latest   \* history: the last DlqCap failures in the order of recording

dlqVars == <<dlqRing, dlqHead, latest>>

Slot == 0 .. DlqCap - 1

DlqTypeOK ==
  /\ dlqRing \in [Slot -> Failure \cup {Empty}]
  /\ dlqHead \in Slot
  /\ latest \in Seq(Failure) /\ Len(latest) <= DlqCap

NextSlot(i) == (i + 1) % DlqCap

recordDeadLetter(f) ==
  /\ dlqRing' = [dlqRing EXCEPT ![dlqHead] = f]
  /\ dlqHead' = NextSlot(dlqHead)
  /\ latest' = IF Len(latest) < DlqCap THEN Append(latest, f) ELSE Append(Tail(latest), f)

(* How many slots are in use, counted up to the first one never written.   *)
Used == Cardinality({i \in Slot : \A j \in 0 .. i : dlqRing[j] # Empty})

BugSlotOf(i) == i - 1         \* read from slot 0, as before the ring wraps

(* The slot of the i-th entry reported, oldest first.                      *)
SlotOf(i) == (dlqHead - Used + (i - 1) + DlqCap) % DlqCap

DeadLetterList == [i \in 1 .. Used |-> dlqRing[SlotOf(i)]]

DlqInit ==
  /\ dlqRing = [i \in Slot |-> Empty]
  /\ dlqHead = 0
  /\ latest = <<>>

DlqNext == \E f \in Failure : recordDeadLetter(f)

DlqSpec == DlqInit /\ [][DlqNext]_dlqVars

(***************************************************************************)
(* GET /deadletters shows the latest failures, as many as fit, oldest      *)
(* first: before the ring is full, when it is exactly full, and after it   *)
(* has wrapped.                                                            *)
(***************************************************************************)
LatestFailures == DeadLetterList = latest
=============================================================================
