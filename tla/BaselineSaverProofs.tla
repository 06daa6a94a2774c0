------------------------ MODULE BaselineSaverProofs ------------------------
(***************************************************************************)
(* What is handed to the baseline saver is not lost, and what it received  *)
(* is written: for any number of goroutines and any interleaving of their  *)
(* hooks with the saver, failed writes included.                           *)
(***************************************************************************)
EXTENDS BaselineSaver, SequenceTheorems, TLAPS

(* While the timer runs, or a write is under way, something was received;  *)
(* a timer that is off has nothing left to write.                          *)
SomethingReceived ==
  timer # Off \/ saver \in {"saving", "flushing"} => pending # None

NothingLeft == saver = "select" /\ timer = Off /\ pending # None /\ ~ failed => stored = pending

Inv == BaselineKept /\ SomethingReceived /\ NothingLeft

LEMMA Sizes ==
  /\ Interval \in Nat \ {0} /\ MaxChanges \in Nat /\ None \notin Nat /\ Off \notin Nat
  /\ Snapshot \subseteq Nat /\ 0 \in Snapshot
BY SaverAssumption DEF Snapshot

(* What a channel of one slot may hold.                                    *)
LEMMA OneSlot ==
  ASSUME TypeOK
  PROVE  \/ baselineCh = <<>>
         \/ \E s \in Snapshot : /\ baselineCh = <<s>>
                                /\ Head(baselineCh) = s /\ Tail(baselineCh) = <<>>
<1>0. baselineCh \in Seq(Snapshot) /\ Len(baselineCh) <= 1
  BY DEF TypeOK
<1>1. baselineCh \in Seq(Snapshot) /\ Len(baselineCh) \in {0, 1}
  BY <1>0, LenProperties
<1>2. CASE Len(baselineCh) = 0
  BY <1>1, <1>2
<1>3. CASE Len(baselineCh) = 1
  <2>1. baselineCh = <<baselineCh[1]>> /\ baselineCh[1] \in Snapshot
    BY <1>1, <1>3, ElementOfSeq
  <2> DEFINE s == baselineCh[1]
  <2>2. Head(<<s>>) = s /\ Tail(<<s>>) = <<>>
    OBVIOUS
  <2>3. baselineCh = <<s>> /\ s \in Snapshot
    BY <2>1
  <2> HIDE DEF s
  <2>4. Head(baselineCh) = s /\ Tail(baselineCh) = <<>>
    BY <2>2, <2>3
  <2>5. QED
    BY <2>3, <2>4
<1>4. QED
  BY <1>1, <1>2, <1>3

LEMMA InitInv == Init => Inv
<1> SUFFICES ASSUME Init PROVE Inv
  OBVIOUS
<1>1. TypeOK
  <2>1. <<>> \in Seq(Snapshot) /\ Len(<<>>) = 0
    OBVIOUS
  <2>2. baselineCh \in Seq(Snapshot) /\ Len(baselineCh) <= 1
    BY <2>1 DEF Init
  <2>3. version \in Snapshot /\ stored \in Snapshot /\ snap \in [Publisher -> Snapshot]
    BY Sizes DEF Init
  <2>4. at \in [Publisher -> {"idle", "changed", "offer", "drain", "block"}]
    BY DEF Init
  <2>5. /\ saver \in {"select", "saving", "flushing", "exited"}
        /\ pending \in Snapshot \cup {None} /\ timer \in 0 .. Interval \cup {Off}
        /\ handed \in Snapshot \cup {None}
    BY DEF Init
  <2>6. cancelled \in BOOLEAN /\ failed \in BOOLEAN
    BY DEF Init
  <2>7. QED
    BY <2>2, <2>3, <2>4, <2>5, <2>6 DEF TypeOK
<1>2. QED
  BY <1>1 DEF Init, Inv, BaselineKept, ReceivedIsSaved, LastHandedKept, AtRest,
              SomethingReceived, NothingLeft

-----------------------------------------------------------------------------
(* The engine's side: the saver and what it wrote stay as they are.        *)

SaverKept == UNCHANGED <<saver, pending, timer, stored, failed>>

LEMMA SaverKeptStep ==
  ASSUME Inv, SaverKept
  PROVE  ReceivedIsSaved' /\ SomethingReceived' /\ NothingLeft'
BY DEF Inv, BaselineKept, SaverKept, ReceivedIsSaved, AtRest, SomethingReceived, NothingLeft

LEMMA PublishStep ==
  ASSUME Inv, NEW p \in Publisher, Publish(p)
  PROVE  Inv'
<1>0. TypeOK /\ LastHandedKept /\ SaverKept
  BY DEF Inv, BaselineKept, SaverKept, Publish, Change, TakeSnapshot, ChangeAndSnapshot,
         OnBaselineChange, Offer, Drain, BlockingSend, saverVars
<1>1. CASE Change(p) \/ TakeSnapshot(p) \/ ChangeAndSnapshot(p)
  <2>1. version' \in Snapshot /\ snap' \in [Publisher -> Snapshot]
    <3>1. version < MaxChanges => version + 1 \in Snapshot
      BY <1>0, Sizes DEF TypeOK, Snapshot
    <3>2. QED
      BY <1>0, <1>1, <3>1 DEF TypeOK, Change, TakeSnapshot, ChangeAndSnapshot
  <2>2. TypeOK'
    BY <1>0, <1>1, <2>1 DEF TypeOK, SaverKept, Change, TakeSnapshot, ChangeAndSnapshot
  <2>3. LastHandedKept'
    <3>1. \A q \in Publisher : at[q] = "block" => at'[q] = "block"
      BY <1>0, <1>1 DEF TypeOK, Change, TakeSnapshot, ChangeAndSnapshot
    <3>2. UNCHANGED <<handed, baselineCh, pending>>
      BY <1>0, <1>1 DEF SaverKept, Change, TakeSnapshot, ChangeAndSnapshot
    <3>3. QED
      BY <1>0, <3>1, <3>2 DEF LastHandedKept
  <2>4. QED
    BY <1>0, <2>2, <2>3, SaverKeptStep DEF Inv, BaselineKept
<1>2. CASE HandOver(p) /\ Room /\ (Offer(p) \/ BlockingSend(p))
  <2>1. /\ baselineCh' = <<snap[p]>> /\ handed' = snap[p] /\ snap[p] \in Snapshot
        /\ at' = [at EXCEPT ![p] = "idle"] /\ UNCHANGED <<version, snap, cancelled>>
    BY <1>0, <1>2 DEF TypeOK, HandOver, Room, Offer, BlockingSend
  <2>2. TypeOK'
    BY <1>0, <2>1 DEF TypeOK, SaverKept
  <2>3. LastHandedKept'
    BY <2>1 DEF LastHandedKept
  <2>4. QED
    BY <1>0, <2>2, <2>3, SaverKeptStep DEF Inv, BaselineKept
<1>3. CASE Offer(p) /\ ~ Room
  <2>1. /\ at[p] = "offer" /\ at' = [at EXCEPT ![p] = "drain"]
        /\ UNCHANGED <<version, snap, baselineCh, handed, cancelled>>
    BY <1>3 DEF Offer
  <2>2. TypeOK'
    BY <1>0, <2>1 DEF TypeOK, SaverKept
  <2>3. \A q \in Publisher : at[q] = "block" => at'[q] = "block"
    BY <1>0, <2>1 DEF TypeOK
  <2>4. LastHandedKept'
    BY <1>0, <2>1, <2>3 DEF LastHandedKept, SaverKept
  <2>5. QED
    BY <1>0, <2>2, <2>4, SaverKeptStep DEF Inv, BaselineKept
<1>4. CASE Drain(p)
  <2>1. /\ at' = [at EXCEPT ![p] = "block"] /\ baselineCh' = <<>>
        /\ UNCHANGED <<version, snap, handed, cancelled>>
    BY <1>4 DEF Drain
  <2>2. TypeOK'
    BY <1>0, <2>1 DEF TypeOK, SaverKept
  <2>3. at'[p] = "block"
    BY <1>0, <2>1 DEF TypeOK
  <2>4. LastHandedKept'
    BY <2>1, <2>3 DEF LastHandedKept
  <2>5. QED
    BY <1>0, <2>2, <2>4, SaverKeptStep DEF Inv, BaselineKept
<1>5. QED
  BY <1>1, <1>2, <1>3, <1>4 DEF Publish, OnBaselineChange, Offer, BlockingSend, Send

-----------------------------------------------------------------------------
(* The saver's side.                                                       *)

LEMMA ReceiveStep ==
  ASSUME Inv, Receive
  PROVE  Inv'
<1>1. TypeOK /\ LastHandedKept
  BY DEF Inv, BaselineKept
<1>2. PICK s \in Snapshot : baselineCh = <<s>> /\ pending' = s /\ baselineCh' = <<>>
  BY <1>1, OneSlot DEF Receive
<1>3. /\ saver = "select" /\ timer' = Interval
      /\ UNCHANGED <<saver, stored, failed, handed, version, at, snap, cancelled>>
  BY DEF Receive, Armed, engineVars
<1>4. TypeOK'
  <2>1. Interval \in 0 .. Interval
    BY Sizes
  <2>2. QED
    BY <1>1, <1>2, <1>3, <2>1 DEF TypeOK
<1>5. Interval # Off /\ s # None
  BY <1>2, Sizes
<1>6. LastHandedKept'
  <2>1. handed = None \/ <<s>> = <<handed>>
    BY <1>1, <1>2 DEF LastHandedKept
  <2>2. handed = None \/ s = handed
    BY <2>1
  <2>3. QED
    BY <1>2, <1>3, <2>2 DEF LastHandedKept
<1>7. QED
  BY <1>2, <1>3, <1>4, <1>5, <1>6
  DEF Inv, BaselineKept, ReceivedIsSaved, AtRest, SomethingReceived, NothingLeft

LEMMA SaverStep ==
  ASSUME Inv, Fire \/ Saved \/ Stop \/ Flushed \/ Tick \/ Cancel
  PROVE  Inv'
<1>1. /\ TypeOK /\ LastHandedKept /\ SomethingReceived /\ NothingLeft /\ ReceivedIsSaved
      /\ UNCHANGED <<pending, baselineCh, handed, version, at, snap>>
  BY DEF Inv, BaselineKept, Fire, Saved, Stop, Flushed, Tick, Cancel, saverVars, engineVars
<1>2. LastHandedKept'
  BY <1>1 DEF LastHandedKept
<1>3. CASE Fire
  <2>1. /\ saver' = "saving" /\ timer = 0 /\ UNCHANGED <<timer, stored, failed, cancelled>>
    BY <1>3 DEF Fire
  <2>2. 0 # Off
    BY Sizes
  <2>3. QED
    BY <1>1, <1>2, <2>1, <2>2
    DEF Inv, BaselineKept, TypeOK, ReceivedIsSaved, AtRest, SomethingReceived, NothingLeft
<1>4. CASE Saved
  <2>1. /\ saver = "saving" /\ saver' = "select" /\ timer' = Off /\ UNCHANGED cancelled
        /\ stored' \in {stored, pending} /\ failed' \in BOOLEAN /\ (failed' \/ stored' = pending)
    BY <1>4 DEF Saved, AfterSave, SaveBaseline
  <2>2. pending # None
    BY <1>1, <2>1 DEF SomethingReceived
  <2>3. TypeOK'
    BY <1>1, <2>1, <2>2 DEF TypeOK
  <2>4. QED
    BY <1>1, <1>2, <2>1, <2>2, <2>3
    DEF Inv, BaselineKept, ReceivedIsSaved, AtRest, SomethingReceived, NothingLeft
<1>5. CASE Stop
  <2>1. /\ saver' = AtStop /\ timer' = Off /\ UNCHANGED <<stored, failed, cancelled>>
    BY <1>5 DEF Stop
  <2>2. saver' = IF pending = None THEN "exited" ELSE "flushing"
    BY <2>1 DEF AtStop
  <2>3. QED
    BY <1>1, <1>2, <2>1, <2>2
    DEF Inv, BaselineKept, TypeOK, ReceivedIsSaved, AtRest, SomethingReceived, NothingLeft
<1>6. CASE Flushed
  <2>1. /\ saver = "flushing" /\ saver' = "exited" /\ UNCHANGED <<timer, cancelled>>
        /\ stored' \in {stored, pending} /\ failed' \in BOOLEAN /\ (failed' \/ stored' = pending)
    BY <1>6 DEF Flushed, SaveBaseline
  <2>2. pending # None
    BY <1>1, <2>1 DEF SomethingReceived
  <2>3. TypeOK'
    BY <1>1, <2>1, <2>2 DEF TypeOK
  <2>4. QED
    BY <1>1, <1>2, <2>1, <2>2, <2>3
    DEF Inv, BaselineKept, ReceivedIsSaved, AtRest, SomethingReceived, NothingLeft
<1>7. CASE Tick
  <2>1. /\ timer \in Nat \ {0} /\ timer' = timer - 1
        /\ UNCHANGED <<saver, stored, failed, cancelled>>
    BY <1>7 DEF Tick
  <2>2. timer \in 1 .. Interval
    BY <1>1, <2>1, Sizes DEF TypeOK
  <2>3. timer' \in 0 .. Interval /\ timer # Off /\ timer' # Off
    BY <2>1, <2>2, Sizes
  <2>4. QED
    BY <1>1, <1>2, <2>1, <2>3
    DEF Inv, BaselineKept, TypeOK, ReceivedIsSaved, AtRest, SomethingReceived, NothingLeft
<1>8. CASE Cancel
  <2>1. SaverKept /\ cancelled' = TRUE
    BY <1>8 DEF Cancel, SaverKept, saverVars
  <2>2. TypeOK'
    BY <1>1, <2>1 DEF TypeOK, SaverKept
  <2>3. QED
    BY <1>2, <2>1, <2>2, SaverKeptStep DEF Inv, BaselineKept
<1>9. QED
  BY <1>3, <1>4, <1>5, <1>6, <1>7, <1>8

(***************************************************************************)
(* The snapshot whose hook call returned last is in the channel, with the  *)
(* saver, or was drained by a hook that is about to hand over its own,     *)
(* which need not be newer: last is said of the order of the hand-overs,   *)
(* not of the snapshots.  At rest the saver has written what it received,  *)
(* unless that failed.                                                     *)
(***************************************************************************)
THEOREM BaselineAlwaysKept == Spec => []BaselineKept
<1>1. Inv /\ [Next]_vars => Inv'
  <2> SUFFICES ASSUME Inv, [Next]_vars PROVE Inv'
    OBVIOUS
  <2>1. CASE \E p \in Publisher : Publish(p)
    BY <2>1, PublishStep
  <2>2. CASE startBaselineSaver \/ Tick \/ Cancel
    BY <2>2, ReceiveStep, SaverStep DEF startBaselineSaver
  <2>3. CASE Exit \/ UNCHANGED vars
    <3>1. UNCHANGED vars
      BY <2>3 DEF Exit
    <3>2. QED
      BY <3>1 DEF vars, engineVars, saverVars, Inv, BaselineKept, TypeOK, ReceivedIsSaved,
                  LastHandedKept, AtRest, SomethingReceived, NothingLeft
  <2>4. QED
    BY <2>1, <2>2, <2>3 DEF Next
<1>2. Inv => BaselineKept
  BY DEF Inv
<1>3. QED
  BY <1>1, <1>2, InitInv, PTL DEF Spec
=============================================================================
