-------------------------- MODULE StateStoreProofs --------------------------
(***************************************************************************)
(* The state store's types and what its two ConfigMaps promise, for any    *)
(* versions and any number of starts, snapshots and failed API calls.      *)
(***************************************************************************)
EXTENDS StateStore, TLAPS

LEMMA Sizes ==
  MaxRetries \in Nat \ {0} /\ MaxBoots \in Nat /\ MaxSaves \in Nat /\ MaxFaults \in Nat
BY StateStoreAssumption

LEMMA UnsetIsNot == Unset \notin Version /\ Unset \notin Nat
BY StateStoreAssumption

-----------------------------------------------------------------------------
(* The inductive invariant.                                                *)

StoreTypes ==
  /\ state \in ConfigMap(StateData) /\ dedicated \in ConfigMap(BaselineData)
  /\ taken \in Nat /\ faults \in Nat /\ readFailed \in BOOLEAN
  /\ acked \in Nat /\ handed \in [Version -> 0 .. 2] /\ greets \in 0 .. 2
  /\ latest \in Version

ProcessTypes ==
  /\ main \in Stage
  /\ running \in Version /\ boots \in 0 .. MaxBoots
  /\ clusterID \in Boot \cup {0} /\ shouldNotify \in BOOLEAN
  /\ baseline \in Nat
  /\ upgrader \in Version \cup {Unset}

(* A call read from the ConfigMap that it writes.                          *)
Fits(c) ==
  /\ c \in Call
  /\ c.cm \in IF c.update.op = "save" THEN ConfigMap(BaselineData) ELSE ConfigMap(StateData)

(* What was read is what is there, unless somebody has written since: no   *)
(* resource version is used twice.                                         *)
FreshFor(c, s, b) ==
  LET t == IF c.update.op = "save" THEN b ELSE s
  IN  c.at = "put" => (c.cm = t \/ c.cm.rv < t.rv)
Fresh(c)     == FreshFor(c, state, dedicated)
FreshNext(c) == FreshFor(c, state', dedicated')

CallTypes ==
  /\ call \in [Goroutine -> Call \cup {NoCall}]
  /\ \A g \in Goroutine : call[g] # NoCall => Fits(call[g]) /\ Fresh(call[g])

(* Who updates what, and at which stage of main: until the cluster's ID is *)
(* settled main is alone.                                                  *)
Owned ==
  /\ call["main"] # NoCall =>
       \/ main = "initializing" /\ call["main"].update.op = "init"
       \/ main = "saving" /\ call["main"].update.op = "save"
       \/ main = "clearing" /\ call["main"].update.op = "clear"
  /\ call["upgrader"] # NoCall => Started /\ call["upgrader"].update.op = "notify"
  /\ call["saver"] # NoCall => main = "run" /\ call["saver"].update.op = "save"
  /\ upgrader # Unset => Started

(* The boot that found no cluster ID is the one whose number becomes it.   *)
OwnID ==
  /\ main # "down" => boots \in Boot
  /\ state.rv = Absent => state.data = EmptyState
  /\ main = "create" => state.rv = Absent
  /\ main \in {"mark", "create", "initializing"} =>
       (state.data.clusterID = Unset => clusterID = boots)
  /\ call["main"] # NoCall /\ call["main"].update.op = "init" =>
       (state.data.clusterID = Unset => call["main"].update.id = call["main"].update.boot)

(* The old copy is cleared only after a new one was seen or written.       *)
ClearSafe == main = "clearing" => dedicated.data.snapshot # 0

(* Handed to the alert manager first, recorded afterwards.                 *)
HandedFirst ==
  /\ \A v \in Version : state.data.notified = v => handed[v] > 0
  /\ call["upgrader"] # NoCall => handed[call["upgrader"].update.version] > 0

Inv == StoreTypes /\ ProcessTypes /\ CallTypes /\ Owned /\ OwnID /\ ClearSafe /\ HandedFirst

LEMMA InvTypes == Inv => TypeOK
BY DEF Inv, StoreTypes, ProcessTypes, CallTypes, TypeOK

-----------------------------------------------------------------------------
(* Updates.                                                                *)

LEMMA UpdateKinds ==
  ASSUME NEW u \in Update
  PROVE  /\ u.op \in {"init", "notify", "clear", "save"}
         /\ u.op = "init" => u \in InitUpdate
         /\ u.op = "notify" => u \in NotifyUpdate
         /\ u.op = "clear" => u \in ClearUpdate
         /\ u.op = "save" => u \in SaveUpdate
BY DEF Update, InitUpdate, NotifyUpdate, ClearUpdate, SaveUpdate

LEMMA InitializedFields ==
  ASSUME NEW u \in InitUpdate, NEW d \in StateData
  PROVE  LET e == Initialized(u, d)
         IN  /\ e \in StateData
             /\ e.clusterID = IF d.clusterID = Unset THEN u.id ELSE d.clusterID
             /\ e.firstRun = IF d.firstRun = Unset THEN u.boot ELSE d.firstRun
             /\ e.version = u.version /\ e.notified = d.notified /\ e.legacy = d.legacy
<1>1. u.id \in Boot \cup {0} /\ u.boot \in Boot /\ u.version \in Version
  BY DEF InitUpdate
<1>2. QED
  BY <1>1 DEF Initialized, StateData

(* Each update changes the keys it is for.                                 *)
LEMMA UpdatedFields ==
  ASSUME NEW u \in Update, u.op # "save", NEW d \in StateData
  PROVE  LET e == Updated(u, d)
         IN  /\ e \in StateData
             /\ u.op = "init" => /\ u \in InitUpdate /\ e = Initialized(u, d)
             /\ u.op # "init" => /\ e.clusterID = d.clusterID /\ e.firstRun = d.firstRun
                                 /\ e.version = d.version
             /\ e.notified = IF u.op = "notify" THEN u.version ELSE d.notified
             /\ e.legacy = IF u.op = "clear" THEN 0 ELSE d.legacy
<1>1. CASE u.op = "init"
  <2>1. Updated(u, d) = Initialized(u, d)
    BY <1>1 DEF Updated
  <2>2. QED
    BY <1>1, <2>1, UpdateKinds, InitializedFields
<1>2. CASE u.op = "notify"
  <2>1. Updated(u, d) = [d EXCEPT !.notified = u.version] /\ u.version \in Version
    BY <1>2, UpdateKinds DEF Updated, NotifyUpdate
  <2>2. QED
    BY <1>2, <2>1 DEF StateData
<1>3. CASE u.op = "clear"
  <2>1. Updated(u, d) = [d EXCEPT !.legacy = 0]
    BY <1>3 DEF Updated
  <2>2. QED
    BY <1>3, <2>1 DEF StateData
<1>4. QED
  BY <1>1, <1>2, <1>3, UpdateKinds

LEMMA SavedData ==
  ASSUME NEW u \in Update, u.op = "save", NEW d
  PROVE  Updated(u, d) = [snapshot |-> u.snapshot] /\ u.snapshot \in Nat \ {0}
         /\ Updated(u, d) \in BaselineData
<1>1. u.snapshot \in Nat \ {0}
  BY UpdateKinds DEF SaveUpdate
<1>2. Updated(u, d) = [snapshot |-> u.snapshot]
  BY DEF Updated
<1>3. QED
  BY <1>1, <1>2 DEF BaselineData

(* A ConfigMap after a write.                                              *)
WrittenAs(old, new, data) ==
  /\ new.data = data /\ new.rv > 0
  /\ new = old \/ new.rv = old.rv + 1

LEMMA WrittenEffect ==
  ASSUME NEW D, NEW cm \in ConfigMap(D), NEW data \in D
  PROVE  Written(cm, data) \in ConfigMap(D) /\ WrittenAs(cm, Written(cm, data), data)
<1>1. cm.rv \in Nat /\ cm.data \in D
  BY DEF ConfigMap
<1>2. CASE cm.rv # Absent /\ cm.data = data
  BY <1>1, <1>2 DEF Written, WrittenAs, Absent
<1>3. CASE ~ (cm.rv # Absent /\ cm.data = data)
  <2>1. Written(cm, data) = [rv |-> cm.rv + 1, data |-> data]
    BY <1>3 DEF Written
  <2>2. QED
    BY <1>1, <2>1 DEF WrittenAs, ConfigMap
<1>4. QED
  BY <1>2, <1>3

(* What the write of an update does.                                       *)
Wrote(u) ==
  IF u.op = "save"
  THEN /\ state' = state /\ dedicated' \in ConfigMap(BaselineData)
       /\ WrittenAs(dedicated, dedicated', [snapshot |-> u.snapshot])
  ELSE /\ dedicated' = dedicated /\ state' \in ConfigMap(StateData)
       /\ WrittenAs(state, state', Updated(u, state.data))

(* A write that is not refused is the update of what is there.             *)
LEMMA CommitEffect ==
  ASSUME StoreTypes, NEW g \in Goroutine, Fits(call[g]), Fresh(call[g]), call[g].at = "put",
         Commit(g)
  PROVE  LET u == call[g].update
         IN  u \in Update /\ Wrote(u)
<1> DEFINE u == call[g].update
           cm == call[g].cm
<1>1. u \in Update
  BY DEF Fits, Call
<1>2. Unchanged(g) /\ Put(u, Written(Target(u), Updated(u, cm.data)))
  BY DEF Commit
<1>3. CASE u.op = "save"
  <2>1. Target(u) = dedicated /\ dedicated \in ConfigMap(BaselineData)
    BY <1>3 DEF Target, StoreTypes
  <2>2. Updated(u, cm.data) = [snapshot |-> u.snapshot] /\ Updated(u, cm.data) \in BaselineData
    BY <1>1, <1>3, SavedData
  <2>3. dedicated' = Written(dedicated, Updated(u, cm.data)) /\ state' = state
    BY <1>2, <1>3, <2>1 DEF Put
  <2>4. QED
    BY <1>1, <1>3, <2>1, <2>2, <2>3, WrittenEffect DEF Wrote
<1>4. CASE u.op # "save"
  <2>1. Target(u) = state /\ state \in ConfigMap(StateData)
    BY <1>4 DEF Target, StoreTypes
  <2>2. cm \in ConfigMap(StateData)
    BY <1>4 DEF Fits
  <2>3. cm.rv = state.rv /\ (cm = state \/ cm.rv < state.rv)
    BY <1>2, <1>4, <2>1 DEF Unchanged, Fresh, FreshFor
  <2>4. cm = state
    BY <2>1, <2>3 DEF ConfigMap
  <2>5. Updated(u, state.data) \in StateData
    BY <1>1, <1>4, <2>1, UpdatedFields DEF ConfigMap
  <2>6. state' = Written(state, Updated(u, state.data)) /\ dedicated' = dedicated
    BY <1>2, <1>4, <2>1, <2>4 DEF Put
  <2>7. QED
    BY <1>1, <1>4, <2>1, <2>5, <2>6, WrittenEffect DEF Wrote
<1>5. QED
  BY <1>3, <1>4

(* A ConfigMap changes only together with its resource version.            *)
Grow ==
  /\ state' = state \/ state.rv < state'.rv
  /\ dedicated' = dedicated \/ dedicated.rv < dedicated'.rv

LEMMA StoreStep ==
  ASSUME StoreTypes, NEW u \in Update, Wrote(u) \/ UNCHANGED cmVars
  PROVE  /\ state' \in ConfigMap(StateData) /\ dedicated' \in ConfigMap(BaselineData)
         /\ Grow
         /\ state'.rv = Absent => state' = state
         /\ dedicated.data.snapshot # 0 => dedicated'.data.snapshot # 0
<1>1. CASE UNCHANGED cmVars
  BY <1>1 DEF cmVars, StoreTypes, Grow
<1>2. CASE Wrote(u) /\ u.op = "save"
  <2>1. u.snapshot \in Nat \ {0}
    BY <1>2, SavedData
  <2>2. state' = state /\ dedicated' \in ConfigMap(BaselineData)
        /\ dedicated'.data = [snapshot |-> u.snapshot]
        /\ (dedicated' = dedicated \/ dedicated'.rv = dedicated.rv + 1)
    BY <1>2 DEF Wrote, WrittenAs
  <2>3. QED
    BY <2>1, <2>2 DEF StoreTypes, Grow, ConfigMap
<1>3. CASE Wrote(u) /\ u.op # "save"
  <2>1. dedicated' = dedicated /\ state' \in ConfigMap(StateData) /\ state'.rv > 0
        /\ (state' = state \/ state'.rv = state.rv + 1)
    BY <1>3 DEF Wrote, WrittenAs
  <2>2. QED
    BY <2>1 DEF StoreTypes, Grow, ConfigMap, Absent
<1>4. QED
  BY <1>1, <1>2, <1>3

(* What a goroutine read stays true or gets out of date.                   *)
LEMMA FreshKept ==
  ASSUME StoreTypes, StoreTypes', Grow, NEW c, Fits(c), Fresh(c)
  PROVE  FreshNext(c)
<1>1. c.cm.rv \in Nat
  BY DEF Fits, Call, ConfigMap
<1>2. state.rv \in Nat /\ state'.rv \in Nat /\ dedicated.rv \in Nat /\ dedicated'.rv \in Nat
  BY DEF StoreTypes, ConfigMap
<1>3. QED
  BY <1>1, <1>2 DEF Fresh, FreshNext, FreshFor, Grow

LEMMA CallsStep ==
  ASSUME StoreTypes, StoreTypes', CallTypes, Grow, NEW g \in Goroutine,
         NEW c, c = NoCall \/ (Fits(c) /\ FreshNext(c)),
         call' = [call EXCEPT ![g] = c]
  PROVE  CallTypes'
<1>1. c \in Call \cup {NoCall}
  BY DEF Fits
<1>2. call' \in [Goroutine -> Call \cup {NoCall}]
  BY <1>1 DEF CallTypes
<1>3. ASSUME NEW h \in Goroutine, call'[h] # NoCall
      PROVE  Fits(call'[h]) /\ FreshNext(call'[h])
  <2>1. CASE h = g
    BY <1>3, <2>1 DEF CallTypes
  <2>2. CASE h # g
    <3>1. call'[h] = call[h]
      BY <2>2 DEF CallTypes
    <3>2. Fits(call[h]) /\ Fresh(call[h])
      BY <1>3, <3>1 DEF CallTypes
    <3>3. QED
      BY <3>1, <3>2, FreshKept
  <2>3. QED
    BY <2>1, <2>2
<1>4. QED
  BY <1>2, <1>3 DEF CallTypes, Fresh, FreshNext, Fits

LEMMA CallsKept ==
  ASSUME StoreTypes, StoreTypes', CallTypes, Grow, call' = call
  PROVE  CallTypes'
<1>1. ASSUME NEW h \in Goroutine, call[h] # NoCall
      PROVE  Fits(call[h]) /\ FreshNext(call[h])
  BY <1>1, FreshKept DEF CallTypes
<1>2. QED
  BY <1>1 DEF CallTypes, Fresh, FreshNext, Fits

(* A call that begins.                                                     *)
LEMMA BeginCall ==
  ASSUME StoreTypes, StoreTypes', CallTypes, Grow, NEW g \in Goroutine, NEW u \in Update,
         Begin(g, u)
  PROVE  CallTypes' /\ call'[g].update = u /\ \A h \in Goroutine \ {g} : call'[h] = call[h]
<1> DEFINE c == [update |-> u, at |-> "get", attempt |-> 1, cm |-> Target(u)]
<1>1. call' = [call EXCEPT ![g] = c]
  BY DEF Begin
<1>2. Target(u) \in IF u.op = "save" THEN ConfigMap(BaselineData) ELSE ConfigMap(StateData)
  BY DEF Target, StoreTypes
<1>3. 1 \in 1 .. MaxRetries
  BY Sizes
<1>4. c \in Call
  BY <1>2, <1>3 DEF Call
<1>5. c.update = u /\ c.at = "get" /\ c.cm = Target(u)
  OBVIOUS
<1> HIDE DEF c
<1>6. Fits(c)
  BY <1>2, <1>4, <1>5 DEF Fits
<1>7. c.at # "put"
  BY <1>5
<1>8. FreshNext(c)
  BY <1>7 DEF FreshNext, FreshFor
<1>9. QED
  BY <1>1, <1>5, <1>6, <1>8, CallsStep DEF CallTypes

-----------------------------------------------------------------------------
(* UpdateWithRetry, whoever calls it.                                      *)

LEMMA ReturnStep ==
  ASSUME Inv, NEW g \in Goroutine, call[g] # NoCall, NEW ack \in BOOLEAN,
         Wrote(call[g].update) \/ (~ ack /\ UNCHANGED cmVars),
         Return(g, ack), faults' \in Nat, readFailed' \in BOOLEAN
  PROVE  Inv'
<1> DEFINE u == call[g].update
<1>1. Fits(call[g]) /\ u \in Update
  BY DEF Inv, CallTypes, Fits, Call
<1>2. /\ state' \in ConfigMap(StateData) /\ dedicated' \in ConfigMap(BaselineData)
      /\ Grow
      /\ state'.rv = Absent => state' = state
      /\ dedicated.data.snapshot # 0 => dedicated'.data.snapshot # 0
  BY <1>1, StoreStep DEF Inv
<1>3. /\ acked' = (IF u.op = "save" /\ ack THEN u.snapshot ELSE acked)
      /\ greets' \in {0, greets}
      /\ UNCHANGED <<running, boots, clusterID, shouldNotify, baseline, upgrader, latest, taken,
                     handed>>
  BY DEF Return
<1>4. u.op = "save" => u.snapshot \in Nat
  BY <1>1, SavedData
<1>5. StoreTypes'
  BY <1>2, <1>3, <1>4 DEF Inv, StoreTypes
<1>6. [op |-> "clear"] \in Update /\ [op |-> "clear"].op = "clear"
  BY DEF Update, ClearUpdate
<1>7. \/ /\ main' = (IF g # "main" THEN main ELSE IF main = "initializing" THEN "load" ELSE "greet")
         /\ call' = [call EXCEPT ![g] = NoCall]
      \/ /\ g = "main" /\ main = "saving" /\ ack
         /\ main' = "clearing" /\ Begin("main", [op |-> "clear"])
  BY DEF Return
<1>8. /\ CallTypes'
      /\ \A h \in Goroutine \ {g} : call'[h] = call[h]
      /\ call'[g] = NoCall \/ (g = "main" /\ main = "saving" /\ main' = "clearing" /\ ack
                                /\ call'[g].update.op = "clear")
  <2>1. CASE call' = [call EXCEPT ![g] = NoCall]
    BY <1>2, <1>5, <2>1, CallsStep DEF Inv, CallTypes
  <2>2. CASE g = "main" /\ main = "saving" /\ ack /\ main' = "clearing"
             /\ Begin("main", [op |-> "clear"])
    BY <1>2, <1>5, <1>6, <2>2, BeginCall DEF Inv
  <2>3. QED
    BY <1>7, <2>1, <2>2
<1>9. \/ g # "main" /\ main' = main
      \/ g = "main" /\ main \in {"initializing", "saving", "clearing"}
         /\ main' \in {"load", "clearing", "greet"}
         /\ (main' = "clearing" => main = "saving" /\ ack)
  BY <1>7 DEF Inv, Owned
<1>10. ProcessTypes'
  BY <1>3, <1>9 DEF Inv, ProcessTypes, Stage
<1>11. Owned'
  BY <1>3, <1>8, <1>9 DEF Inv, Owned, Started, Goroutine
<1>12. /\ u.op = "init" => g = "main"
       /\ u.op = "notify" => g = "upgrader"
       /\ g # "main" => Started
  BY DEF Inv, Owned, Goroutine, Started
<1>13. main' # "down" /\ main' \notin {"mark", "create", "initializing"}
  BY <1>9, <1>12 DEF Inv, Owned, Started
<1>14. ~ (call'["main"] # NoCall /\ call'["main"].update.op = "init")
  BY <1>8, <1>9, <1>12 DEF Inv, Owned, Started, Goroutine
<1>15. OwnID'
  <2>1. main # "down"
    BY <1>9, <1>12 DEF Started
  <2>2. QED
    BY <1>2, <1>3, <1>13, <1>14, <2>1 DEF Inv, OwnID
<1>16. ClearSafe'
  <2>1. CASE g = "main" /\ main' = "clearing"
    <3>1. main = "saving" /\ ack
      BY <1>9, <2>1
    <3>2. u.op = "save"
      BY <2>1, <3>1 DEF Inv, Owned
    <3>3. Wrote(u)
      BY <3>1
    <3>4. dedicated'.data = [snapshot |-> u.snapshot]
      BY <3>2, <3>3 DEF Wrote, WrittenAs
    <3>5. u.snapshot # 0
      BY <1>1, <3>2, SavedData
    <3>6. QED
      BY <3>4, <3>5 DEF ClearSafe
  <2>2. CASE g # "main" \/ main' # "clearing"
    BY <1>2, <1>9, <2>2 DEF Inv, ClearSafe
  <2>3. QED
    BY <2>1, <2>2
<1>17. HandedFirst'
  <2>1. \A v \in Version : state'.data.notified = v => handed[v] > 0
    <3>1. CASE state' = state
      BY <3>1 DEF Inv, HandedFirst
    <3>2. CASE Wrote(u) /\ u.op # "save"
      <4>1. state'.data = Updated(u, state.data) /\ state.data \in StateData
        BY <3>2 DEF Wrote, WrittenAs, Inv, StoreTypes, ConfigMap
      <4>2. state'.data.notified = IF u.op = "notify" THEN u.version ELSE state.data.notified
        BY <1>1, <3>2, <4>1, UpdatedFields
      <4>3. u.op = "notify" => handed[u.version] > 0
        BY <1>12 DEF Inv, HandedFirst
      <4>4. QED
        BY <4>2, <4>3 DEF Inv, HandedFirst
    <3>3. QED
      BY <3>1, <3>2 DEF Wrote, cmVars
  <2>2. call'["upgrader"] # NoCall => call'["upgrader"] = call["upgrader"]
    BY <1>8 DEF Goroutine
  <2>3. QED
    BY <1>3, <2>1, <2>2 DEF Inv, HandedFirst
<1>18. QED
  BY <1>5, <1>8, <1>10, <1>11, <1>15, <1>16, <1>17 DEF Inv

(* A call that goes on with the same update.                               *)
LEMMA SameCall ==
  ASSUME Inv, NEW g \in Goroutine, call[g] # NoCall, NEW c, Fits(c), FreshNext(c),
         c.update = call[g].update, call' = [call EXCEPT ![g] = c],
         UNCHANGED <<cmVars, main, running, boots, clusterID, shouldNotify, baseline, upgrader,
                     latest, taken, history>>,
         faults' \in Nat, readFailed' \in BOOLEAN
  PROVE  Inv'
<1>1. /\ UNCHANGED <<state, dedicated, taken, latest, acked, handed, greets>>
      /\ UNCHANGED <<main, running, boots, clusterID, shouldNotify, baseline, upgrader>>
  BY DEF cmVars, history
<1>2. StoreTypes' /\ Grow
  BY <1>1 DEF Inv, StoreTypes, Grow
<1>3. CallTypes'
  BY <1>2, CallsStep DEF Inv
<1>4. \A h \in Goroutine : IF h = g THEN call'[h] = c ELSE call'[h] = call[h]
  BY DEF Inv, CallTypes
<1>5. \A h \in Goroutine : call'[h] # NoCall =>
        call[h] # NoCall /\ call'[h].update = call[h].update
  BY <1>4
<1>6. "main" \in Goroutine /\ "upgrader" \in Goroutine /\ "saver" \in Goroutine
  BY DEF Goroutine
<1>7. ProcessTypes'
  BY <1>1 DEF Inv, ProcessTypes
<1>8. Owned'
  BY <1>1, <1>5, <1>6 DEF Inv, Owned, Started
<1>9. OwnID'
  BY <1>1, <1>5, <1>6 DEF Inv, OwnID
<1>10. ClearSafe' /\ HandedFirst'
  BY <1>1, <1>5, <1>6 DEF Inv, ClearSafe, HandedFirst
<1>11. QED
  BY <1>2, <1>3, <1>7, <1>8, <1>9, <1>10 DEF Inv

LEMMA GetStep ==
  ASSUME Inv, NEW g \in Goroutine, RetryGet(g)
  PROVE  Inv'
<1> DEFINE c == [call[g] EXCEPT !.at = "put", !.cm = Target(call[g].update)]
<1>1. /\ call[g] # NoCall
      /\ call' = [call EXCEPT ![g].at = "put", ![g].cm = Target(call[g].update)]
      /\ UNCHANGED <<faults, readFailed>>
      /\ UNCHANGED <<cmVars, main, running, boots, clusterID, shouldNotify, baseline, upgrader,
                     latest, taken, history>>
  BY DEF RetryGet, InCall, GetAnswers
<1>2. call[g] \in Call
  BY <1>1 DEF Inv, CallTypes
<1>3. Target(call[g].update) \in
        IF call[g].update.op = "save" THEN ConfigMap(BaselineData) ELSE ConfigMap(StateData)
  BY DEF Target, Inv, StoreTypes
<1>4. c \in Call /\ c.update = call[g].update /\ c.cm = Target(call[g].update)
  BY <1>2, <1>3 DEF Call
<1>5. call' = [call EXCEPT ![g] = c]
  BY <1>1 DEF Inv, CallTypes
<1> HIDE DEF c
<1>6. Fits(c)
  BY <1>3, <1>4 DEF Fits
<1>7. FreshNext(c)
  BY <1>1, <1>4 DEF FreshNext, FreshFor, Target, cmVars
<1>8. faults' \in Nat /\ readFailed' \in BOOLEAN
  BY <1>1 DEF Inv, StoreTypes
<1>9. QED
  BY <1>1, <1>4, <1>5, <1>6, <1>7, <1>8, SameCall

LEMMA AgainStep ==
  ASSUME Inv, NEW g \in Goroutine, call[g] # NoCall, RoundsLeft(g), Again(g),
         UNCHANGED <<faults, readFailed>>,
         UNCHANGED <<cmVars, main, running, boots, clusterID, shouldNotify, baseline, upgrader,
                     latest, taken, history>>
  PROVE  Inv'
<1> DEFINE c == [call[g] EXCEPT !.at = "get", !.attempt = @ + 1]
<1>1. Fits(call[g]) /\ call[g] \in Call
  BY DEF Inv, CallTypes
<1>2. call[g].attempt + 1 \in 1 .. MaxRetries
  BY <1>1, Sizes DEF RoundsLeft, Call
<1>3. c \in Call /\ c.update = call[g].update /\ c.cm = call[g].cm /\ c.at = "get"
  BY <1>1, <1>2 DEF Call
<1>4. call' = [call EXCEPT ![g] = c]
  BY DEF Inv, CallTypes, Again
<1> HIDE DEF c
<1>5. Fits(c)
  BY <1>1, <1>3 DEF Fits
<1>6. FreshNext(c)
  BY <1>3 DEF FreshNext, FreshFor
<1>7. faults' \in Nat /\ readFailed' \in BOOLEAN
  BY DEF Inv, StoreTypes
<1>8. QED
  BY <1>3, <1>4, <1>5, <1>6, <1>7, SameCall

LEMMA FaultTypes ==
  ASSUME StoreTypes
  PROVE  /\ GetAnswers => faults' \in Nat /\ readFailed' \in BOOLEAN
         /\ GetFails => faults' \in Nat /\ readFailed' \in BOOLEAN
         /\ Fault => faults' \in Nat
<1>1. Fault => faults' \in Nat
  BY DEF StoreTypes, Fault
<1>2. readFailed' = TRUE => readFailed' \in BOOLEAN
  OBVIOUS
<1>3. QED
  BY <1>1, <1>2 DEF StoreTypes, GetAnswers, GetFails

(* How a call ends: with its write done, or not done and not acknowledged. *)
LEMMA PutEffect ==
  ASSUME Inv, NEW g \in Goroutine, InCall(g, "put"), Commit(g)
  PROVE  Wrote(call[g].update)
BY CommitEffect DEF Inv, CallTypes, InCall

LEMMA UpdateStep ==
  ASSUME Inv, NEW g \in Goroutine, UpdateWithRetry(g)
  PROVE  Inv'
<1>1. CASE RetryGet(g)
  BY <1>1, GetStep
<1>2. CASE RetrySucceeds(g)
  <2>1. call[g] # NoCall /\ Wrote(call[g].update)
    BY <1>2, PutEffect DEF RetrySucceeds, InCall
  <2>2. Return(g, TRUE) /\ faults' \in Nat /\ readFailed' \in BOOLEAN
    BY <1>2, FaultTypes DEF RetrySucceeds, Inv
  <2>3. QED
    BY <2>1, <2>2, ReturnStep
<1>3. CASE RetryFails(g)
  <2>1. call[g] # NoCall /\ Return(g, FALSE)
    BY <1>3 DEF RetryFails, InCall
  <2>2. faults' \in Nat /\ readFailed' \in BOOLEAN
    BY <1>3, FaultTypes DEF RetryFails, Inv, StoreTypes
  <2>3. Wrote(call[g].update) \/ UNCHANGED cmVars
    BY <1>3, PutEffect DEF RetryFails
  <2>4. QED
    BY <2>1, <2>2, <2>3, ReturnStep
<1>4. CASE Refused(g)
  <2>1. call[g] # NoCall /\ UNCHANGED cmVars /\ UNCHANGED <<faults, readFailed>>
    BY <1>4 DEF Refused, InCall, GetAnswers
  <2>2. CASE Return(g, FALSE)
    <3>1. faults' \in Nat /\ readFailed' \in BOOLEAN
      BY <2>1 DEF Inv, StoreTypes
    <3>2. QED
      BY <2>1, <2>2, <3>1, ReturnStep
  <2>3. CASE ~ Return(g, FALSE)
    <3>1. /\ RoundsLeft(g) /\ Again(g)
          /\ UNCHANGED <<main, running, boots, clusterID, shouldNotify, baseline, upgrader,
                         latest, taken, history>>
      BY <1>4, <2>3 DEF Refused
    <3>2. QED
      BY <2>1, <3>1, AgainStep
  <2>4. QED
    BY <2>2, <2>3
<1>5. QED
  BY <1>1, <1>2, <1>3, <1>4 DEF UpdateWithRetry

-----------------------------------------------------------------------------
(* main.                                                                   *)

LEMMA CallFrame ==
  ASSUME StoreTypes, StoreTypes', CallTypes, UNCHANGED <<cmVars, call>>
  PROVE  CallTypes'
<1>1. Grow /\ call' = call
  BY DEF Grow, cmVars
<1>2. QED
  BY <1>1, CallsKept

LEMMA HandleStartupStep ==
  ASSUME Inv, HandleStartup
  PROVE  Inv'
<1>1. /\ main = "start" /\ main' = "mark"
      /\ UNCHANGED <<cmVars, running, boots, baseline, upgrader, call, latest, taken, history>>
      /\ GetAnswers \/ GetFails
  BY DEF HandleStartup
<1>2. \E read \in BOOLEAN : clusterID' = EnsureClusterID(read)
  BY DEF HandleStartup
<1>3. shouldNotify' \in BOOLEAN
  BY ZenonT(30) DEF HandleStartup
<1>4. boots \in Boot /\ state.data.clusterID \in Boot \cup {0, Unset}
  BY <1>1 DEF Inv, OwnID, StoreTypes, ConfigMap, StateData
<1>5. /\ clusterID' \in Boot \cup {0}
      /\ state.data.clusterID = Unset => clusterID' = boots
  BY <1>2, <1>4 DEF EnsureClusterID
<1>6. faults' \in Nat /\ readFailed' \in BOOLEAN
  BY <1>1, FaultTypes DEF Inv
<1>7. StoreTypes'
  BY <1>1, <1>6 DEF Inv, StoreTypes, cmVars, history
<1>8. CallTypes'
  BY <1>1, <1>7, CallFrame DEF Inv
<1>9. ProcessTypes'
  BY <1>1, <1>3, <1>5 DEF Inv, ProcessTypes, Stage
<1>10. Owned'
  BY <1>1 DEF Inv, Owned, Started
<1>11. OwnID'
  BY <1>1, <1>4, <1>5 DEF Inv, OwnID, Owned, cmVars
<1>12. ClearSafe' /\ HandedFirst'
  BY <1>1 DEF Inv, ClearSafe, HandedFirst, cmVars, history
<1>13. QED
  BY <1>7, <1>8, <1>9, <1>10, <1>11, <1>12 DEF Inv

LEMMA ThisBootType ==
  ASSUME Inv, main # "down"
  PROVE  /\ ThisBoot \in InitUpdate /\ ThisBoot \in Update
         /\ ThisBoot.op = "init" /\ ThisBoot.id = clusterID /\ ThisBoot.boot = boots
         /\ ThisBoot.version = running
<1>1. boots \in Boot /\ clusterID \in Boot \cup {0} /\ running \in Version
  BY DEF Inv, OwnID, ProcessTypes
<1>2. QED
  BY <1>1 DEF ThisBoot, InitUpdate, Update

LEMMA MarkStep ==
  ASSUME Inv, MarkAsInitialized
  PROVE  Inv'
<1>1. /\ main = "mark"
      /\ UNCHANGED <<cmVars, running, boots, clusterID, shouldNotify, baseline, upgrader, latest,
                     taken, history>>
      /\ GetAnswers \/ GetFails
  BY DEF MarkAsInitialized
<1>2. faults' \in Nat /\ readFailed' \in BOOLEAN
  BY <1>1, FaultTypes DEF Inv
<1>3. StoreTypes' /\ Grow
  BY <1>1, <1>2 DEF Inv, StoreTypes, Grow, cmVars, history
<1>4. /\ call["main"] = NoCall /\ call["upgrader"] = NoCall /\ call["saver"] = NoCall
      /\ upgrader = Unset /\ boots \in Boot
      /\ state.data.clusterID = Unset => clusterID = boots
  BY <1>1 DEF Inv, Owned, OwnID, Started
<1>5. CASE call' = call /\ main' \in {"load", "create"} /\ (main' = "create" => state.rv = Absent)
  <2>1. CallTypes'
    BY <1>3, <1>5, CallsKept DEF Inv
  <2>2. ProcessTypes'
    BY <1>1, <1>5 DEF Inv, ProcessTypes, Stage
  <2>3. Owned'
    BY <1>1, <1>4, <1>5 DEF Inv, Owned, Started
  <2>4. OwnID'
    BY <1>1, <1>4, <1>5 DEF Inv, OwnID, cmVars
  <2>5. ClearSafe' /\ HandedFirst'
    BY <1>1, <1>5 DEF Inv, ClearSafe, HandedFirst, cmVars, history
  <2>6. QED
    BY <1>3, <2>1, <2>2, <2>3, <2>4, <2>5 DEF Inv
<1>6. CASE main' = "initializing" /\ Begin("main", ThisBoot)
  <2>1. /\ CallTypes' /\ call'["main"].update = ThisBoot
        /\ call'["upgrader"] = NoCall /\ call'["saver"] = NoCall
    BY <1>1, <1>3, <1>4, <1>6, ThisBootType, BeginCall DEF Inv, Goroutine
  <2>2. ProcessTypes'
    BY <1>1, <1>6 DEF Inv, ProcessTypes, Stage
  <2>3. Owned'
    BY <1>1, <1>4, <1>6, <2>1, ThisBootType DEF Inv, Owned, Started
  <2>4. OwnID'
    BY <1>1, <1>4, <1>6, <2>1, ThisBootType DEF Inv, OwnID, cmVars
  <2>5. ClearSafe' /\ HandedFirst'
    BY <1>1, <1>6, <2>1 DEF Inv, ClearSafe, HandedFirst, cmVars, history
  <2>6. QED
    BY <1>3, <2>1, <2>2, <2>3, <2>4, <2>5 DEF Inv
<1>7. QED
  BY <1>5, <1>6 DEF MarkAsInitialized

(* What createConfigMap leaves in kwatch-state.                            *)
Created == [rv |-> 1, data |-> Initialized(ThisBoot, EmptyState)]

LEMMA EmptyStateType == EmptyState \in StateData
BY DEF EmptyState, StateData

LEMMA CreatedType ==
  ASSUME Inv, main # "down"
  PROVE  /\ Created \in ConfigMap(StateData) /\ Created.rv = 1
         /\ Created.data.clusterID = clusterID /\ Created.data.firstRun = boots
         /\ Created.data.version = running
         /\ Created.data.notified = Unset /\ Created.data.legacy = 0
<1> DEFINE e == Initialized(ThisBoot, EmptyState)
<1>1. ThisBoot \in InitUpdate /\ ThisBoot.id = clusterID /\ ThisBoot.boot = boots
      /\ ThisBoot.version = running
  BY ThisBootType
<1>2. EmptyState.clusterID = Unset /\ EmptyState.firstRun = Unset
      /\ EmptyState.notified = Unset /\ EmptyState.legacy = 0
  BY DEF EmptyState
<1>3. /\ e \in StateData
      /\ e.clusterID = clusterID /\ e.firstRun = boots /\ e.version = running
      /\ e.notified = Unset /\ e.legacy = 0
  BY <1>1, <1>2, EmptyStateType, InitializedFields
<1>4. Created = [rv |-> 1, data |-> e]
  BY DEF Created
<1> HIDE DEF e
<1>5. QED
  BY <1>3, <1>4 DEF ConfigMap

LEMMA CreateStep ==
  ASSUME Inv, createConfigMap
  PROVE  Inv'
<1>1. /\ main = "create" /\ main' = "load"
      /\ state' = state \/ state' = Created
      /\ faults' = faults \/ Fault
      /\ greets' \in {0, greets}
      /\ UNCHANGED <<dedicated, running, boots, clusterID, shouldNotify, baseline, upgrader, call,
                     latest, taken, readFailed, acked, handed>>
  BY DEF createConfigMap, Created
<1>2. /\ Created \in ConfigMap(StateData) /\ Created.rv = 1 /\ Created.data.notified = Unset
  BY <1>1, CreatedType
<1>3. state.rv = 0
  BY <1>1 DEF Inv, OwnID, Absent
<1>4. faults' \in Nat
  BY <1>1, FaultTypes DEF Inv, StoreTypes
<1>5. StoreTypes' /\ Grow
  BY <1>1, <1>2, <1>3, <1>4 DEF Inv, StoreTypes, Grow
<1>6. CallTypes'
  BY <1>1, <1>5, CallsKept DEF Inv
<1>7. ProcessTypes'
  BY <1>1 DEF Inv, ProcessTypes, Stage
<1>8. Owned'
  BY <1>1 DEF Inv, Owned, Started
<1>9. OwnID'
  BY <1>1, <1>2 DEF Inv, OwnID, Owned, Absent
<1>10. ClearSafe'
  BY <1>1 DEF ClearSafe
<1>11. HandedFirst'
  BY <1>1, <1>2, UnsetIsNot DEF Inv, HandedFirst
<1>12. QED
  BY <1>5, <1>6, <1>7, <1>8, <1>9, <1>10, <1>11 DEF Inv

LEMMA GetBaselineStep ==
  ASSUME Inv, GetBaseline
  PROVE  Inv'
<1>1. /\ main = "load" /\ main' = "migrate"
      /\ baseline' \in {state.data.legacy, dedicated.data.snapshot}
      /\ UNCHANGED <<cmVars, running, boots, clusterID, shouldNotify, upgrader, call, latest,
                     taken, history>>
      /\ GetAnswers \/ GetFails
  BY DEF GetBaseline, Fallback
<1>2. state.data.legacy \in Nat /\ dedicated.data.snapshot \in Nat
  BY DEF Inv, StoreTypes, ConfigMap, StateData, BaselineData
<1>3. faults' \in Nat /\ readFailed' \in BOOLEAN
  BY <1>1, FaultTypes DEF Inv
<1>4. StoreTypes'
  BY <1>1, <1>3 DEF Inv, StoreTypes, cmVars, history
<1>5. CallTypes'
  BY <1>1, <1>4, CallFrame DEF Inv
<1>6. ProcessTypes'
  BY <1>1, <1>2 DEF Inv, ProcessTypes, Stage
<1>7. Owned'
  BY <1>1 DEF Inv, Owned, Started
<1>8. OwnID'
  BY <1>1 DEF Inv, OwnID, cmVars
<1>9. ClearSafe' /\ HandedFirst'
  BY <1>1 DEF Inv, ClearSafe, HandedFirst, cmVars, history
<1>10. QED
  BY <1>4, <1>5, <1>6, <1>7, <1>8, <1>9 DEF Inv

LEMMA MigrateStep ==
  ASSUME Inv, MigrateLegacyBaseline
  PROVE  Inv'
<1> DEFINE clear == [op |-> "clear"]
           copy  == [op |-> "save", snapshot |-> state.data.legacy]
<1>1. /\ main = "migrate"
      /\ UNCHANGED <<cmVars, running, boots, clusterID, shouldNotify, baseline, upgrader, latest,
                     taken, history>>
      /\ GetAnswers \/ GetFails
  BY DEF MigrateLegacyBaseline
<1>2. \/ main' = "greet" /\ call' = call
      \/ main' = "clearing" /\ Begin("main", clear) /\ dedicated.data.snapshot # 0
      \/ main' = "saving" /\ Begin("main", copy) /\ state.data.legacy # 0
  BY DEF MigrateLegacyBaseline, Migration, Copied
<1>3. faults' \in Nat /\ readFailed' \in BOOLEAN
  BY <1>1, FaultTypes DEF Inv
<1>4. StoreTypes' /\ Grow
  BY <1>1, <1>3 DEF Inv, StoreTypes, Grow, cmVars, history
<1>5. call["main"] = NoCall /\ call["saver"] = NoCall
  BY <1>1 DEF Inv, Owned
<1>6. state.data.legacy \in Nat
  BY DEF Inv, StoreTypes, ConfigMap, StateData
<1>7. /\ clear \in Update /\ clear.op = "clear"
      /\ state.data.legacy # 0 => copy \in Update /\ copy.op = "save"
  BY <1>6 DEF Update, ClearUpdate, SaveUpdate
<1> HIDE DEF clear, copy
<1>8. /\ CallTypes'
      /\ call'["upgrader"] = call["upgrader"] /\ call'["saver"] = NoCall
      /\ \/ main' = "greet" /\ call'["main"] = NoCall
         \/ main' = "clearing" /\ call'["main"].update.op = "clear"
            /\ dedicated.data.snapshot # 0
         \/ main' = "saving" /\ call'["main"].update.op = "save"
  <2>1. CASE main' = "greet" /\ call' = call
    BY <1>4, <1>5, <2>1, CallsKept DEF Inv
  <2>2. CASE main' = "clearing" /\ Begin("main", clear) /\ dedicated.data.snapshot # 0
    BY <1>4, <1>5, <1>7, <2>2, BeginCall DEF Inv, Goroutine
  <2>3. CASE main' = "saving" /\ Begin("main", copy) /\ state.data.legacy # 0
    BY <1>4, <1>5, <1>7, <2>3, BeginCall DEF Inv, Goroutine
  <2>4. QED
    BY <1>2, <2>1, <2>2, <2>3
<1>9. ProcessTypes'
  BY <1>1, <1>8 DEF Inv, ProcessTypes, Stage
<1>10. Owned'
  BY <1>1, <1>8 DEF Inv, Owned, Started
<1>11. OwnID'
  BY <1>1, <1>8 DEF Inv, OwnID, cmVars
<1>12. ClearSafe' /\ HandedFirst'
  BY <1>1, <1>8 DEF Inv, ClearSafe, HandedFirst, cmVars, history
<1>13. QED
  BY <1>4, <1>8, <1>9, <1>10, <1>11, <1>12 DEF Inv

LEMMA NotifyStep ==
  ASSUME Inv, NotifyStartup
  PROVE  Inv'
<1>1. /\ main = "greet" /\ main' = "run"
      /\ greets' \in {greets, Capped(greets)}
      /\ UNCHANGED <<cmVars, running, boots, clusterID, shouldNotify, baseline, upgrader, call,
                     latest, taken, faults, readFailed, acked, handed>>
  BY DEF NotifyStartup
<1>2. StoreTypes'
  BY <1>1 DEF Inv, StoreTypes, cmVars, Capped
<1>3. CallTypes'
  BY <1>1, <1>2, CallFrame DEF Inv
<1>4. ProcessTypes'
  BY <1>1 DEF Inv, ProcessTypes, Stage
<1>5. Owned'
  BY <1>1 DEF Inv, Owned, Started
<1>6. OwnID'
  BY <1>1 DEF Inv, OwnID, cmVars
<1>7. ClearSafe' /\ HandedFirst'
  BY <1>1 DEF Inv, ClearSafe, HandedFirst, cmVars
<1>8. QED
  BY <1>2, <1>3, <1>4, <1>5, <1>6, <1>7 DEF Inv

-----------------------------------------------------------------------------
(* The upgrader, the saver and the process.                                *)

LEMMA CheckReleaseStep ==
  ASSUME Inv, checkRelease
  PROVE  Inv'
<1>1. /\ Started /\ upgrader' \in {upgrader, latest}
      /\ UNCHANGED <<cmVars, main, running, boots, clusterID, shouldNotify, baseline, call, latest,
                     taken, history>>
      /\ GetAnswers \/ GetFails \/ (Fault /\ UNCHANGED readFailed)
  BY DEF checkRelease, GetLatestReleaseFails
<1>2. faults' \in Nat /\ readFailed' \in BOOLEAN
  BY <1>1, FaultTypes DEF Inv, StoreTypes
<1>3. StoreTypes'
  BY <1>1, <1>2 DEF Inv, StoreTypes, cmVars, history
<1>4. CallTypes'
  BY <1>1, <1>3, CallFrame DEF Inv
<1>5. ProcessTypes'
  BY <1>1 DEF Inv, ProcessTypes, StoreTypes
<1>6. Owned'
  BY <1>1 DEF Inv, Owned, Started
<1>7. OwnID'
  BY <1>1 DEF Inv, OwnID, cmVars
<1>8. ClearSafe' /\ HandedFirst'
  BY <1>1 DEF Inv, ClearSafe, HandedFirst, cmVars, history
<1>9. QED
  BY <1>3, <1>4, <1>5, <1>6, <1>7, <1>8 DEF Inv

LEMMA AnnounceStep ==
  ASSUME Inv, Announce
  PROVE  Inv'
<1> DEFINE note == [op |-> "notify", version |-> upgrader]
<1>1. /\ upgrader # Unset /\ upgrader' = Unset
      /\ handed' = [handed EXCEPT ![upgrader] = Capped(@)]
      /\ Begin("upgrader", note)
      /\ UNCHANGED <<cmVars, main, running, boots, clusterID, shouldNotify, baseline, latest,
                     taken, faults, readFailed, acked, greets>>
  BY DEF Announce
<1>2. upgrader \in Version
  BY <1>1 DEF Inv, ProcessTypes
<1>3. note \in Update /\ note.op = "notify" /\ note.version = upgrader
  BY <1>2 DEF Update, NotifyUpdate
<1> HIDE DEF note
<1>4. /\ handed' \in [Version -> 0 .. 2] /\ handed'[upgrader] > 0
      /\ \A v \in Version : handed[v] > 0 => handed'[v] > 0
  BY <1>1, <1>2 DEF Inv, StoreTypes, Capped
<1>5. StoreTypes' /\ Grow
  BY <1>1, <1>4 DEF Inv, StoreTypes, Grow, cmVars
<1>6. /\ CallTypes' /\ call'["upgrader"].update = note
      /\ call'["main"] = call["main"] /\ call'["saver"] = call["saver"]
  BY <1>1, <1>3, <1>5, BeginCall DEF Inv, Goroutine
<1>7. ProcessTypes'
  BY <1>1 DEF Inv, ProcessTypes
<1>8. Owned'
  BY <1>1, <1>3, <1>6 DEF Inv, Owned, Started
<1>9. OwnID'
  BY <1>1, <1>6 DEF Inv, OwnID, cmVars
<1>10. ClearSafe' /\ HandedFirst'
  BY <1>1, <1>3, <1>4, <1>6 DEF Inv, ClearSafe, HandedFirst, cmVars
<1>11. QED
  BY <1>5, <1>6, <1>7, <1>8, <1>9, <1>10 DEF Inv

LEMMA SaveStep ==
  ASSUME Inv, SaveBaseline
  PROVE  Inv'
<1> DEFINE save == [op |-> "save", snapshot |-> taken + 1]
<1>1. /\ main = "run" /\ taken' = taken + 1
      /\ Begin("saver", save)
      /\ UNCHANGED <<cmVars, main, running, boots, clusterID, shouldNotify, baseline, upgrader,
                     latest, faults, readFailed, history>>
  BY DEF SaveBaseline
<1>2. save \in Update /\ save.op = "save"
  BY DEF Update, SaveUpdate, Inv, StoreTypes
<1> HIDE DEF save
<1>3. StoreTypes' /\ Grow
  BY <1>1 DEF Inv, StoreTypes, Grow, cmVars, history
<1>4. /\ CallTypes' /\ call'["saver"].update = save
      /\ call'["main"] = call["main"] /\ call'["upgrader"] = call["upgrader"]
  BY <1>1, <1>2, <1>3, BeginCall DEF Inv, Goroutine
<1>5. ProcessTypes'
  BY <1>1 DEF Inv, ProcessTypes
<1>6. Owned'
  BY <1>1, <1>2, <1>4 DEF Inv, Owned, Started
<1>7. OwnID'
  BY <1>1, <1>4 DEF Inv, OwnID, cmVars
<1>8. ClearSafe' /\ HandedFirst'
  BY <1>1, <1>4 DEF Inv, ClearSafe, HandedFirst, cmVars, history
<1>9. QED
  BY <1>3, <1>4, <1>5, <1>6, <1>7, <1>8 DEF Inv

LEMMA CrashStep ==
  ASSUME Inv, Crash
  PROVE  Inv'
<1>1. /\ main' = "down" /\ upgrader' = Unset
      /\ call' = [g \in Goroutine |-> NoCall]
      /\ UNCHANGED <<cmVars, running, boots, clusterID, shouldNotify, baseline, latest, taken,
                     faults, readFailed, history>>
  BY DEF Crash
<1>2. call'["main"] = NoCall /\ call'["upgrader"] = NoCall /\ call'["saver"] = NoCall
  BY <1>1 DEF Goroutine
<1>3. StoreTypes'
  BY <1>1 DEF Inv, StoreTypes, cmVars, history
<1>4. CallTypes'
  BY <1>1 DEF CallTypes
<1>5. ProcessTypes'
  BY <1>1 DEF Inv, ProcessTypes, Stage
<1>6. Owned'
  BY <1>1, <1>2 DEF Owned
<1>7. OwnID'
  BY <1>1, <1>2 DEF Inv, OwnID, cmVars
<1>8. ClearSafe' /\ HandedFirst'
  BY <1>1, <1>2 DEF Inv, ClearSafe, HandedFirst, cmVars, history
<1>9. QED
  BY <1>3, <1>4, <1>5, <1>6, <1>7, <1>8 DEF Inv

LEMMA RestartStep ==
  ASSUME Inv, Restart
  PROVE  Inv'
<1>1. /\ main = "down" /\ main' = "start"
      /\ boots < MaxBoots /\ boots' = boots + 1 /\ running' \in Version
      /\ UNCHANGED <<cmVars, clusterID, shouldNotify, baseline, upgrader, call, latest, taken,
                     faults, readFailed, history>>
  BY DEF Restart
<1>2. boots' \in Boot /\ boots' \in 0 .. MaxBoots
  BY <1>1, Sizes DEF Inv, ProcessTypes, Boot
<1>3. StoreTypes'
  BY <1>1 DEF Inv, StoreTypes, cmVars, history
<1>4. CallTypes'
  BY <1>1, <1>3, CallFrame DEF Inv
<1>5. ProcessTypes'
  BY <1>1, <1>2 DEF Inv, ProcessTypes, Stage
<1>6. Owned'
  BY <1>1 DEF Inv, Owned, Started
<1>7. OwnID'
  BY <1>1, <1>2 DEF Inv, OwnID, Owned, cmVars
<1>8. ClearSafe' /\ HandedFirst'
  BY <1>1 DEF Inv, ClearSafe, HandedFirst, cmVars, history
<1>9. QED
  BY <1>3, <1>4, <1>5, <1>6, <1>7, <1>8 DEF Inv

LEMMA ReleaseStep ==
  ASSUME Inv, latest' \in Version, UNCHANGED <<cmVars, processVars, taken, faults, readFailed, history>>
  PROVE  Inv'
<1>1. StoreTypes'
  BY DEF Inv, StoreTypes, cmVars, history
<1>2. CallTypes'
  BY <1>1, CallFrame DEF Inv, processVars
<1>3. ProcessTypes' /\ Owned' /\ OwnID'
  BY DEF Inv, ProcessTypes, Owned, OwnID, Started, processVars, cmVars
<1>4. ClearSafe' /\ HandedFirst'
  BY DEF Inv, ClearSafe, HandedFirst, processVars, cmVars, history
<1>5. QED
  BY <1>1, <1>2, <1>3, <1>4 DEF Inv

-----------------------------------------------------------------------------
(* The invariant.                                                          *)

LEMMA InvInit == Init => Inv
<1> SUFFICES ASSUME Init PROVE Inv
  OBVIOUS
<1>1. /\ NoBaseline \in BaselineData /\ NoBaseline.snapshot = 0
      /\ [snapshot |-> 1] \in BaselineData /\ EmptyState \in StateData
      /\ EmptyState.notified = Unset /\ EmptyState.legacy = 0
  BY EmptyStateType DEF NoBaseline, BaselineData, EmptyState
<1>2. ASSUME NEW v \in Version, NEW old \in {0, 1}
      PROVE  [init |-> TRUE, clusterID |-> 0, firstRun |-> 0, version |-> v,
              notified |-> Unset, legacy |-> old] \in StateData
  BY DEF StateData
<1>3. /\ state \in ConfigMap(StateData) /\ dedicated \in ConfigMap(BaselineData)
      /\ state.data.notified = Unset
      /\ state.rv = Absent => state.data = EmptyState
  <2>1. CASE state = [rv |-> Absent, data |-> EmptyState]
             /\ dedicated = [rv |-> Absent, data |-> NoBaseline]
    BY <1>1, <2>1 DEF ConfigMap, Absent
  <2>2. CASE \E v \in Version, old \in {0, 1} :
               /\ state = [rv |-> 1, data |->
                           [init |-> TRUE, clusterID |-> 0, firstRun |-> 0, version |-> v,
                            notified |-> Unset, legacy |-> old]]
               /\ dedicated \in {[rv |-> Absent, data |-> NoBaseline],
                                 [rv |-> 1, data |-> [snapshot |-> 1]]}
    <3>1. PICK v \in Version, old \in {0, 1} :
            /\ state = [rv |-> 1, data |->
                        [init |-> TRUE, clusterID |-> 0, firstRun |-> 0, version |-> v,
                         notified |-> Unset, legacy |-> old]]
            /\ dedicated \in {[rv |-> Absent, data |-> NoBaseline],
                              [rv |-> 1, data |-> [snapshot |-> 1]]}
      BY <2>2
    <3>2. state.data \in StateData /\ state.data.notified = Unset /\ state.rv = 1
      BY <1>2, <3>1
    <3>3. state \in ConfigMap(StateData)
      BY <3>1, <3>2 DEF ConfigMap
    <3>4. dedicated \in ConfigMap(BaselineData)
      BY <1>1, <3>1 DEF ConfigMap, Absent
    <3>5. QED
      BY <3>2, <3>3, <3>4 DEF Absent
  <2>3. QED
    BY <2>1, <2>2 DEF Init
<1>4. /\ acked = Fallback(dedicated.data.snapshot, state.data.legacy)
      /\ taken = 1 /\ main = "down" /\ boots = 0 /\ running \in Version /\ latest \in Version
      /\ clusterID = 0 /\ shouldNotify = FALSE /\ baseline = 0 /\ upgrader = Unset
      /\ call = [g \in Goroutine |-> NoCall]
      /\ faults = 0 /\ readFailed = FALSE
      /\ handed = [v \in Version |-> 0] /\ greets = 0
  BY DEF Init
<1>5. acked \in Nat
  BY <1>3, <1>4 DEF Fallback, ConfigMap, StateData, BaselineData
<1>6. StoreTypes
  <2>1. readFailed \in BOOLEAN
    BY <1>4
  <2>2. taken \in Nat /\ faults \in Nat /\ handed \in [Version -> 0 .. 2] /\ greets \in 0 .. 2
    BY <1>4
  <2>3. QED
    BY <1>3, <1>4, <1>5, <2>1, <2>2 DEF StoreTypes
<1>7. ProcessTypes
  <2>1. shouldNotify \in BOOLEAN
    BY <1>4
  <2>2. boots \in 0 .. MaxBoots /\ clusterID \in Boot \cup {0} /\ baseline \in Nat
    BY <1>4, Sizes
  <2>3. main \in Stage /\ upgrader \in Version \cup {Unset}
    BY <1>4 DEF Stage
  <2>4. QED
    BY <1>4, <2>1, <2>2, <2>3 DEF ProcessTypes
<1>8. CallTypes
  BY <1>4 DEF CallTypes
<1>9. call["main"] = NoCall /\ call["upgrader"] = NoCall /\ call["saver"] = NoCall
  BY <1>4 DEF Goroutine
<1>10. Owned
  BY <1>4, <1>9 DEF Owned
<1>11. OwnID
  BY <1>3, <1>4, <1>9 DEF OwnID
<1>12. ClearSafe /\ HandedFirst
  BY <1>3, <1>4, <1>9, UnsetIsNot DEF ClearSafe, HandedFirst
<1>13. QED
  BY <1>6, <1>7, <1>8, <1>10, <1>11, <1>12 DEF Inv

LEMMA InvStep == Inv /\ [Next]_vars => Inv'
<1> SUFFICES ASSUME Inv, [Next]_vars PROVE Inv'
  OBVIOUS
<1>1. CASE \E g \in Goroutine : UpdateWithRetry(g)
  BY <1>1, UpdateStep
<1>2. CASE HandleStartup
  BY <1>2, HandleStartupStep
<1>3. CASE MarkAsInitialized
  BY <1>3, MarkStep
<1>4. CASE createConfigMap
  BY <1>4, CreateStep
<1>5. CASE GetBaseline
  BY <1>5, GetBaselineStep
<1>6. CASE MigrateLegacyBaseline
  BY <1>6, MigrateStep
<1>7. CASE NotifyStartup
  BY <1>7, NotifyStep
<1>8. CASE checkRelease
  BY <1>8, CheckReleaseStep
<1>9. CASE Announce
  BY <1>9, AnnounceStep
<1>10. CASE SaveBaseline
  BY <1>10, SaveStep
<1>11. CASE Crash
  BY <1>11, CrashStep
<1>12. CASE Restart
  BY <1>12, RestartStep
<1>13. CASE Release
  BY <1>13, ReleaseStep DEF Release
<1>14. CASE UNCHANGED vars
  <2>1. latest' \in Version
    BY <1>14 DEF vars, Inv, StoreTypes
  <2>2. QED
    BY <1>14, <2>1, ReleaseStep DEF vars
<1>15. QED
  BY <1>1, <1>2, <1>3, <1>4, <1>5, <1>6, <1>7, <1>8, <1>9, <1>10, <1>11, <1>12, <1>13, <1>14
  DEF Next, Main, Upgrader, Saver, Goroutine

THEOREM Invariant == Spec => []Inv
<1>1. QED
  BY InvInit, InvStep, PTL DEF Spec

(* Every variable keeps its type, whatever fails and wherever kwatch dies. *)
THEOREM TypeCorrect == Spec => []TypeOK
<1>1. QED
  BY Invariant, InvTypes, PTL

(* No release is recorded as announced without having been handed to the   *)
(* alert manager: the record is made of what Announce passed to Notify,    *)
(* and nothing else writes that key.  Whether a provider took it does not  *)
(* matter to the code, nor here.                                           *)
THEOREM RecordedAlwaysHanded == Spec => []RecordedIsHanded
<1>1. Inv => RecordedIsHanded
  BY DEF Inv, HandedFirst, RecordedIsHanded
<1>2. QED
  BY <1>1, Invariant, PTL

-----------------------------------------------------------------------------
(* The refinement of KwatchState.                                          *)

LEMMA ContentOf ==
  ASSUME Inv
  PROVE  /\ state.data \in StateData /\ dedicated.data \in BaselineData
         /\ dedicated.data.snapshot \in Nat /\ state.data.legacy \in Nat
BY DEF Inv, StoreTypes, ConfigMap, StateData, BaselineData

LEMMA WroteContent ==
  ASSUME Inv, NEW g \in Goroutine, call[g] # NoCall, Wrote(call[g].update)
  PROVE  Content!Next
<1> DEFINE u == call[g].update
<1>1. u \in Update
  BY DEF Inv, CallTypes, Fits, Call
<1>2. CASE u.op = "save"
  <2>1. state' = state /\ dedicated'.data = [snapshot |-> u.snapshot] /\ u.snapshot \in Nat \ {0}
    BY <1>1, <1>2, SavedData DEF Wrote, WrittenAs
  <2>2. Content!Save
    BY <2>1 DEF Content!Save
  <2>3. QED
    BY <2>2 DEF Content!Next
<1>3. CASE u.op # "save"
  <2> DEFINE d == state.data
             e == state'.data
  <2>1. dedicated' = dedicated /\ e = Updated(u, d)
    BY <1>3 DEF Wrote, WrittenAs
  <2>2. d \in StateData
    BY ContentOf
  <2>3. /\ u.op = "init" => u \in InitUpdate /\ e = Initialized(u, d)
        /\ u.op # "init" => /\ e.clusterID = d.clusterID /\ e.firstRun = d.firstRun
                            /\ e.version = d.version
        /\ e.notified = IF u.op = "notify" THEN u.version ELSE d.notified
        /\ e.legacy = IF u.op = "clear" THEN 0 ELSE d.legacy
    BY <1>1, <1>3, <2>1, <2>2, UpdatedFields
  <2> HIDE DEF d, e
  <2>4. CASE u.op = "init"
    <3>1. /\ e.clusterID = IF d.clusterID = Unset THEN u.id ELSE d.clusterID
          /\ e.firstRun = IF d.firstRun = Unset THEN u.boot ELSE d.firstRun
          /\ e.version = u.version
      BY <2>2, <2>3, <2>4, InitializedFields
    <3>2. u.boot \in Boot /\ u.version \in Version
      BY <2>3, <2>4 DEF InitUpdate
    <3>3. g = "main"
      BY <2>4 DEF Inv, Owned, Goroutine
    <3>4. d.clusterID = Unset => u.id = u.boot
      BY <2>4, <3>3 DEF Inv, OwnID, d
    <3>5. e.clusterID = IF d.clusterID = Unset THEN u.boot ELSE d.clusterID
      BY <3>1, <3>4
    <3>6. Content!Initialize(u.boot, u.version)
      BY <2>1, <2>3, <2>4, <3>1, <3>5 DEF Content!Initialize, d, e
    <3>7. QED
      BY <3>2, <3>6 DEF Content!Next
  <2>5. CASE u.op = "notify"
    <3>1. u.version \in Version
      BY <1>1, <2>5, UpdateKinds DEF NotifyUpdate
    <3>2. Content!Announced(u.version)
      BY <2>1, <2>3, <2>5 DEF Content!Announced, d, e
    <3>3. QED
      BY <3>1, <3>2 DEF Content!Next
  <2>6. CASE u.op = "clear"
    <3>1. dedicated.data.snapshot # 0
      BY <2>6 DEF Inv, Owned, ClearSafe, Goroutine
    <3>2. Content!Clear
      BY <2>1, <2>3, <2>6, <3>1 DEF Content!Clear, d, e
    <3>3. QED
      BY <3>2 DEF Content!Next
  <2>7. QED
    BY <1>1, <1>3, <2>4, <2>5, <2>6, UpdateKinds
<1>4. QED
  BY <1>2, <1>3

LEMMA CreatedContent ==
  ASSUME Inv, createConfigMap
  PROVE  Content!Next \/ UNCHANGED cmVars
<1>1. main = "create" /\ dedicated' = dedicated /\ (state' = state \/ state' = Created)
  BY DEF createConfigMap, Created
<1>2. state.data = EmptyState
  BY <1>1 DEF Inv, OwnID
<1>3. /\ Created.data.clusterID = clusterID /\ Created.data.firstRun = boots
      /\ Created.data.version = running
      /\ Created.data.notified = Unset /\ Created.data.legacy = 0
  BY <1>1, CreatedType
<1>4. /\ EmptyState.clusterID = Unset /\ EmptyState.firstRun = Unset
      /\ EmptyState.notified = Unset /\ EmptyState.legacy = 0
  BY DEF EmptyState
<1>5. clusterID = boots /\ boots \in Boot /\ running \in Version
  BY <1>1, <1>2, <1>4 DEF Inv, OwnID, ProcessTypes
<1>6. CASE state' = Created
  <2>1. Content!Initialize(boots, running)
    BY <1>1, <1>2, <1>3, <1>4, <1>5, <1>6 DEF Content!Initialize
  <2>2. QED
    BY <1>5, <2>1 DEF Content!Next
<1>7. QED
  BY <1>1, <1>6 DEF cmVars

(* What a round of UpdateWithRetry does to the ConfigMaps.                 *)
LEMMA UpdateEffect ==
  ASSUME Inv, NEW g \in Goroutine, UpdateWithRetry(g)
  PROVE  (call[g] # NoCall /\ Wrote(call[g].update)) \/ UNCHANGED cmVars
<1>1. CASE RetryGet(g) \/ Refused(g)
  BY <1>1 DEF RetryGet, Refused
<1>2. CASE RetrySucceeds(g) \/ RetryFails(g)
  BY <1>2, PutEffect DEF RetrySucceeds, RetryFails, InCall
<1>3. QED
  BY <1>1, <1>2 DEF UpdateWithRetry

LEMMA ContentStep == Inv /\ [Next]_vars => [Content!Next]_Content!vars
<1> SUFFICES ASSUME Inv, [Next]_vars PROVE Content!Next \/ UNCHANGED cmVars
  BY DEF Content!vars, cmVars
<1>1. CASE \E g \in Goroutine : UpdateWithRetry(g)
  BY <1>1, UpdateEffect, WroteContent
<1>2. CASE createConfigMap
  BY <1>2, CreatedContent
<1>3. CASE \/ HandleStartup \/ MarkAsInitialized \/ GetBaseline \/ MigrateLegacyBaseline
           \/ NotifyStartup
  BY <1>3 DEF HandleStartup, MarkAsInitialized, GetBaseline, MigrateLegacyBaseline, NotifyStartup
<1>4. CASE checkRelease \/ Announce \/ SaveBaseline \/ Crash \/ Restart \/ Release \/ UNCHANGED vars
  BY <1>4 DEF checkRelease, Announce, SaveBaseline, Crash, Restart, Release, vars
<1>5. QED
  BY <1>1, <1>2, <1>3, <1>4 DEF Next, Main, Upgrader, Saver, Goroutine

(* The whole life of the state store, with concurrent writers, failed      *)
(* calls and kills, is a sequence of single operations on the two          *)
(* ConfigMaps: no update is lost, no identity is replaced, and the old     *)
(* copy of the baseline goes only when there is a new one.                 *)
THEOREM Refinement == Spec => ImplementsKwatchState
<1>1. Init => Content!Init
  <2> SUFFICES ASSUME Init PROVE Content!Init
    OBVIOUS
  <2>1. state.data \in StateData /\ dedicated.data.snapshot \in Nat /\ state.data.legacy \in Nat
    BY InvInit, ContentOf
  <2>2. QED
    BY <2>1 DEF Content!Init, StateData
<1>2. QED
  BY <1>1, ContentStep, Invariant, PTL DEF Spec, ImplementsKwatchState, Content!Spec

-----------------------------------------------------------------------------
(* Acknowledged snapshots.                                                 *)

(* Every copy is of a snapshot that was taken.                             *)
Numbered ==
  /\ taken >= 1 /\ acked <= taken
  /\ state.data.legacy <= 1 /\ dedicated.data.snapshot <= taken
  /\ call["saver"] # NoCall => call["saver"].update.snapshot = taken
  /\ call["main"] # NoCall /\ main = "saving" =>
       call["main"].update.snapshot = state.data.legacy

(* What a start loaded is what is stored until the saver runs; migration   *)
(* writes the old copy only where there is no new one.                     *)
Kept ==
  ~ readFailed =>
    /\ acked <= StoredBaseline
    /\ main \in {"migrate", "saving", "clearing", "greet"} => baseline = StoredBaseline
    /\ main = "saving" => dedicated.data.snapshot = 0

Saved == Numbered /\ Kept

LEMMA SavedInit == Init => Saved
<1> SUFFICES ASSUME Init PROVE Saved
  OBVIOUS
<1>1. /\ state.data.legacy \in {0, 1} /\ dedicated.data.snapshot \in {0, 1}
  <2>1. EmptyState.legacy = 0 /\ NoBaseline.snapshot = 0
    BY DEF EmptyState, NoBaseline
  <2>2. QED
    BY <2>1 DEF Init
<1>2. /\ acked = StoredBaseline /\ taken = 1 /\ main = "down"
      /\ call["main"] = NoCall /\ call["saver"] = NoCall
  BY DEF Init, StoredBaseline, Goroutine
<1>3. QED
  BY <1>1, <1>2 DEF Saved, Numbered, Kept, StoredBaseline, Fallback

(* A step that writes no baseline and acknowledges none.                   *)
LEMMA SavedFrame ==
  ASSUME Inv, Inv', Saved,
         state'.data.legacy = state.data.legacy, dedicated' = dedicated,
         UNCHANGED <<taken, acked>>,
         call'["saver"] \in {NoCall, call["saver"]},
         call'["saver"] # NoCall => call["saver"] # NoCall,
         call'["main"] # NoCall /\ main' = "saving" =>
           call'["main"].update.snapshot = state.data.legacy,
         ~ readFailed' =>
           /\ ~ readFailed
           /\ main' \in {"migrate", "saving", "clearing", "greet"} => baseline' = StoredBaseline
           /\ main' = "saving" => dedicated.data.snapshot = 0
  PROVE  Saved'
<1>1. StoredBaseline' = StoredBaseline
  BY DEF StoredBaseline, Fallback
<1>2. Numbered'
  BY DEF Saved, Numbered
<1>3. Kept'
  BY <1>1 DEF Saved, Kept
<1>4. QED
  BY <1>2, <1>3 DEF Saved

LEMMA SavedWrite ==
  ASSUME Inv, Inv', Saved, NEW g \in Goroutine, call[g] # NoCall, NEW ack \in BOOLEAN,
         Wrote(call[g].update) \/ (~ ack /\ UNCHANGED cmVars), Return(g, ack),
         ~ readFailed' => ~ readFailed
  PROVE  Saved'
<1> DEFINE u == call[g].update
<1>1. u \in Update
  BY DEF Inv, CallTypes, Fits, Call
<1>2. /\ acked' = (IF u.op = "save" /\ ack THEN u.snapshot ELSE acked)
      /\ UNCHANGED <<baseline, taken>>
      /\ \/ /\ main' = (IF g # "main" THEN main ELSE IF main = "initializing" THEN "load" ELSE "greet")
            /\ call' = [call EXCEPT ![g] = NoCall]
         \/ /\ g = "main" /\ main = "saving" /\ ack
            /\ main' = "clearing" /\ Begin("main", [op |-> "clear"])
  BY DEF Return
<1>3. \/ g = "main" /\ main = "initializing" /\ u.op = "init"
      \/ g = "main" /\ main = "saving" /\ u.op = "save"
      \/ g = "main" /\ main = "clearing" /\ u.op = "clear"
      \/ g = "upgrader" /\ u.op = "notify"
      \/ g = "saver" /\ main = "run" /\ u.op = "save"
  BY DEF Inv, Owned, Goroutine
<1>4. /\ \A h \in Goroutine \ {g} : call'[h] = call[h]
      /\ call'[g] = NoCall \/ (g = "main" /\ main' = "clearing")
      /\ g # "main" => main' = main
      /\ g = "main" => main' \in {"load", "clearing", "greet"}
      /\ g = "main" /\ main = "initializing" => main' = "load"
  BY <1>2, <1>3 DEF Begin, Inv, CallTypes
<1>5. /\ state.data.legacy \in Nat /\ dedicated.data.snapshot \in Nat
      /\ acked \in Nat /\ taken \in Nat
  BY ContentOf DEF Inv, StoreTypes
<1>6. CASE u.op # "save"
  <2>1. acked' = acked /\ dedicated' = dedicated
    BY <1>2, <1>6 DEF Wrote, cmVars
  <2>2. state'.data.legacy = IF u.op = "clear" /\ Wrote(u) THEN 0 ELSE state.data.legacy
    <3>1. CASE Wrote(u)
      <4>1. state'.data = Updated(u, state.data)
        BY <1>6, <3>1 DEF Wrote, WrittenAs
      <4>2. QED
        BY <1>1, <1>6, <3>1, <4>1, UpdatedFields, ContentOf
    <3>2. CASE ~ Wrote(u)
      BY <3>2 DEF cmVars
    <3>3. QED
      BY <3>1, <3>2
  <2>3. u.op = "clear" => dedicated.data.snapshot # 0
    BY <1>3 DEF Inv, ClearSafe
  <2>4. state'.data.legacy <= 1 /\ StoredBaseline' = StoredBaseline
    BY <2>1, <2>2, <2>3 DEF Saved, Numbered, StoredBaseline, Fallback
  <2>5. g # "saver" /\ call'["saver"] = call["saver"]
    BY <1>3, <1>4, <1>6 DEF Goroutine
  <2>6. ~ (call'["main"] # NoCall /\ main' = "saving" /\ g = "main")
    BY <1>4
  <2>7. g # "main" => call'["main"] = call["main"] /\ main' = main /\ u.op = "notify"
    BY <1>3, <1>4, <2>5 DEF Goroutine
  <2>8. Numbered'
    BY <1>2, <2>1, <2>2, <2>4, <2>5, <2>6, <2>7 DEF Saved, Numbered
  <2>9. Kept'
    BY <1>2, <1>3, <1>4, <1>6, <2>1, <2>4, <2>7 DEF Saved, Kept
  <2>10. QED
    BY <2>8, <2>9 DEF Saved
<1>7. CASE u.op = "save"
  <2>1. u.snapshot \in Nat \ {0}
    BY <1>1, <1>7, SavedData
  <2>2. state' = state
    BY <1>7 DEF Wrote, cmVars
  <2>3. dedicated'.data.snapshot = u.snapshot \/ (dedicated' = dedicated /\ ~ ack)
    <3>1. CASE Wrote(u)
      BY <1>7, <3>1 DEF Wrote, WrittenAs
    <3>2. CASE ~ Wrote(u)
      BY <3>2 DEF cmVars
    <3>3. QED
      BY <3>1, <3>2
  <2>4. CASE g = "saver"
    <3>1. u.snapshot = taken /\ main' = main /\ main = "run" /\ call'["saver"] = NoCall
      BY <1>3, <1>4, <2>4 DEF Saved, Numbered
    <3>2. Numbered'
      BY <1>2, <1>5, <2>2, <2>3, <2>4, <3>1 DEF Saved, Numbered
    <3>3. Kept'
      BY <1>2, <1>5, <2>1, <2>2, <2>3, <3>1 DEF Saved, Numbered, Kept, StoredBaseline, Fallback
    <3>4. QED
      BY <3>2, <3>3 DEF Saved
  <2>5. CASE g = "main"
    <3>1. /\ main = "saving" /\ u.snapshot = state.data.legacy
          /\ main' \in {"clearing", "greet"} /\ call["saver"] = NoCall
          /\ call'["saver"] = NoCall
      BY <1>2, <1>3, <1>4, <1>7, <2>5 DEF Saved, Numbered, Inv, Owned, Goroutine
    <3>2. Numbered'
      BY <1>2, <1>5, <2>2, <2>3, <3>1 DEF Saved, Numbered
    <3>3. Kept'
      BY <1>2, <1>5, <2>1, <2>2, <2>3, <3>1 DEF Saved, Kept, StoredBaseline, Fallback
    <3>4. QED
      BY <3>2, <3>3 DEF Saved
  <2>6. QED
    BY <1>3, <1>7, <2>4, <2>5
<1>8. QED
  BY <1>6, <1>7

LEMMA GetsRemembered ==
  ASSUME StoreTypes
  PROVE  /\ GetAnswers => (~ readFailed' => ~ readFailed)
         /\ GetFails => readFailed'
BY DEF GetAnswers, GetFails

LEMMA SavedUpdate ==
  ASSUME Inv, Inv', Saved, NEW g \in Goroutine, UpdateWithRetry(g)
  PROVE  Saved'
<1>1. call[g] # NoCall
  BY DEF UpdateWithRetry, RetryGet, RetrySucceeds, RetryFails, Refused, InCall
<1>2. CASE RetryGet(g) \/ (Refused(g) /\ ~ Return(g, FALSE))
  <2>1. /\ UNCHANGED <<cmVars, main, baseline, taken, acked, readFailed>>
        /\ RetryGet(g) => call' = [call EXCEPT ![g].at = "put", ![g].cm = Target(call[g].update)]
        /\ ~ RetryGet(g) => call' = [call EXCEPT ![g].at = "get", ![g].attempt = @ + 1]
    BY <1>2 DEF RetryGet, Refused, GetAnswers, Again, history
  <2>2. call[g] \in Call
    BY <1>1 DEF Inv, CallTypes
  <2>3. /\ \A h \in Goroutine \ {g} : call'[h] = call[h]
        /\ call'[g].update = call[g].update
    BY <2>1, <2>2 DEF Inv, CallTypes, Call
  <2>4. \A h \in Goroutine : call'[h] # NoCall =>
          call[h] # NoCall /\ call'[h].update = call[h].update
    BY <1>1, <2>3
  <2>5. state' = state /\ dedicated' = dedicated
    BY <2>1 DEF cmVars
  <2>6. "main" \in Goroutine /\ "saver" \in Goroutine
    BY DEF Goroutine
  <2>7. Numbered'
    BY <2>1, <2>4, <2>5, <2>6 DEF Saved, Numbered
  <2>8. Kept'
    BY <2>1, <2>5 DEF Saved, Kept, StoredBaseline
  <2>9. QED
    BY <2>7, <2>8 DEF Saved
<1>3. CASE RetrySucceeds(g)
  <2>1. Wrote(call[g].update)
    BY <1>3, PutEffect DEF RetrySucceeds
  <2>2. Return(g, TRUE) /\ (~ readFailed' => ~ readFailed)
    BY <1>3, GetsRemembered DEF RetrySucceeds, Inv
  <2>3. QED
    BY <1>1, <2>1, <2>2, SavedWrite
<1>4. CASE RetryFails(g) \/ (Refused(g) /\ Return(g, FALSE))
  <2>1. Wrote(call[g].update) \/ UNCHANGED cmVars
    BY <1>4, PutEffect DEF RetryFails, Refused
  <2>2. Return(g, FALSE)
    BY <1>4 DEF RetryFails
  <2>3. ~ readFailed' => ~ readFailed
    BY <1>4, GetsRemembered DEF RetryFails, Refused, Inv
  <2>4. QED
    BY <1>1, <2>1, <2>2, <2>3, SavedWrite
<1>5. QED
  BY <1>2, <1>3, <1>4 DEF UpdateWithRetry

LEMMA SavedStep == Inv /\ Inv' /\ Saved /\ [Next]_vars => Saved'
<1> SUFFICES ASSUME Inv, Inv', Saved, [Next]_vars PROVE Saved'
  OBVIOUS
<1>1. CASE \E g \in Goroutine : UpdateWithRetry(g)
  BY <1>1, SavedUpdate
<1>2. CASE HandleStartup \/ MarkAsInitialized
  <2>1. /\ UNCHANGED <<cmVars, taken, acked>>
        /\ main \in {"start", "mark"} /\ main' \in {"mark", "load", "create", "initializing"}
        /\ GetAnswers \/ GetFails
    BY <1>2 DEF HandleStartup, MarkAsInitialized, history
  <2>2. call["saver"] = NoCall
    BY <2>1 DEF Inv, Owned
  <2>3. call'["saver"] = NoCall
    BY <2>1 DEF Inv, Owned
  <2>4. QED
    BY <2>1, <2>2, <2>3, GetsRemembered, SavedFrame DEF cmVars, Inv
<1>3. CASE createConfigMap
  <2>1. main = "create"
    BY <1>3 DEF createConfigMap
  <2>2. state.data.legacy = 0
    BY <2>1 DEF Inv, OwnID, EmptyState
  <2>3. Created.data.legacy = 0
    BY <2>1, CreatedType
  <2>4. state'.data.legacy = state.data.legacy
    BY <1>3, <2>2, <2>3 DEF createConfigMap, Created
  <2>5. main' = "load" /\ UNCHANGED <<dedicated, call, taken, readFailed, acked>>
    BY <1>3 DEF createConfigMap
  <2>6. QED
    BY <2>4, <2>5, SavedFrame
<1>4. CASE GetBaseline
  <2>1. /\ UNCHANGED <<cmVars, call, taken, acked>>
        /\ main' = "migrate"
        /\ \/ GetAnswers /\ baseline' = StoredBaseline
           \/ GetFails
    BY <1>4 DEF GetBaseline, StoredBaseline, history
  <2>2. ~ readFailed' => ~ readFailed /\ baseline' = StoredBaseline
    BY <2>1, GetsRemembered DEF Inv
  <2>3. QED
    BY <2>1, <2>2, SavedFrame DEF cmVars
<1>5. CASE MigrateLegacyBaseline
  <2>1. /\ main = "migrate"
        /\ UNCHANGED <<cmVars, baseline, taken, acked>>
        /\ GetAnswers \/ GetFails
        /\ GetAnswers \/ readFailed'
    BY <1>5, GetsRemembered DEF MigrateLegacyBaseline, history, Inv
  <2>2. \/ main' = "greet" /\ call' = call
        \/ main' = "clearing" /\ Begin("main", [op |-> "clear"])
        \/ main' = "saving" /\ Begin("main", [op |-> "save", snapshot |-> state.data.legacy])
            /\ (readFailed' \/ dedicated.data.snapshot = 0)
    BY <1>5, GetsRemembered DEF MigrateLegacyBaseline, Migration, Copied, Inv
  <2>3. call["main"] = NoCall /\ call["saver"] = NoCall
    BY <2>1 DEF Inv, Owned
  <2>4. call'["saver"] = NoCall
    BY <2>2 DEF Inv, Owned
  <2>5. main' = "saving" => call'["main"].update.snapshot = state.data.legacy
    <3>1. CASE main' = "saving"
      <4>1. Begin("main", [op |-> "save", snapshot |-> state.data.legacy])
        BY <2>2, <3>1
      <4>2. call'["main"].update = [op |-> "save", snapshot |-> state.data.legacy]
        BY <4>1 DEF Begin, Inv, CallTypes, Goroutine
      <4>3. QED
        BY <4>2
    <3>2. QED
      BY <3>1
  <2>6. ~ readFailed' => ~ readFailed /\ baseline = StoredBaseline
    BY <2>1, GetsRemembered DEF Inv, Saved, Kept
  <2>7. QED
    BY <2>1, <2>2, <2>3, <2>4, <2>5, <2>6, SavedFrame DEF cmVars
<1>6. CASE NotifyStartup \/ Crash \/ Restart
  <2>1. /\ UNCHANGED <<cmVars, taken, acked, readFailed>>
        /\ main' \in {"run", "down", "start"}
        /\ call'["saver"] \in {NoCall, call["saver"]}
    BY <1>6 DEF NotifyStartup, Crash, Restart, history, Goroutine
  <2>2. QED
    BY <2>1, SavedFrame DEF cmVars
<1>7. CASE checkRelease \/ Announce
  <2>1. /\ UNCHANGED <<cmVars, main, baseline, taken, acked>>
        /\ call'["main"] = call["main"] /\ call'["saver"] = call["saver"]
    BY <1>7 DEF checkRelease, Announce, Begin, history, Inv, CallTypes, Goroutine
  <2>2. ~ readFailed' => ~ readFailed
    BY <1>7, GetsRemembered DEF checkRelease, GetLatestReleaseFails, Announce, Inv
  <2>3. QED
    BY <2>1, <2>2, SavedFrame DEF cmVars, Saved, Numbered, Kept
<1>8. CASE SaveBaseline
  <2>1. /\ UNCHANGED <<state, dedicated, main, baseline, acked, readFailed>>
        /\ main = "run" /\ taken' = taken + 1 /\ taken \in Nat /\ acked \in Nat
        /\ Begin("saver", [op |-> "save", snapshot |-> taken + 1])
    BY <1>8 DEF SaveBaseline, cmVars, history, Inv, StoreTypes
  <2>2. call'["saver"].update.snapshot = taken' /\ call'["main"] = call["main"]
    BY <2>1 DEF Begin, Inv, CallTypes, Goroutine
  <2>3. state.data.legacy \in Nat /\ dedicated.data.snapshot \in Nat
    BY ContentOf
  <2>4. Numbered'
    BY <2>1, <2>2, <2>3 DEF Saved, Numbered
  <2>5. Kept'
    BY <2>1 DEF Saved, Kept, StoredBaseline
  <2>6. QED
    BY <2>4, <2>5 DEF Saved
<1>9. CASE Release \/ UNCHANGED vars
  <2>1. UNCHANGED <<cmVars, main, baseline, taken, acked, readFailed, call>>
    BY <1>9 DEF Release, vars, processVars, history
  <2>2. QED
    BY <2>1, SavedFrame DEF cmVars, Saved, Numbered, Kept
<1>10. QED
  BY <1>1, <1>2, <1>3, <1>4, <1>5, <1>6, <1>7, <1>8, <1>9
  DEF Next, Main, Upgrader, Saver, Goroutine

(* Wherever kwatch is killed, migrations included, the next start finds    *)
(* the snapshot that was last acknowledged or a newer one, as long as no   *)
(* Get failed.                                                             *)
THEOREM AcknowledgedAlwaysSurvives == Spec => []AcknowledgedSurvives
<1>1. Spec => []Saved
  BY SavedInit, SavedStep, Invariant, PTL DEF Spec
<1>2. Saved => AcknowledgedSurvives
  <2> SUFFICES ASSUME Saved, ~ readFailed PROVE
        /\ StoredBaseline >= acked
        /\ main \in {"migrate", "saving", "clearing", "greet"} => baseline >= acked
    BY DEF AcknowledgedSurvives
  <2>1. acked <= StoredBaseline
    BY DEF Saved, Kept
  <2>2. main \in {"migrate", "saving", "clearing", "greet"} => baseline = StoredBaseline
    BY DEF Saved, Kept
  <2>3. QED
    BY <2>1, <2>2
<1>3. QED
  BY <1>1, <1>2, PTL

-----------------------------------------------------------------------------
(* The greeting.                                                           *)

(* A state that is not initialized has no version.                         *)
Unversioned == ~ state.data.init => state.data.version = Unset

(* Main is alone while it initializes: what it read is what it writes over.*)
Alone ==
  main = "initializing" /\ call["main"] # NoCall =>
    /\ call["main"].update.version = running
    /\ call["main"].at = "put" => call["main"].cm = state

BeforeVersion == {"mark", "create", "initializing"}
AfterVersion  == {"load", "migrate", "saving", "clearing", "greet"}

(* A start that will greet changes the version first, and with it begins a *)
(* new count.                                                              *)
GreetDue ==
  faults = 0 =>
    /\ greets <= 1
    /\ shouldNotify /\ main \in BeforeVersion => state.data.version # running
    /\ shouldNotify /\ main \in AfterVersion => greets = 0

Greeted == Unversioned /\ Alone /\ GreetDue

LEMMA GreetedInit == Init => Greeted
<1> SUFFICES ASSUME Init PROVE Greeted
  OBVIOUS
<1>1. Unversioned
  BY DEF Init, Unversioned, EmptyState
<1>2. main = "down" /\ greets = 0
  BY DEF Init
<1>3. QED
  BY <1>1, <1>2 DEF Greeted, Alone, GreetDue, BeforeVersion, AfterVersion

LEMMA FaultsCount ==
  ASSUME StoreTypes
  PROVE  /\ Fault => faults' # 0
         /\ GetFails => faults' # 0
         /\ GetAnswers => faults' = faults
BY DEF StoreTypes, Fault, GetFails, GetAnswers

(* The key init of what an update writes.                                  *)
LEMMA UpdatedInit ==
  ASSUME NEW u \in Update, u.op # "save", NEW d \in StateData
  PROVE  Updated(u, d).init = IF u.op = "init" THEN TRUE ELSE d.init
<1>1. CASE u.op = "init"
  <2>1. u \in InitUpdate /\ Updated(u, d) = Initialized(u, d)
    BY <1>1, UpdatedFields
  <2>2. Initialized(u, d).init = TRUE
    BY DEF Initialized, StateData
  <2>3. QED
    BY <1>1, <2>1, <2>2
<1>2. CASE u.op = "notify"
  BY <1>2 DEF Updated, StateData
<1>3. CASE u.op = "clear"
  BY <1>3 DEF Updated, StateData
<1>4. QED
  BY <1>1, <1>2, <1>3, UpdateKinds

(* A write leaves no version without init, whichever key it is for.        *)
LEMMA WroteVersion ==
  ASSUME Inv, Greeted, NEW g \in Goroutine, call[g] # NoCall, Wrote(call[g].update)
  PROVE  /\ Unversioned'
         /\ call[g].update.op = "init" => state'.data.version = call[g].update.version
         /\ call[g].update.op # "init" => state'.data.version = state.data.version
<1> DEFINE u == call[g].update
<1>1. u \in Update /\ state.data \in StateData
  BY ContentOf DEF Inv, CallTypes, Fits, Call
<1>2. CASE u.op = "save"
  BY <1>2 DEF Wrote, Greeted, Unversioned
<1>3. CASE u.op # "save"
  <2>1. state'.data = Updated(u, state.data)
    BY <1>3 DEF Wrote, WrittenAs
  <2>2. Updated(u, state.data).init = IF u.op = "init" THEN TRUE ELSE state.data.init
    BY <1>1, <1>3, UpdatedInit
  <2>3. /\ u.op = "init" => Updated(u, state.data).version = u.version
        /\ u.op # "init" => Updated(u, state.data).version = state.data.version
    BY <1>1, <1>3, UpdatedFields, InitializedFields
  <2>4. Unversioned'
    BY <2>1, <2>2, <2>3 DEF Greeted, Unversioned
  <2>5. QED
    BY <2>1, <2>3, <2>4
<1>4. QED
  BY <1>2, <1>3

(* A step that changes neither the version nor the count.                  *)
LEMMA GreetFrame ==
  ASSUME Inv, Greeted,
         UNCHANGED <<running, shouldNotify, greets>>,
         Unversioned', state'.data.version = state.data.version,
         faults' = 0 => faults = 0,
         main' \in BeforeVersion => main \in BeforeVersion,
         main' \in AfterVersion => main \in AfterVersion,
         main' = "initializing" /\ call'["main"] # NoCall =>
           main = "initializing" /\ state' = state /\ call'["main"] = call["main"]
  PROVE  Greeted'
<1>1. GreetDue'
  BY DEF Greeted, GreetDue
<1>2. Alone'
  BY DEF Greeted, Alone
<1>3. QED
  BY <1>1, <1>2 DEF Greeted

(* The end of a call: of the one that initializes, or of another.          *)
LEMMA GreetReturn ==
  ASSUME Inv, Greeted, NEW g \in Goroutine, call[g] # NoCall, NEW ack \in BOOLEAN,
         Wrote(call[g].update) \/ (~ ack /\ UNCHANGED cmVars),
         Return(g, ack), faults' = 0 => faults = 0,
         faults' = 0 /\ main = "initializing" => Wrote(call[g].update)
  PROVE  Greeted'
<1> DEFINE u == call[g].update
<1>1. /\ greets' = (IF u.op = "init" /\ state'.data.version # state.data.version THEN 0 ELSE greets)
      /\ UNCHANGED <<running, shouldNotify>>
  BY DEF Return
<1>2. \/ /\ main' = (IF g # "main" THEN main ELSE IF main = "initializing" THEN "load" ELSE "greet")
         /\ call' = [call EXCEPT ![g] = NoCall]
      \/ /\ g = "main" /\ main = "saving"
         /\ main' = "clearing" /\ Begin("main", [op |-> "clear"])
  BY DEF Return
<1>3. \/ g = "main" /\ main = "initializing" /\ u.op = "init"
      \/ g = "main" /\ main \in {"saving", "clearing"} /\ u.op # "init"
      \/ g # "main" /\ Started /\ u.op # "init"
  BY DEF Inv, Owned, Goroutine, Started
<1>4. Unversioned'
  <2>1. CASE Wrote(u)
    BY <2>1, WroteVersion
  <2>2. CASE UNCHANGED cmVars
    BY <2>2 DEF cmVars, Greeted, Unversioned
  <2>3. QED
    BY <2>1, <2>2
<1>5. main' # "initializing"
  BY <1>2, <1>3 DEF Started
<1>6. CASE u.op = "init"
  <2>1. main = "initializing" /\ main' = "load" /\ greets \in 0 .. 2
    BY <1>2, <1>3, <1>6 DEF Inv, StoreTypes
  <2>2. ASSUME faults' = 0
        PROVE  greets' <= 1 /\ (shouldNotify => greets' = 0)
    <3>1. Wrote(u) /\ greets <= 1
      BY <2>1, <2>2 DEF Greeted, GreetDue
    <3>2. state'.data.version = running
      BY <1>3, <1>6, <2>1, <3>1, WroteVersion DEF Greeted, Alone
    <3>3. shouldNotify => state.data.version # running
      BY <2>1, <2>2 DEF Greeted, GreetDue, BeforeVersion
    <3>4. QED
      BY <3>1, <3>2, <3>3, <1>1, <1>6
  <2>3. main' \notin BeforeVersion
    BY <2>1 DEF BeforeVersion
  <2>4. GreetDue'
    BY <2>2, <2>3, <1>1 DEF GreetDue
  <2>5. QED
    BY <1>4, <1>5, <2>4 DEF Greeted, Alone
<1>7. CASE u.op # "init"
  <2>1. greets' = greets
    BY <1>1, <1>7
  <2>2. state'.data.version = state.data.version
    <3>1. CASE Wrote(u)
      BY <1>7, <3>1, WroteVersion
    <3>2. CASE UNCHANGED cmVars
      BY <3>2 DEF cmVars
    <3>3. QED
      BY <3>1, <3>2
  <2>3. /\ main' \in BeforeVersion => main \in BeforeVersion
        /\ main' \in AfterVersion => main \in AfterVersion
    BY <1>2, <1>3, <1>7 DEF BeforeVersion, AfterVersion
  <2>4. QED
    BY <1>1, <1>4, <1>5, <2>1, <2>2, <2>3, GreetFrame
<1>8. QED
  BY <1>6, <1>7

LEMMA GreetUpdate ==
  ASSUME Inv, Greeted, NEW g \in Goroutine, UpdateWithRetry(g)
  PROVE  Greeted'
<1>1. call[g] # NoCall /\ call[g] \in Call
  BY DEF UpdateWithRetry, RetryGet, RetrySucceeds, RetryFails, Refused, InCall, Inv, CallTypes
<1>2. CASE RetryGet(g)
  <2>1. /\ UNCHANGED <<cmVars, main, running, shouldNotify, greets, faults>>
        /\ call' = [call EXCEPT ![g].at = "put", ![g].cm = Target(call[g].update)]
    BY <1>2 DEF RetryGet, GetAnswers, history
  <2>2. Unversioned' /\ GreetDue'
    BY <2>1 DEF cmVars, Greeted, Unversioned, GreetDue
  <2>3. Alone'
    <3>1. CASE g = "main" /\ main = "initializing"
      <4>1. call["main"].update.op = "init" /\ call["main"].update.version = running
        BY <1>1, <3>1 DEF Inv, Owned, Greeted, Alone
      <4>2. Target(call["main"].update) = state
        BY <4>1 DEF Target
      <4>3. call'["main"].update = call["main"].update /\ call'["main"].cm = state
        BY <1>1, <2>1, <3>1, <4>2 DEF Inv, CallTypes, Call
      <4>4. QED
        BY <2>1, <4>1, <4>3 DEF Alone, cmVars
    <3>2. CASE g # "main"
      <4>1. call'["main"] = call["main"]
        BY <2>1, <3>2 DEF Inv, CallTypes, Goroutine
      <4>2. QED
        BY <2>1, <4>1 DEF Greeted, Alone, cmVars
    <3>3. CASE main # "initializing"
      BY <2>1, <3>3 DEF Alone
    <3>4. QED
      BY <3>1, <3>2, <3>3
  <2>4. QED
    BY <2>2, <2>3 DEF Greeted
<1>3. CASE RetrySucceeds(g)
  <2>1. Wrote(call[g].update) /\ Return(g, TRUE) /\ (faults' = 0 => faults = 0)
    BY <1>3, PutEffect, FaultsCount DEF RetrySucceeds, Inv
  <2>2. QED
    BY <1>1, <2>1, GreetReturn
<1>4. CASE RetryFails(g)
  <2>1. faults' # 0
    BY <1>4, FaultsCount DEF RetryFails, Inv
  <2>2. Wrote(call[g].update) \/ UNCHANGED cmVars
    BY <1>4, PutEffect DEF RetryFails
  <2>3. Return(g, FALSE)
    BY <1>4 DEF RetryFails
  <2>4. QED
    BY <1>1, <2>1, <2>2, <2>3, GreetReturn
<1>5. CASE Refused(g)
  <2>1. UNCHANGED cmVars /\ (faults' = 0 => faults = 0) /\ InCall(g, "put") /\ ~ Unchanged(g)
    BY <1>5, FaultsCount DEF Refused, Inv
  <2>2. main # "initializing"
    <3>1. CASE g = "main"
      <4>1. main = "initializing" => call[g].update.op = "init" /\ call[g].cm = state
        BY <1>1, <2>1, <3>1 DEF Inv, Owned, Greeted, Alone, InCall
      <4>2. QED
        BY <2>1, <4>1 DEF Unchanged, Target
    <3>2. CASE g # "main"
      BY <1>1, <3>2 DEF Inv, Owned, Goroutine, Started
    <3>3. QED
      BY <3>1, <3>2
  <2>3. CASE Return(g, FALSE)
    BY <1>1, <2>1, <2>2, <2>3, GreetReturn
  <2>4. CASE ~ Return(g, FALSE)
    <3>1. UNCHANGED <<main, running, shouldNotify, greets>>
      BY <1>5, <2>4 DEF Refused, history
    <3>2. Unversioned' /\ state'.data.version = state.data.version
      BY <2>1 DEF cmVars, Greeted, Unversioned
    <3>3. QED
      BY <2>1, <2>2, <3>1, <3>2, GreetFrame
  <2>5. QED
    BY <2>3, <2>4
<1>6. QED
  BY <1>2, <1>3, <1>4, <1>5 DEF UpdateWithRetry

LEMMA GreetStartup ==
  ASSUME Inv, Greeted, HandleStartup
  PROVE  Greeted'
<1>1. /\ UNCHANGED <<cmVars, running, greets, call>>
      /\ main = "start" /\ main' = "mark"
  BY DEF HandleStartup, history
<1>2. Unversioned' /\ Alone'
  BY <1>1 DEF cmVars, Greeted, Unversioned, Alone
<1>3. ASSUME faults' = 0
      PROVE  greets <= 1 /\ (shouldNotify' => state.data.version # running)
  <2>1. GetAnswers /\ faults = 0
    BY <1>3, FaultsCount DEF HandleStartup, Inv
  <2>2. ~ GetFails
    BY <1>3, FaultsCount DEF Inv
  <2>3. shouldNotify' =>
          \/ state.rv = Absent \/ ~ state.data.init
          \/ state.data.version # Unset /\ state.data.version # running
    BY <2>2 DEF HandleStartup
  <2>4. running \in Version /\ running # Unset
    BY UnsetIsNot DEF Inv, ProcessTypes
  <2>5. state.rv = Absent => state.data.version = Unset
    BY DEF Inv, OwnID, EmptyState
  <2>6. ~ state.data.init => state.data.version = Unset
    BY DEF Greeted, Unversioned
  <2>7. QED
    BY <2>1, <2>3, <2>4, <2>5, <2>6 DEF Greeted, GreetDue
<1>4. GreetDue'
  BY <1>1, <1>3 DEF GreetDue, BeforeVersion, AfterVersion, cmVars
<1>5. QED
  BY <1>2, <1>4 DEF Greeted

LEMMA GreetMark ==
  ASSUME Inv, Greeted, MarkAsInitialized
  PROVE  Greeted'
<1>1. /\ UNCHANGED <<cmVars, running, shouldNotify, greets>>
      /\ main = "mark" /\ main' \in {"load", "create", "initializing"}
      /\ main' = "load" => faults' # 0
      /\ faults' = 0 => faults = 0
      /\ main' = "initializing" => Begin("main", ThisBoot)
  BY FaultsCount DEF MarkAsInitialized, history, Inv
<1>2. Unversioned'
  BY <1>1 DEF cmVars, Greeted, Unversioned
<1>3. GreetDue'
  BY <1>1 DEF Greeted, GreetDue, BeforeVersion, AfterVersion, cmVars
<1>4. Alone'
  <2> SUFFICES ASSUME main' = "initializing"
               PROVE  call'["main"].update.version = running /\ call'["main"].at = "get"
    BY <1>1 DEF Alone
  <2>1. call'["main"] = [update |-> ThisBoot, at |-> "get", attempt |-> 1, cm |-> Target(ThisBoot)]
    BY <1>1 DEF Begin, Inv, CallTypes, Goroutine
  <2>2. ThisBoot.version = running
    BY DEF ThisBoot
  <2>3. QED
    BY <2>1, <2>2
<1>5. QED
  BY <1>2, <1>3, <1>4 DEF Greeted

LEMMA GreetCreate ==
  ASSUME Inv, Greeted, createConfigMap
  PROVE  Greeted'
<1>1. /\ UNCHANGED <<running, shouldNotify, call>>
      /\ main = "create" /\ main' = "load"
      /\ state' \in {state, Created}
      /\ faults' = 0 => state' = Created /\ faults = 0
      /\ greets' = IF state'.data.version # state.data.version THEN 0 ELSE greets
  BY FaultsCount DEF createConfigMap, Created, Inv
<1>2. Created.data.init = TRUE /\ Created.data.version = running
  <2>1. Created.data = Initialized(ThisBoot, EmptyState)
    BY DEF Created
  <2>2. Initialized(ThisBoot, EmptyState).init = TRUE
    BY EmptyStateType DEF Initialized, StateData
  <2>3. QED
    BY <1>1, <2>1, <2>2, CreatedType
<1>3. Unversioned'
  BY <1>1, <1>2 DEF Greeted, Unversioned
<1>4. Alone'
  BY <1>1 DEF Alone
<1>5. GreetDue'
  <2> SUFFICES ASSUME faults' = 0
               PROVE  greets' <= 1 /\ (shouldNotify => greets' = 0)
    BY <1>1 DEF GreetDue, BeforeVersion
  <2>1. greets <= 1 /\ (shouldNotify => state.data.version # running)
    BY <1>1 DEF Greeted, GreetDue, BeforeVersion
  <2>2. state'.data.version = running
    BY <1>1, <1>2
  <2>3. QED
    BY <1>1, <2>1, <2>2
<1>6. QED
  BY <1>3, <1>4, <1>5 DEF Greeted

LEMMA GreetNotify ==
  ASSUME Inv, Greeted, NotifyStartup
  PROVE  Greeted'
<1>1. /\ UNCHANGED <<cmVars, running, shouldNotify, call, faults>>
      /\ main = "greet" /\ main' = "run"
      /\ greets' = (IF shouldNotify THEN Capped(greets) ELSE greets)
  BY DEF NotifyStartup
<1>2. faults = 0 => greets <= 1 /\ (shouldNotify => greets = 0)
  BY <1>1 DEF Greeted, GreetDue, AfterVersion
<1>3. GreetDue'
  BY <1>1, <1>2 DEF GreetDue, Capped, BeforeVersion, AfterVersion
<1>4. QED
  BY <1>1, <1>3 DEF Greeted, Unversioned, Alone, cmVars

LEMMA GreetedStep == Inv /\ Greeted /\ [Next]_vars => Greeted'
<1> SUFFICES ASSUME Inv, Greeted, [Next]_vars PROVE Greeted'
  OBVIOUS
<1>0. Unversioned /\ (UNCHANGED state => Unversioned' /\ state'.data.version = state.data.version)
  BY DEF Greeted, Unversioned
<1>1. CASE \E g \in Goroutine : UpdateWithRetry(g)
  BY <1>1, GreetUpdate
<1>2. CASE HandleStartup \/ MarkAsInitialized \/ createConfigMap \/ NotifyStartup
  BY <1>2, GreetStartup, GreetMark, GreetCreate, GreetNotify
<1>3. CASE GetBaseline \/ MigrateLegacyBaseline
  <2>1. /\ UNCHANGED <<state, running, shouldNotify, greets>>
        /\ main \in AfterVersion /\ main' \in AfterVersion
        /\ faults' = 0 => faults = 0
    BY <1>3, FaultsCount DEF GetBaseline, MigrateLegacyBaseline, Migration, Copied, history,
       cmVars, AfterVersion, Inv
  <2>2. main' \notin BeforeVersion /\ main' # "initializing"
    BY <2>1 DEF AfterVersion, BeforeVersion
  <2>3. QED
    BY <2>1, <2>2, <1>0, GreetFrame
<1>4. CASE checkRelease \/ Announce \/ SaveBaseline
  <2>1. /\ UNCHANGED <<state, main, running, shouldNotify, greets>>
        /\ faults' = 0 => faults = 0
        /\ main # "initializing"
    BY <1>4, FaultsCount DEF checkRelease, GetLatestReleaseFails, Announce, SaveBaseline, history,
       cmVars, Inv, Started, Owned
  <2>2. QED
    BY <2>1, <1>0, GreetFrame
<1>5. CASE Crash \/ Restart
  <2>1. /\ UNCHANGED <<state, shouldNotify, greets, faults>>
        /\ main' \in {"down", "start"}
    BY <1>5 DEF Crash, Restart, history, cmVars
  <2>2. GreetDue' /\ Alone'
    BY <2>1 DEF Greeted, GreetDue, Alone, BeforeVersion, AfterVersion
  <2>3. QED
    BY <2>1, <2>2, <1>0 DEF Greeted
<1>6. CASE Release \/ UNCHANGED vars
  <2>1. UNCHANGED <<state, main, running, shouldNotify, greets, faults, call>>
    BY <1>6 DEF Release, vars, processVars, history, cmVars
  <2>2. QED
    BY <2>1, <1>0, GreetFrame
<1>7. QED
  BY <1>1, <1>2, <1>3, <1>4, <1>5, <1>6
  DEF Next, Main, Upgrader, Saver, Goroutine

(* Without a failed API call a change of version is greeted at most once:  *)
(* a kwatch killed after it greeted finds the version that it wrote before.*)
THEOREM AlwaysGreetedOnce == Spec => []GreetedOnce
<1>1. Spec => []Greeted
  BY GreetedInit, GreetedStep, Invariant, PTL DEF Spec
<1>2. Greeted => GreetedOnce
  BY DEF Greeted, GreetDue, GreetedOnce
<1>3. QED
  BY <1>1, <1>2, PTL
=============================================================================
