----------------------------- MODULE StateStore -----------------------------
(***************************************************************************)
(* What kwatch keeps in ConfigMaps and how (internal/state): every change  *)
(* is a read, a modification and a write that the API server refuses when  *)
(* somebody wrote in between.  The module has the three goroutines that    *)
(* use it: main through startup, migration and greeting                    *)
(* (internal/startup, cmd/kwatch/main.go), the upgrader                    *)
(* (internal/upgrader) and the baseline saver; API calls that fail, before *)
(* or after they took effect; and kwatch being killed and started again,   *)
(* perhaps in another version.  It is deployed as a single replica,        *)
(* replaced with strategy Recreate.                                        *)
(*                                                                         *)
(* Encodings are left out: a baseline is the number of its snapshot, 0 for *)
(* none, a cluster ID is the number of the boot that made it up.  The      *)
(* waits of retries and tickers take any time.                             *)
(***************************************************************************)
EXTENDS Naturals

CONSTANTS
  Version,     \* kwatch's own version strings
  Unset,       \* an absent key
  NoCall,      \* a goroutine that is not in UpdateWithRetry
  MaxRetries,
  MaxBoots, MaxSaves, MaxFaults \* bounds: starts, snapshots, failed API calls

Boot == 1 .. MaxBoots

ASSUME StateStoreAssumption ==
  /\ MaxRetries \in Nat \ {0}
  /\ MaxBoots \in Nat /\ MaxSaves \in Nat /\ MaxFaults \in Nat
  /\ Unset \notin Version \cup Nat

(***************************************************************************)
(* Definitions named Bug... are mistakes this code could have made, each   *)
(* next to the definition it would replace.  Nothing uses them: they show  *)
(* that the properties below can fail.                                     *)
(***************************************************************************)

VARIABLES
  state,       \* the ConfigMap kwatch-state: its resource version and data
  dedicated,   \* the ConfigMap kwatch-baseline
  main,        \* where main is
  running,     \* the version that runs
  boots,       \* number of starts
  clusterID,   \* what EnsureClusterID returned
  shouldNotify,
  baseline,    \* the baseline the engine started with
  upgrader,    \* the release the upgrader is about to announce, or Unset
  call,        \* goroutine -> its UpdateWithRetry in progress
  latest,      \* the latest release on GitHub
  taken,       \* number of snapshots taken so far
  faults,      \* number of failed API calls
  readFailed,  \* history: a Get failed
  acked,       \* history: the last snapshot whose save was acknowledged
  handed,      \* history: release -> times it was handed to the alert manager, at most 2
  greets       \* history: greetings since version was last set to another

cmVars      == <<state, dedicated>>
processVars == <<main, running, boots, clusterID, shouldNotify, baseline, upgrader, call>>
history     == <<acked, handed, greets>>
vars == <<cmVars, processVars, latest, taken, faults, readFailed, history>>

Goroutine == {"main", "upgrader", "saver"}

Absent == 0                   \* resource version of a ConfigMap that is not there

StateData == [init : BOOLEAN, clusterID : Boot \cup {0, Unset}, firstRun : Boot \cup {0, Unset},
              version : Version \cup {Unset}, notified : Version \cup {Unset}, legacy : {0, 1}]
EmptyState == [init |-> FALSE, clusterID |-> Unset, firstRun |-> Unset, version |-> Unset,
               notified |-> Unset, legacy |-> 0]
BaselineData == [snapshot : Nat]
NoBaseline   == [snapshot |-> 0]

(* What an updater closure was made with.                                  *)
InitUpdate   == [op : {"init"}, id : Boot \cup {0}, boot : Boot, version : Version]
NotifyUpdate == [op : {"notify"}, version : Version]
ClearUpdate  == [op : {"clear"}]
SaveUpdate   == [op : {"save"}, snapshot : Nat \ {0}]
Update       == InitUpdate \cup NotifyUpdate \cup ClearUpdate \cup SaveUpdate

ConfigMap(data) == [rv : Nat, data : data]
Call == [update : Update, at : {"get", "put"}, attempt : 1 .. MaxRetries,
         cm : ConfigMap(StateData) \cup ConfigMap(BaselineData)]

Stage == {"down", "start", "mark", "create", "initializing", "load", "migrate", "saving",
          "clearing", "greet", "run"}

TypeOK ==
  /\ state \in ConfigMap(StateData) /\ dedicated \in ConfigMap(BaselineData)
  /\ main \in Stage
  /\ running \in Version /\ boots \in 0 .. MaxBoots
  /\ clusterID \in Boot \cup {0} /\ shouldNotify \in BOOLEAN
  /\ baseline \in Nat
  /\ upgrader \in Version \cup {Unset}
  /\ call \in [Goroutine -> Call \cup {NoCall}]
  /\ latest \in Version /\ taken \in Nat /\ faults \in Nat
  /\ readFailed \in BOOLEAN
  /\ acked \in Nat /\ handed \in [Version -> 0 .. 2] /\ greets \in 0 .. 2

Capped(n) == IF n < 2 THEN n + 1 ELSE 2

-----------------------------------------------------------------------------
(* The API server.                                                         *)

Fault == faults < MaxFaults /\ faults' = faults + 1

(* A Get answers, or fails.                                                *)
GetAnswers == UNCHANGED <<faults, readFailed>>
GetFails   == Fault /\ readFailed' = TRUE

(* A write of what is there already leaves the resource version alone.     *)
Written(cm, data) == IF cm.rv # Absent /\ cm.data = data THEN cm
                     ELSE [rv |-> cm.rv + 1, data |-> data]

ConflictMessage == "the object has been modified"

-----------------------------------------------------------------------------
(* RetryConfigMapManager.UpdateWithRetry.                                  *)

BugInitialized(u, d) ==       \* the version is kept when there is one
  [d EXCEPT !.init = TRUE,
            !.clusterID = IF @ = Unset THEN u.id ELSE @,
            !.firstRun  = IF @ = Unset THEN u.boot ELSE @,
            !.version   = IF @ = Unset THEN u.version ELSE @]

(* The updater of MarkAsInitialized, and createConfigMap on an empty one.  *)
Initialized(u, d) ==
  [d EXCEPT !.init = TRUE,
            !.clusterID = IF @ = Unset THEN u.id ELSE @,
            !.firstRun  = IF @ = Unset THEN u.boot ELSE @,
            !.version   = u.version]

Updated(u, d) ==
  CASE u.op = "init"   -> Initialized(u, d)
    [] u.op = "notify" -> [d EXCEPT !.notified = u.version]
    [] u.op = "clear"  -> [d EXCEPT !.legacy = 0]
    [] OTHER           -> [snapshot |-> u.snapshot]

Target(u) == IF u.op = "save" THEN dedicated ELSE state

Put(u, cm) ==
  IF u.op = "save" THEN dedicated' = cm /\ UNCHANGED state
                   ELSE state' = cm /\ UNCHANGED dedicated

(* The error's text decides, not its status code.                          *)
isConflictError(message) == message \in {"conflict", "Conflict", "was changed"}

Begin(g, u) ==
  call' = [call EXCEPT ![g] = [update |-> u, at |-> "get", attempt |-> 1, cm |-> Target(u)]]

InCall(g, at) == call[g] # NoCall /\ call[g].at = at

(* The next round of the loop.                                             *)
Again(g) ==
  /\ call' = [call EXCEPT ![g].at = "get", ![g].attempt = @ + 1]

(* Get answers; then the updater runs on what was read.                    *)
RetryGet(g) ==
  /\ InCall(g, "get")
  /\ GetAnswers
  /\ call' = [call EXCEPT ![g].at = "put", ![g].cm = Target(call[g].update)]
  /\ UNCHANGED <<cmVars, main, running, boots, clusterID, shouldNotify, baseline, upgrader,
                 latest, taken, history>>

BugUnchanged(g) == TRUE       \* the object is sent without the version it was read at

(* Nobody has written since the Get: neither a create nor an update of it  *)
(* is refused.                                                             *)
Unchanged(g) == call[g].cm.rv = Target(call[g].update).rv

Commit(g) ==
  LET u == call[g].update
  IN  Unchanged(g) /\ Put(u, Written(Target(u), Updated(u, call[g].cm.data)))

(* The caller goes on: main with its next step, acknowledged tells how the *)
(* update ended.                                                           *)
Return(g, acknowledged) ==
  LET u == call[g].update
  IN  /\ IF g = "main" /\ main = "saving" /\ acknowledged
         THEN main' = "clearing" /\ Begin(g, [op |-> "clear"])
         ELSE /\ main' = IF g # "main" THEN main
                        ELSE IF main = "initializing" THEN "load" ELSE "greet"
              /\ call' = [call EXCEPT ![g] = NoCall]
      /\ acked' = IF u.op = "save" /\ acknowledged THEN u.snapshot ELSE acked
      /\ greets' = IF u.op = "init" /\ state'.data.version # state.data.version THEN 0 ELSE greets
      /\ UNCHANGED <<running, boots, clusterID, shouldNotify, baseline, upgrader, latest, taken,
                     handed>>

RetrySucceeds(g) ==
  /\ InCall(g, "put")
  /\ Commit(g)
  /\ GetAnswers
  /\ Return(g, TRUE)

(* Get or the write fails; a write may have taken effect all the same.     *)
RetryFails(g) ==
  \/ /\ InCall(g, "get") /\ GetFails
     /\ UNCHANGED cmVars
     /\ Return(g, FALSE)
  \/ /\ InCall(g, "put") /\ Fault
     /\ (Commit(g) \/ UNCHANGED cmVars)
     /\ UNCHANGED readFailed
     /\ Return(g, FALSE)

RoundsLeft(g) == call[g].attempt < MaxRetries

(* Create is answered with AlreadyExists, Update with a conflict.          *)
Refused(g) ==
  LET retried == call[g].cm.rv = Absent \/ isConflictError(ConflictMessage)
  IN  /\ InCall(g, "put") /\ ~ Unchanged(g)
      /\ GetAnswers
      /\ UNCHANGED cmVars
      /\ IF retried /\ RoundsLeft(g)
         THEN /\ Again(g)
              /\ UNCHANGED <<main, running, boots, clusterID, shouldNotify, baseline, upgrader,
                             latest, taken, history>>
         ELSE Return(g, FALSE)

UpdateWithRetry(g) == RetryGet(g) \/ RetrySucceeds(g) \/ RetryFails(g) \/ Refused(g)

-----------------------------------------------------------------------------
(* main: HandleStartup, GetBaseline, MigrateLegacyBaseline, NotifyStartup. *)

Idle(g) == call[g] = NoCall

BugEnsureClusterID(read) ==   \* a ConfigMap without an ID is taken at its word
  IF read /\ state.rv # Absent THEN state.data.clusterID ELSE boots

(* A cluster ID that is not there or cannot be read is made up anew.       *)
EnsureClusterID(read) ==
  IF read /\ state.rv # Absent /\ state.data.clusterID # Unset THEN state.data.clusterID ELSE boots

(* Three Gets with nobody else running; each of their errors has its own   *)
(* effect.                                                                 *)
HandleStartup ==
  LET there == state.rv # Absent
      d     == state.data
      Reads(ensured, first, stored) ==
        /\ clusterID' = EnsureClusterID(ensured)
        /\ shouldNotify' =
             \/ ~ first \/ ~ there \/ ~ d.init                                    \* IsFirstRun
             \/ (stored /\ there /\ d.version # Unset /\ d.version # running)     \* isUpgrade
  IN  /\ main = "start"
      /\ \/ GetAnswers /\ Reads(TRUE, TRUE, TRUE)
         \/ GetFails /\ (Reads(FALSE, TRUE, TRUE) \/ Reads(TRUE, FALSE, TRUE)
                         \/ Reads(TRUE, TRUE, FALSE))
      /\ main' = "mark"
      /\ UNCHANGED <<cmVars, running, boots, baseline, upgrader, call, latest, taken, history>>

ThisBoot == [op |-> "init", id |-> clusterID, boot |-> boots, version |-> running]

(* MarkAsInitialized looks whether to create or to update; an error of its *)
(* Get is only logged.                                                     *)
MarkAsInitialized ==
  /\ main = "mark"
  /\ \/ GetFails /\ main' = "load" /\ UNCHANGED call
     \/ GetAnswers /\ state.rv = Absent /\ main' = "create" /\ UNCHANGED call
     \/ GetAnswers /\ state.rv # Absent /\ main' = "initializing" /\ Begin("main", ThisBoot)
  /\ UNCHANGED <<cmVars, running, boots, clusterID, shouldNotify, baseline, upgrader, latest,
                 taken, history>>

createConfigMap ==
  /\ main = "create"
  /\ \/ UNCHANGED faults /\ state' = [rv |-> 1, data |-> Initialized(ThisBoot, EmptyState)]
     \/ Fault /\ state' \in {state, [rv |-> 1, data |-> Initialized(ThisBoot, EmptyState)]}
  /\ main' = "load"
  /\ greets' = IF state'.data.version # state.data.version THEN 0 ELSE greets
  /\ UNCHANGED <<dedicated, running, boots, clusterID, shouldNotify, baseline, upgrader, call,
                 latest, taken, readFailed, acked, handed>>

(* The baseline's own ConfigMap first, then the location before the split. *)
Fallback(own, old) == IF own # 0 THEN own ELSE old

GetBaseline ==
  /\ main = "load"
  /\ \/ GetAnswers /\ baseline' = Fallback(dedicated.data.snapshot, state.data.legacy)
     \/ GetFails /\ (baseline' = state.data.legacy \/ baseline' = dedicated.data.snapshot)
  /\ main' = "migrate"
  /\ UNCHANGED <<cmVars, running, boots, clusterID, shouldNotify, upgrader, call, latest, taken,
                 history>>

BugCopied == main' = "clearing" /\ Begin("main", [op |-> "clear"]) \* cleared, then saved

Copied == main' = "saving" /\ Begin("main", [op |-> "save", snapshot |-> state.data.legacy])

Migration(ownRead, oldRead) ==
  IF ownRead /\ dedicated.data.snapshot # 0 THEN main' = "clearing" /\ Begin("main", [op |-> "clear"])
  ELSE IF oldRead /\ state.data.legacy # 0 THEN Copied
  ELSE main' = "greet" /\ UNCHANGED call

(* An error of the first Get counts as "nothing there".                    *)
MigrateLegacyBaseline ==
  /\ main = "migrate"
  /\ \/ GetAnswers /\ Migration(TRUE, TRUE)
     \/ GetFails /\ Migration(FALSE, TRUE)
     \/ GetFails /\ dedicated.data.snapshot = 0 /\ Migration(TRUE, FALSE)
  /\ UNCHANGED <<cmVars, running, boots, clusterID, shouldNotify, baseline, upgrader, latest,
                 taken, history>>

NotifyStartup ==
  /\ main = "greet"
  /\ main' = "run"
  /\ greets' = IF shouldNotify THEN Capped(greets) ELSE greets
  /\ UNCHANGED <<cmVars, running, boots, clusterID, shouldNotify, baseline, upgrader, call,
                 latest, taken, faults, readFailed, acked, handed>>

Main == \/ HandleStartup \/ MarkAsInitialized \/ createConfigMap \/ GetBaseline
        \/ MigrateLegacyBaseline \/ NotifyStartup \/ UpdateWithRetry("main")

-----------------------------------------------------------------------------
(* The upgrader, which main starts after HandleStartup, and the saver.     *)

Started == main \in {"load", "migrate", "saving", "clearing", "greet", "run"}

BugDue == state.data.notified = Unset  \* once one was announced, no other is

Due == state.rv = Absent \/ state.data.notified # latest

(* GitHub does not answer, or with a release that has no tag.              *)
GetLatestReleaseFails == Fault /\ UNCHANGED <<readFailed, upgrader>>

(* checkRelease, up to the comparison with what was announced; that an     *)
(* error of the ConfigMap reads as "" makes it announce again.             *)
checkRelease ==
  /\ Started /\ Idle("upgrader") /\ upgrader = Unset
  /\ \/ GetLatestReleaseFails
     \/ /\ latest # running
        /\ (GetAnswers /\ Due) \/ GetFails
        /\ upgrader' = latest
  /\ UNCHANGED <<cmVars, main, running, boots, clusterID, shouldNotify, baseline, call, latest,
                 taken, history>>

BugAnnounce ==                \* recorded only, nobody is asked to announce it
  /\ Idle("upgrader") /\ upgrader # Unset
  /\ handed' = handed
  /\ Begin("upgrader", [op |-> "notify", version |-> upgrader])
  /\ upgrader' = Unset
  /\ UNCHANGED <<cmVars, main, running, boots, clusterID, shouldNotify, baseline, latest, taken,
                 faults, readFailed, acked, greets>>

(* Notify hands the message to every provider, ignores their errors and    *)
(* returns nothing; then SetNotifiedVersion records, whoever was reached.  *)
Announce ==
  /\ Idle("upgrader") /\ upgrader # Unset
  /\ handed' = [handed EXCEPT ![upgrader] = Capped(@)]
  /\ Begin("upgrader", [op |-> "notify", version |-> upgrader])
  /\ upgrader' = Unset
  /\ UNCHANGED <<cmVars, main, running, boots, clusterID, shouldNotify, baseline, latest, taken,
                 faults, readFailed, acked, greets>>

Upgrader == checkRelease \/ Announce \/ UpdateWithRetry("upgrader")

(* The engine's baseline changed and the saver writes the new snapshot.    *)
SaveBaseline ==
  /\ main = "run" /\ Idle("saver")
  /\ taken < MaxSaves
  /\ taken' = taken + 1
  /\ Begin("saver", [op |-> "save", snapshot |-> taken + 1])
  /\ UNCHANGED <<cmVars, main, running, boots, clusterID, shouldNotify, baseline, upgrader,
                 latest, faults, readFailed, history>>

Saver == SaveBaseline \/ UpdateWithRetry("saver")

-----------------------------------------------------------------------------
(* The process and its surroundings.                                       *)

(* kwatch is killed between any two steps.                                 *)
Crash ==
  /\ main # "down"
  /\ main' = "down"
  /\ call' = [g \in Goroutine |-> NoCall]
  /\ upgrader' = Unset
  /\ UNCHANGED <<cmVars, running, boots, clusterID, shouldNotify, baseline, latest, taken,
                 faults, readFailed, history>>

Restart ==
  /\ main = "down" /\ boots < MaxBoots
  /\ main' = "start"
  /\ boots' = boots + 1
  /\ running' \in Version
  /\ UNCHANGED <<cmVars, clusterID, shouldNotify, baseline, upgrader, call, latest, taken,
                 faults, readFailed, history>>

Release ==
  /\ latest' \in Version \ {latest}
  /\ handed[latest'] = 0        \* a new one
  /\ UNCHANGED <<cmVars, processVars, taken, faults, readFailed, history>>

(* A cluster that never ran kwatch, one that ran a kwatch which kept its   *)
(* baseline in kwatch-state, and one that was migrated.  A version that is *)
(* recorded as notified was handed to the alert manager.                   *)
Init ==
  /\ \/ /\ state = [rv |-> Absent, data |-> EmptyState]
        /\ dedicated = [rv |-> Absent, data |-> NoBaseline]
     \/ \E v \in Version, legacy \in {0, 1} :
          /\ state = [rv |-> 1, data |->
                      [init |-> TRUE, clusterID |-> 0, firstRun |-> 0, version |-> v,
                       notified |-> Unset, legacy |-> legacy]]
          /\ dedicated \in {[rv |-> Absent, data |-> NoBaseline], [rv |-> 1, data |-> [snapshot |-> 1]]}
  /\ acked = Fallback(dedicated.data.snapshot, state.data.legacy)
  /\ taken = 1
  /\ main = "down" /\ boots = 0
  /\ running \in Version /\ latest \in Version
  /\ clusterID = 0 /\ shouldNotify = FALSE /\ baseline = 0
  /\ upgrader = Unset
  /\ call = [g \in Goroutine |-> NoCall]
  /\ faults = 0 /\ readFailed = FALSE
  /\ handed = [v \in Version |-> 0] /\ greets = 0

Next ==
  \/ Main \/ Upgrader \/ Saver
  \/ Crash \/ Restart \/ Release

Spec == Init /\ [][Next]_vars

(***************************************************************************)
(* Go runs what can run, API calls and timers end, and the ticker of the   *)
(* upgrader keeps firing.  Nothing makes kwatch start again.               *)
(***************************************************************************)
FairSpec == Spec /\ WF_vars(Main) /\ WF_vars(Upgrader)

-----------------------------------------------------------------------------
(***************************************************************************)
(* Three goroutines that read, modify and write, calls that fail before or *)
(* after they took effect, and kills between a read and a write add up to  *)
(* single operations: no update is lost to another one, the cluster's ID   *)
(* and the time of the first run never change once set, and the old copy   *)
(* of the baseline goes only when there is a new one.                      *)
(***************************************************************************)
Content ==
  INSTANCE KwatchState WITH
    clusterID <- state.data.clusterID, firstRun <- state.data.firstRun,
    version <- state.data.version, notified <- state.data.notified,
    legacy <- state.data.legacy, baseline <- dedicated.data.snapshot

ImplementsKwatchState == Content!Spec

StoredBaseline == Fallback(dedicated.data.snapshot, state.data.legacy)

(***************************************************************************)
(* A snapshot whose save was acknowledged is the one the next start finds, *)
(* or a newer one, through migrations cut short anywhere, unless some Get  *)
(* failed: GetBaseline and the migration take a failed Get for an absent   *)
(* ConfigMap.                                                              *)
(***************************************************************************)
AcknowledgedSurvives ==
  ~ readFailed =>
    /\ StoredBaseline >= acked
    /\ main \in {"migrate", "saving", "clearing", "greet"} => baseline >= acked

(* A release recorded as announced was handed to the alert manager before, *)
(* on that day or an earlier one: a kill between the two makes kwatch      *)
(* announce it again, never record it without a try.  It is a try only:    *)
(* Notify drops the providers' errors, so a release that every one of them *)
(* refused is recorded like any other and not announced again.             *)
RecordedIsHanded ==
  \A v \in Version : state.data.notified = v => handed[v] > 0

(* As long as no API call fails, the greeting is sent at most once for     *)
(* each change of version, however often kwatch is restarted.              *)
GreetedOnce == faults = 0 => greets <= 1

(* Liveness, under FairSpec: while kwatch is up and GitHub and the API     *)
(* server answer some day (at most MaxFaults calls fail), a release that   *)
(* stays the latest is handed to the alert manager.  What becomes of it    *)
(* there is not looked at.                                                 *)
ReleaseHanded ==
  \A v \in Version :
    (latest = v /\ running # v /\ main # "down") ~> (handed[v] > 0 \/ latest # v \/ main = "down")
=============================================================================
