------------------------------ MODULE Notifier ------------------------------
(***************************************************************************)
(* What one provider makes of an incident (internal/alert/alert.go,        *)
(* internal/alert/slack/slack.go): silences when it is notified, routes    *)
(* when it is delivered, the retries of sendWithRetry and their pauses,    *)
(* Slack's threads, and the dead letters at the end.                       *)
(*                                                                         *)
(* Delivery has the concurrency in between; here the provider's channel is *)
(* a queue that loses its oldest job when it is full.  Texts are left out: *)
(* an incident is a number, in the order in which they were opened, and a  *)
(* root message at Slack has the number of the incident it announced.      *)
(* What is sent outside the engine's incidents (the startup summary, the   *)
(* digest's summary, plain messages) is left out.                          *)
(***************************************************************************)
EXTENDS DeadLetters

CONSTANTS
  Key,            \* incident keys
  Severity,       \* severities, as numbers
  Kind,           \* what the provider may be, see deliverOne
  RouteSeverity,  \* the severities the provider's routes let through
  ChannelCap,     \* channelCap
  MaxAttempts,    \* retry.maxAttempts
  Delay,          \* retry.delay, which may be zero or less
  MaxBackoff,     \* kind -> retry.maxBackoff, zero or less for none
  RetryAfter,     \* the pauses a failed attempt may ask for, 0 for none
  IntBits,        \* width of a time.Duration
  maxThreadMapSize,
  NoJob,
  MaxIncidents, MaxSilences \* bounds: incidents opened, changes of the silences

(* A signed integer of IntBits bits.                                       *)
Duration == - 2 ^ (IntBits - 1) .. 2 ^ (IntBits - 1) - 1

Id == 1 .. MaxIncidents
NoId == 0

Action == {"Create", "Digest", "Update", "Resolved"}
Job == [key : Key, id : Id, severity : Severity, action : Action]

ASSUME NotifierAssumption ==
  /\ Kind \subseteq {"thread", "event", "message"}
  /\ Severity \subseteq Nat /\ RouteSeverity \subseteq Severity
  /\ ChannelCap \in Nat \ {0}
  /\ MaxAttempts \in 1 .. 20                          \* extractRetry
  /\ IntBits \in Nat \ {0}
  /\ 2 ^ IntBits = 2 * 2 ^ (IntBits - 1)              \* so for every IntBits; the provers cannot tell
  /\ Delay \in Duration /\ MaxBackoff \in [Kind -> Duration] /\ RetryAfter \subseteq Duration
  /\ maxThreadMapSize \in Nat \ {0}
  /\ MaxIncidents \in Nat /\ MaxSilences \in Nat
  /\ Failure = Key
  /\ NoJob \notin Job

(***************************************************************************)
(* Definitions named Bug... are mistakes this code could have made, each   *)
(* next to the definition it would replace.  Nothing uses them: they show  *)
(* that the properties below can fail.                                     *)
(***************************************************************************)

VARIABLES
  incident,    \* key -> its open incident, as far as notifications depend on it
  issued,      \* number of incidents opened
  silenced,    \* the keys the silences match
  silences,    \* number of changes of the silences
  kind,        \* what the provider is
  ch,          \* its channel
  worker,      \* the job its worker is at, and the attempt
  pause,       \* how long the worker slept before this attempt, and who said so
  threadMap,   \* Slack: key -> the root message of its incident
  posted,      \* history: the last post into a thread: its incident and the thread
  shown,       \* history: incidents the provider shows as going on
  untold,      \* history: incidents the provider was not told the end of, because they
               \* ended without a word, or the resolve was silenced, not routed or dropped
  dead         \* history: incidents with a resolve in the dead letters

engineVars  == <<incident, issued, silenced, silences>>
slackVars   == <<threadMap, posted>>
tellVars    == <<shown, untold, dead>>
vars == <<dlqVars, engineVars, kind, ch, worker, pause, slackVars, tellVars>>

Incident == [id : Id, severity : Severity, digested : BOOLEAN]
NoIncident == [id |-> NoId, severity |-> 0, digested |-> FALSE]
IdleWorker == [job |-> NoJob, attempt |-> 0]
NoPause == [by |-> "nobody", length |-> 0]
NoPost == [id |-> NoId, thread |-> NoId]

TypeOK ==
  /\ DlqTypeOK
  /\ incident \in [Key -> Incident \cup {NoIncident}]
  /\ issued \in 0 .. MaxIncidents
  /\ silenced \subseteq Key /\ silences \in 0 .. MaxSilences
  /\ kind \in Kind
  /\ ch \in Seq(Job) /\ Len(ch) <= ChannelCap
  /\ worker \in [job : Job \cup {NoJob}, attempt : 0 .. MaxAttempts]
  /\ pause \in [by : {"nobody", "backoff", "provider"}, length : Int]
  /\ threadMap \in [Key -> Id \cup {NoId}]
  /\ posted \in [id : Id \cup {NoId}, thread : Id \cup {NoId}]
  /\ shown \subseteq Id /\ untold \subseteq Id /\ dead \subseteq Id

-----------------------------------------------------------------------------
(* The engine's side: what it tells of one key.                            *)

isSilenced(key) == key \in silenced

Lost(job) == IF job.action = "Resolved" THEN {job.id} ELSE {}

(* NotifyIncident and fanOut: a silenced incident goes nowhere; a full     *)
(* channel loses its oldest job.                                           *)
NotifyIncident(job) ==
  IF isSilenced(job.key)
  THEN untold' = untold \cup Lost(job) /\ UNCHANGED ch
  ELSE IF Len(ch) < ChannelCap
  THEN ch' = Append(ch, job) /\ UNCHANGED untold
  ELSE ch' = Append(Tail(ch), job) /\ untold' = untold \cup Lost(Head(ch))

Notice(key, i, action) == [key |-> key, id |-> i.id, severity |-> i.severity, action |-> action]

(* A new incident is paged, or left to the digest during a storm, which is *)
(* notified too.                                                           *)
Create(key) ==
  /\ incident[key] = NoIncident /\ issued < MaxIncidents
  /\ issued' = issued + 1
  /\ \E s \in Severity, digested \in BOOLEAN :
       LET i == [id |-> issued + 1, severity |-> s, digested |-> digested]
       IN  /\ incident' = [incident EXCEPT ![key] = i]
           /\ NotifyIncident(Notice(key, i, IF digested THEN "Digest" ELSE "Create"))
  /\ UNCHANGED <<dlqVars, silenced, silences, kind, worker, pause, slackVars, shown, dead>>

(* A severity changes upwards only; otherwise a reminder is due.  From now *)
(* on the operator knows of the incident.                                  *)
Update(key) ==
  /\ incident[key] # NoIncident
  /\ \E s \in Severity :
       LET i == [incident[key] EXCEPT !.severity = s, !.digested = FALSE]
       IN  /\ s > incident[key].severity \/ i = incident[key]
           /\ incident' = [incident EXCEPT ![key] = i]
           /\ NotifyIncident(Notice(key, i, "Update"))
  /\ UNCHANGED <<dlqVars, issued, silenced, silences, kind, worker, pause, slackVars, shown, dead>>

EndUnsaid(i) == untold' = untold \cup {i.id} /\ UNCHANGED ch

(* The end of an incident of which only the digest spoke is not notified.  *)
Resolve(key) ==
  LET i == incident[key]
  IN  /\ i # NoIncident
      /\ incident' = [incident EXCEPT ![key] = NoIncident]
      /\ IF i.digested THEN EndUnsaid(i) ELSE NotifyIncident(Notice(key, i, "Resolved"))
      /\ UNCHANGED <<dlqVars, issued, silenced, silences, kind, worker, pause, slackVars, shown,
                     dead>>

(* An incident on hold that was not seen for the window is deleted before  *)
(* its resolve is due, without a word.  Any may be on hold: going on hold  *)
(* and coming back tell nobody, and are left out.                          *)
cleanup(key) ==
  /\ incident[key] # NoIncident
  /\ incident' = [incident EXCEPT ![key] = NoIncident]
  /\ EndUnsaid(incident[key])
  /\ UNCHANGED <<dlqVars, issued, silenced, silences, kind, worker, pause, slackVars, shown, dead>>

(* The CRD watcher replaces the silences at any time.                      *)
SetSilences ==
  /\ silences < MaxSilences
  /\ silences' = silences + 1
  /\ silenced' \in SUBSET Key \ {silenced}
  /\ UNCHANGED <<dlqVars, incident, issued, kind, ch, worker, pause, slackVars, tellVars>>

-----------------------------------------------------------------------------
(* Slack with a bot token.                                                 *)

Threads == Cardinality({k \in Key : threadMap[k] # NoId})

Tracked(key) == Threads < maxThreadMapSize

BugThreadsAfter(job, ok) ==   \* the thread of a resolved incident stays
  IF job.action = "Create" /\ ok /\ Tracked(job.key)
  THEN [threadMap EXCEPT ![job.key] = job.id] ELSE threadMap

(* A resolve forgets the thread before it is posted, a create enters it    *)
(* after it was.                                                           *)
ThreadsAfter(job, ok) ==
  CASE job.action = "Create" /\ ok /\ Tracked(job.key) -> [threadMap EXCEPT ![job.key] = job.id]
    [] job.action = "Resolved"                         -> [threadMap EXCEPT ![job.key] = NoId]
    [] OTHER                                           -> threadMap

(* Slack posts nothing for an incident left to the digest; the others send *)
(* a message, or open an alert.                                            *)
Posts(job) == kind # "thread" \/ job.action # "Digest"

(* One attempt; ok is what the API answered, done what it did: a request   *)
(* that timed out may have been carried out.                               *)
sendIncidentWithToken(job, ok, done) ==
  LET thread == IF job.action = "Create" THEN NoId ELSE threadMap[job.key]
  IN  /\ threadMap' = ThreadsAfter(job, ok)
      /\ posted' = IF done /\ thread # NoId /\ Posts(job)
                   THEN [id |-> job.id, thread |-> thread] ELSE posted

(* What the reader of the provider sees, by a message, a thread or an      *)
(* alert with the incident's identity.                                     *)
Show(job, done) ==
  shown' = IF ~ (done /\ Posts(job)) THEN shown
           ELSE IF job.action = "Resolved" THEN shown \ {job.id} ELSE shown \cup {job.id}

(* The call sendWithRetry repeats.                                         *)
Send(job, ok, done) ==
  /\ ok => done
  /\ ~ ok => Posts(job)
  /\ IF kind = "thread" THEN sendIncidentWithToken(job, ok, done) ELSE UNCHANGED slackVars
  /\ Show(job, done)

-----------------------------------------------------------------------------
(* sendWithRetry and the pauses between its attempts.                      *)

(* A product of a signed integer of IntBits bits.                          *)
Wrapped(n) == LET m == n % 2 ^ IntBits
              IN  IF m < 2 ^ (IntBits - 1) THEN m ELSE m - 2 ^ IntBits

BugbackoffFor(attempt) ==     \* compared before it may have overflowed
  LET d == Delay * 2 ^ (attempt - 1)
  IN  IF MaxBackoff[kind] > 0 /\ d > MaxBackoff[kind] THEN Wrapped(d) ELSE d

(* With at most 20 attempts the shift stays below its own limit of 30.     *)
backoffFor(attempt) ==
  LET max == MaxBackoff[kind]
      d   == Wrapped(Delay * 2 ^ (attempt - 1))
      c   == IF max > 0 /\ (d > max \/ d <= 0) THEN max ELSE d
  IN  IF c < Delay THEN Delay ELSE c

(* A pause the failed attempt asked for (Retry-After, a rate limit) takes  *)
(* the place of the configured one, as it is.                              *)
PauseAfter(attempt, asked) ==
  IF asked > 0 THEN [by |-> "provider", length |-> asked]
  ELSE [by |-> "backoff",
        length |-> IF MaxBackoff[kind] > 0 THEN backoffFor(attempt) ELSE Delay]

BugshouldDeliver(job) ==      \* nothing is routed once it is resolved
  job.severity \in RouteSeverity /\ job.action # "Resolved"

(* The routes look at the incident as it is now.                           *)
shouldDeliver(job) == job.severity \in RouteSeverity

(* What the job's severity must not have become.                           *)
Unrouted(job) == IF job.severity \in RouteSeverity THEN {} ELSE Lost(job)

Receive ==
  /\ worker.job = NoJob /\ ch # <<>>
  /\ ch' = Tail(ch)
  /\ IF shouldDeliver(Head(ch))
     THEN worker' = [job |-> Head(ch), attempt |-> 1] /\ UNCHANGED untold
     ELSE untold' = untold \cup Unrouted(Head(ch)) /\ UNCHANGED worker
  /\ UNCHANGED <<dlqVars, engineVars, kind, pause, slackVars, shown, dead>>

Succeed ==
  /\ worker.job # NoJob
  /\ Send(worker.job, TRUE, TRUE)
  /\ worker' = IdleWorker /\ pause' = NoPause
  /\ UNCHANGED <<dlqVars, engineVars, kind, ch, untold, dead>>

(* The next attempt comes after the pause.                                 *)
Retry ==
  /\ worker.job # NoJob /\ worker.attempt < MaxAttempts
  /\ \E done \in BOOLEAN : Send(worker.job, FALSE, done)
  /\ \E asked \in RetryAfter \cup {0} : pause' = PauseAfter(worker.attempt, asked)
  /\ worker' = [worker EXCEPT !.attempt = @ + 1]
  /\ UNCHANGED <<dlqVars, engineVars, kind, ch, untold, dead>>

(* The last attempt fails: recordDeadLetter.  The one message to the       *)
(* fallback that follows changes nothing here.                             *)
GiveUp ==
  LET job == worker.job
  IN  /\ job # NoJob /\ worker.attempt = MaxAttempts
      /\ \E done \in BOOLEAN : Send(job, FALSE, done)
      /\ recordDeadLetter(job.key)
      /\ dead' = dead \cup Lost(job)
      /\ worker' = IdleWorker /\ pause' = NoPause
      /\ UNCHANGED <<engineVars, kind, ch, untold>>

deliverOne == Receive \/ Succeed \/ Retry \/ GiveUp

-----------------------------------------------------------------------------
Init ==
  /\ DlqInit
  /\ incident = [k \in Key |-> NoIncident] /\ issued = 0
  /\ silenced = {} /\ silences = 0
  /\ kind \in Kind
  /\ ch = <<>> /\ worker = IdleWorker /\ pause = NoPause
  /\ threadMap = [k \in Key |-> NoId] /\ posted = NoPost
  /\ shown = {} /\ untold = {} /\ dead = {}

Next ==
  \/ \E key \in Key :
       Create(key) \/ Update(key) \/ Resolve(key) \/ cleanup(key)
  \/ SetSilences
  \/ deliverOne

Spec == Init /\ [][Next]_vars

-----------------------------------------------------------------------------
AtRest == worker.job = NoJob /\ ch = <<>>

OpenIds == {incident[k].id : k \in Key}

(***************************************************************************)
(* What a provider shows of an incident as going on is going on, once      *)
(* everything queued is delivered.  The exceptions are those it was never  *)
(* told the end of: the engine let them end without a word (on hold for    *)
(* longer than the window, or left to a digest), or the resolve was        *)
(* silenced, had a severity that is not routed to it, was dropped from a   *)
(* full channel, or is a dead letter.                                      *)
(***************************************************************************)
EveryPageEnds == AtRest => shown \subseteq OpenIds \cup untold \cup dead

(***************************************************************************)
(* What is posted to a thread is posted to that of its own incident, or of *)
(* an earlier one of the same key that ended without Slack being told,     *)
(* whatever posts fail and however full the map is.                        *)
(***************************************************************************)
ThreadOfItsOwn == posted.thread \in {posted.id} \cup untold

(* Nor do threads accumulate: those remembered are those of open incidents *)
(* and of such earlier ones, and they stay within the bound of the map.    *)
ThreadsBounded ==
  /\ Threads <= maxThreadMapSize
  /\ AtRest => \A k \in Key : threadMap[k] \in {incident[k].id, NoId} \cup untold

(* The types, and the two statements about threads, in one invariant.      *)
ThreadsExact == TypeOK /\ ThreadOfItsOwn /\ ThreadsBounded

(* A pause the provider did not ask for is at least the configured delay   *)
(* and no longer than the configured maximum, if there is one above it,    *)
(* also where doubling the delay overflows.  What a provider asks for has  *)
(* no limit, and is never zero or less.                                    *)
PauseWithinBounds ==
  /\ pause.by = "provider" => pause.length > 0
  /\ pause.by = "backoff" =>
       /\ Delay <= pause.length
       /\ pause.length <= IF MaxBackoff[kind] < Delay THEN Delay ELSE MaxBackoff[kind]

=============================================================================
