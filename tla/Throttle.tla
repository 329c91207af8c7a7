------------------------------ MODULE Throttle ------------------------------
(***************************************************************************)
(* The throttler and what it throttles.  Every tick it asks shouldThrottle *)
(* and stores the answer in a flag; iterateChunks looks at the flag before *)
(* it cuts a chunk and sleeps while it is set.  Row events are applied     *)
(* whether it is set or not.                                               *)
(*                                                                         *)
(* The same goroutine writes heartbeats to the changelog table, which come *)
(* back through the replication stream: the time since the last one that   *)
(* came back is taken for the replication lag.                             *)
(*                                                                         *)
(* Time passes in ticks; ages are counted up to AgeCap.                    *)
(***************************************************************************)
EXTENDS Integers, Sequences

CONSTANTS
  Controls,        \* what the environment uses: subset of user, file, http, load
  Loads,           \* loads told apart: ok, high (above max-load), critical
  MaxLoadSet,      \* --max-load is given
  CriticalLoadSet, \* --critical-load is given
  MaxLag,          \* --max-lag-millis, in ticks
  HttpInterval,    \* ThrottleHTTPIntervalMillis, in ticks
  HibernateTicks,  \* CriticalLoadHibernateSeconds, in ticks
  AgeCap,          \* bound: ages are not told apart beyond it
  MaxBeats,        \* bound: heartbeats in the stream
  Chunks,          \* bound: chunks of the row copy
  MaxEvents        \* bound: row events of the run

ASSUME ThrottleAssumption ==
  /\ Controls \subseteq {"user", "file", "http", "load"}
  /\ "ok" \in Loads /\ Loads \subseteq {"ok", "high", "critical"}
  /\ MaxLoadSet \in BOOLEAN /\ CriticalLoadSet \in BOOLEAN
  /\ {MaxLag, HttpInterval, HibernateTicks, AgeCap, MaxBeats, Chunks, MaxEvents} \subseteq Nat
  /\ HttpInterval <= AgeCap

Never == -1

VARIABLES
  \* the environment
  user,       \* ThrottleCommandedByUser
  file,       \* a throttle flag file exists
  httpOk,     \* the HTTP endpoint answers 200
  load,       \* the load the metrics show
  \* the throttler
  tpc,        \* tick, set
  decision,   \* the answer of shouldThrottle that is about to be stored
  throttled,  \* isThrottled
  hibernate,  \* ticks until HibernateUntil
  httpAge,    \* ticks since lastHTTPCheck
  answer,     \* history: the last HTTP answer was 200
  \* heartbeats
  beatRow,    \* the changelog table has its heartbeat row
  beats,      \* heartbeat events in the replication stream
  beatAge,    \* ticks since lastHeartbeatOnChangelogTime, or Never
  writeAge,   \* history: ticks since the last heartbeat was written
  \* the row copy
  ipc,        \* iterateChunks: poll, calc, offer, done
  xpc,        \* executeWriteFuncs: poll, wait, copy
  chunks, queued, events,
  critical,   \* InCutOverCriticalSectionFlag
  started     \* history: chunk copies started since the flag was last raised

envVars  == <<user, file, httpOk, load>>
httpVars == <<httpAge, answer>>
beatVars == <<beatRow, beats, beatAge, writeAge>>
copyVars == <<ipc, xpc, chunks, queued, events, critical>>
flagVars == <<tpc, decision, throttled, hibernate>>
vars == <<envVars, flagVars, httpVars, beatVars, copyVars, started>>

TypeOK ==
  /\ user \in BOOLEAN /\ file \in BOOLEAN /\ httpOk \in BOOLEAN /\ answer \in BOOLEAN
  /\ load \in Loads
  /\ tpc \in {"tick", "set"} /\ decision \in BOOLEAN /\ throttled \in BOOLEAN
  /\ hibernate \in 0 .. HibernateTicks /\ httpAge \in 0 .. AgeCap
  /\ beatRow \in BOOLEAN /\ beats \in Seq({"insert", "update"}) /\ Len(beats) <= MaxBeats
  /\ beatAge \in {Never} \cup 0 .. AgeCap /\ writeAge \in 0 .. AgeCap
  /\ ipc \in {"poll", "calc", "offer", "done"} /\ xpc \in {"poll", "wait", "copy"}
  /\ chunks \in 0 .. Chunks /\ queued \in 0 .. MaxEvents /\ events \in 0 .. MaxEvents
  /\ critical \in BOOLEAN /\ started \in 0 .. Chunks

Init ==
  /\ user = FALSE /\ file = FALSE /\ httpOk = TRUE /\ load = "ok"
  /\ tpc = "tick" /\ decision = FALSE /\ throttled = FALSE /\ hibernate = 0
  /\ httpAge = AgeCap /\ answer = TRUE
  /\ beatRow = FALSE /\ beats = <<>> /\ beatAge = Never /\ writeAge = AgeCap
  /\ ipc = "poll" /\ xpc = "poll"
  /\ chunks = Chunks /\ queued = 0 /\ events = MaxEvents
  /\ critical = FALSE /\ started = 0

-----------------------------------------------------------------------------
(* The operator, the load, the endpoint, the application, time. *)

\* throttle and no-throttle on the control socket.
ThrottleCommand ==
  /\ "user" \in Controls
  /\ user' = ~user
  /\ UNCHANGED <<file, httpOk, load, flagVars, httpVars, beatVars, copyVars, started>>

Environment ==
  /\ \/ "file" \in Controls /\ file' = ~file /\ UNCHANGED <<httpOk, load>>
     \/ "http" \in Controls /\ httpOk' = ~httpOk /\ UNCHANGED <<file, load>>
     \/ "load" \in Controls /\ load' \in Loads \ {load} /\ UNCHANGED <<file, httpOk>>
  /\ UNCHANGED <<user, flagVars, httpVars, beatVars, copyVars, started>>

RowEvent ==
  /\ events > 0
  /\ events' = events - 1 /\ queued' = queued + 1
  /\ UNCHANGED <<envVars, flagVars, httpVars, beatVars, ipc, xpc, chunks, critical, started>>

Older(age) == IF age < AgeCap THEN age + 1 ELSE age

Tick ==
  /\ hibernate' = IF hibernate > 0 THEN hibernate - 1 ELSE 0
  /\ httpAge' = Older(httpAge) /\ writeAge' = Older(writeAge)
  /\ beatAge' = IF beatAge = Never THEN Never ELSE Older(beatAge)
  /\ UNCHANGED <<envVars, tpc, decision, throttled, answer, beatRow, beats, copyVars, started>>

-----------------------------------------------------------------------------
(* shouldThrottle: the checks in the order of the code, the first that
   answers yes ends it.  Only the HTTP check and the critical load have an
   effect of their own, when they are reached. *)

\* Mutant: HibernateUntil is stored and never looked at.
ReachesHttpUnhibernated == ~critical /\ ~user /\ ~file

ReachesHttp == ~critical /\ ~user /\ hibernate = 0 /\ ~file

\* checkHTTPThrottle asks the endpoint once per interval and says no in between.
HttpAsked     == ReachesHttp /\ "http" \in Controls /\ httpAge >= HttpInterval
HttpThrottles == HttpAsked /\ ~httpOk

LagThrottles     == beatAge > MaxLag
MaxLoadThrottles == MaxLoadSet /\ load # "ok"

ReachesCritical == ReachesHttp /\ ~HttpThrottles /\ ~LagThrottles /\ ~MaxLoadThrottles
CriticalThrottles == ReachesCritical /\ CriticalLoadSet /\ load = "critical"

shouldThrottle == ~critical /\ (~ReachesCritical \/ CriticalThrottles)

CheckThrottle ==
  /\ tpc = "tick" /\ tpc' = "set"
  /\ decision' = shouldThrottle
  /\ hibernate' = IF CriticalThrottles THEN HibernateTicks ELSE hibernate
  /\ httpAge' = IF HttpAsked THEN 0 ELSE httpAge
  /\ answer' = IF HttpAsked THEN httpOk ELSE answer
  /\ UNCHANGED <<envVars, throttled, beatVars, copyVars, started>>

\* Mutant: the flag is raised and never lowered.
SetThrottleSticky ==
  /\ tpc = "set" /\ tpc' = "tick"
  /\ throttled' = (throttled \/ decision)
  /\ started' = IF decision /\ ~throttled THEN 0 ELSE started
  /\ UNCHANGED <<envVars, decision, hibernate, httpVars, beatVars, copyVars>>

SetThrottle ==
  /\ tpc = "set" /\ tpc' = "tick"
  /\ throttled' = decision
  /\ started' = IF decision /\ ~throttled THEN 0 ELSE started
  /\ UNCHANGED <<envVars, decision, hibernate, httpVars, beatVars, copyVars>>

-----------------------------------------------------------------------------
(* Heartbeats. *)

\* INSERT ... ON CONFLICT (hint) DO UPDATE: the first one inserts the row.
WriteHeartbeat ==
  /\ tpc = "tick" /\ Len(beats) < MaxBeats
  /\ beats' = Append(beats, IF beatRow THEN "update" ELSE "insert")
  /\ beatRow' = TRUE /\ writeAge' = 0
  /\ UNCHANGED <<envVars, flagVars, httpVars, beatAge, copyVars, started>>

\* handleChangelogEvent looks at INSERT events only.
HandleHeartbeat ==
  /\ beats # <<>> /\ beats' = Tail(beats)
  /\ beatAge' = IF Head(beats) = "insert" THEN 0 ELSE beatAge
  /\ UNCHANGED <<envVars, flagVars, httpVars, beatRow, writeAge, copyVars, started>>

-----------------------------------------------------------------------------
(* The row copy. *)

\* Mutant: the flag is not looked at.
PassThrottleCheckBlindly ==
  /\ ipc = "poll" /\ ipc' = "calc"
  /\ UNCHANGED <<envVars, flagVars, httpVars, beatVars, xpc, chunks, queued, events, critical, started>>

\* IsThrottled is false; otherwise the iterator sleeps and asks again.
PassThrottleCheck ==
  /\ ipc = "poll" /\ ~throttled /\ ipc' = "calc"
  /\ UNCHANGED <<envVars, flagVars, httpVars, beatVars, xpc, chunks, queued, events, critical, started>>

\* Mutant: the end of the range is not noticed.
NextChunkUnbounded ==
  /\ ipc = "calc" /\ ipc' = "offer" /\ chunks' = chunks - 1
  /\ UNCHANGED <<envVars, flagVars, httpVars, beatVars, xpc, queued, events, critical, started>>

NextChunk ==
  /\ ipc = "calc"
  /\ \/ chunks > 0 /\ chunks' = chunks - 1 /\ ipc' = "offer"
     \/ chunks = 0 /\ ipc' = "done" /\ UNCHANGED chunks
  /\ UNCHANGED <<envVars, flagVars, httpVars, beatVars, xpc, queued, events, critical, started>>

\* Mutant: the executor, too, stands still while the flag is set.
ApplyEventsUnthrottled ==
  /\ xpc = "poll" /\ queued > 0 /\ ~throttled /\ queued' = queued - 1
  /\ UNCHANGED <<envVars, flagVars, httpVars, beatVars, ipc, xpc, chunks, events, critical, started>>

ApplyEvents ==
  /\ xpc = "poll" /\ queued > 0 /\ queued' = queued - 1
  /\ UNCHANGED <<envVars, flagVars, httpVars, beatVars, ipc, xpc, chunks, events, critical, started>>

\* The queue is empty: wait for a copy function, or for 100ms.  Row events
\* that arrive meanwhile wait with it.
PollCopyRows ==
  /\ xpc = "poll" /\ queued = 0 /\ xpc' = "wait"
  /\ UNCHANGED <<envVars, flagVars, httpVars, beatVars, ipc, chunks, queued, events, critical, started>>

PollTimeout ==
  /\ xpc = "wait" /\ ipc # "offer" /\ xpc' = "poll"
  /\ UNCHANGED <<envVars, flagVars, httpVars, beatVars, ipc, chunks, queued, events, critical, started>>

StartCopy ==
  /\ xpc = "wait" /\ ipc = "offer"
  /\ xpc' = "copy" /\ ipc' = "poll" /\ started' = started + 1
  /\ UNCHANGED <<envVars, flagVars, httpVars, beatVars, chunks, queued, events, critical>>

FinishCopy ==
  /\ xpc = "copy" /\ xpc' = "poll"
  /\ UNCHANGED <<envVars, flagVars, httpVars, beatVars, ipc, chunks, queued, events, critical, started>>

\* The postponement of the cutover is over.
EnterCriticalSection ==
  /\ ipc = "done" /\ ~critical /\ critical' = TRUE
  /\ UNCHANGED <<envVars, flagVars, httpVars, beatVars, ipc, xpc, chunks, queued, events, started>>

Throttler == CheckThrottle \/ SetThrottle \/ WriteHeartbeat
iterateChunks == PassThrottleCheck \/ NextChunk
executeWriteFuncs == ApplyEvents \/ PollCopyRows \/ PollTimeout \/ StartCopy \/ FinishCopy

Next ==
  \/ ThrottleCommand \/ Environment \/ RowEvent \/ Tick
  \/ Throttler \/ HandleHeartbeat
  \/ iterateChunks \/ executeWriteFuncs \/ EnterCriticalSection

Spec == Init /\ [][Next]_vars

\* Time passes, the throttler's ticker fires, the goroutines run.
FairSpec ==
  /\ Spec
  /\ WF_vars(Tick) /\ WF_vars(HandleHeartbeat)
  /\ WF_vars(CheckThrottle) /\ WF_vars(SetThrottle)
  /\ WF_vars(iterateChunks) /\ WF_vars(executeWriteFuncs)

-----------------------------------------------------------------------------
(* What throttling promises. *)

\* Once the flag is up at most one more chunk copy starts, the one that was
\* past the check, however many were cut before.
ThrottleStopsRowCopy == throttled => started <= 1

\* During a hibernation the flag stays up, whatever the load does meanwhile
\* (but in the critical section, where nothing throttles).
HibernationHolds == hibernate > 0 /\ tpc = "tick" => throttled \/ critical

\* Row events are applied however long the row copy stands still.
EventsFlow == queued > 0 ~> queued = 0

\* With every reason gone for good the row copy goes on and ends.
Clear == ~user /\ ~file /\ httpOk /\ load = "ok" /\ ~LagThrottles
RowCopyResumes == <>[]Clear => <>(ipc = "done")

\* Findings.  The throttler sees lag only if a heartbeat is still on its way
\* or none has been written for that long,
LagThrottleMeansLag ==
  [][CheckThrottle /\ LagThrottles => beats # <<>> \/ writeAge > MaxLag]_vars

\* a throttle stays up while the endpoint's last answer was not 200,
HttpThrottleHolds == [][throttled /\ ~answer /\ ~critical => throttled']_vars

\* and the throttler hibernates when it sees the critical load.
CriticalLoadHibernates ==
  [][CheckThrottle /\ CriticalLoadSet /\ load = "critical" /\ ~critical => hibernate' > 0]_vars
=============================================================================
