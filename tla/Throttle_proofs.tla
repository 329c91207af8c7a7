-------------------------- MODULE Throttle_proofs --------------------------
(***************************************************************************)
(* Proofs about Throttle, for every set of controls, every threshold,      *)
(* interval and number of chunks.                                          *)
(***************************************************************************)
EXTENDS Throttle, TLAPS

\* Chunks that are past the check of the flag and not yet started.
Passed == IF ipc \in {"calc", "offer"} THEN 1 ELSE 0
Offered == IF ipc = "offer" THEN 1 ELSE 0

\* TypeOK is inductive with two sums: a chunk is uncut, offered or started, an
\* event is in the application's hands, in the queue or applied.
TypeInv ==
  /\ TypeOK
  /\ started + chunks + Offered <= Chunks
  /\ queued + events <= MaxEvents

\* The throttler's answer is on its way to the flag, so a hibernation is held
\* by the answer first and by the flag then; and of the chunks behind the
\* flag's check the one that is past it counts as started.
ThrottleInv ==
  /\ TypeInv
  /\ throttled => started + Passed <= 1
  /\ hibernate > 0 /\ tpc = "set" => decision \/ critical
  /\ HibernationHolds

-----------------------------------------------------------------------------
LEMMA BoundsAreNat ==
  /\ HttpInterval \in Nat /\ HibernateTicks \in Nat /\ AgeCap \in Nat
  /\ MaxBeats \in Nat /\ Chunks \in Nat /\ MaxEvents \in Nat
  BY ThrottleAssumption

LEMMA InitTypeInv == Init => TypeInv
<1> SUFFICES ASSUME Init PROVE TypeInv
  OBVIOUS
<1>1. /\ user \in BOOLEAN /\ file \in BOOLEAN /\ httpOk \in BOOLEAN /\ answer \in BOOLEAN
      /\ decision \in BOOLEAN /\ throttled \in BOOLEAN
      /\ beatRow \in BOOLEAN /\ critical \in BOOLEAN
  BY DEF Init
<1>2. /\ load \in Loads /\ tpc = "tick" /\ ipc = "poll" /\ xpc = "poll"
  BY ThrottleAssumption DEF Init
<1>3. /\ hibernate \in 0 .. HibernateTicks /\ httpAge \in 0 .. AgeCap
      /\ beatAge \in {Never} \cup 0 .. AgeCap /\ writeAge \in 0 .. AgeCap
  BY BoundsAreNat DEF Init
<1>4. beats \in Seq({"insert", "update"}) /\ Len(beats) <= MaxBeats
  BY BoundsAreNat DEF Init
<1>5. /\ chunks \in 0 .. Chunks /\ queued \in 0 .. MaxEvents /\ events \in 0 .. MaxEvents
      /\ started \in 0 .. Chunks /\ started + chunks + Offered <= Chunks
      /\ queued + events <= MaxEvents
  BY BoundsAreNat DEF Init, Offered
<1> QED
  BY <1>1, <1>2, <1>3, <1>4, <1>5 DEF TypeInv, TypeOK

\* A tick counts an age up to AgeCap.
LEMMA OlderInRange ==
  ASSUME NEW age \in 0 .. AgeCap
  PROVE  Older(age) \in 0 .. AgeCap
  BY BoundsAreNat DEF Older

\* The heartbeats in the stream: one more at the end, or one less.
LEMMA BeatsAppend ==
  ASSUME TypeInv, WriteHeartbeat
  PROVE  beats' \in Seq({"insert", "update"}) /\ Len(beats') <= MaxBeats
<1>1. Len(beats) \in Nat
  BY DEF TypeInv, TypeOK
<1>2. PICK b \in {"insert", "update"} : beats' = Append(beats, b)
  BY DEF WriteHeartbeat
<1> QED
  BY <1>1, <1>2, BoundsAreNat DEF WriteHeartbeat, TypeInv, TypeOK

LEMMA BeatsTail ==
  ASSUME TypeInv, HandleHeartbeat
  PROVE  beats' \in Seq({"insert", "update"}) /\ Len(beats') <= MaxBeats
<1>1. Len(beats) \in Nat /\ Len(beats) > 0
  BY DEF TypeInv, TypeOK, HandleHeartbeat
<1> QED
  BY <1>1, BoundsAreNat DEF HandleHeartbeat, TypeInv, TypeOK

\* What the throttler and the environment leave alone, and what the row copy does.
CopyTypes ==
  /\ ipc \in {"poll", "calc", "offer", "done"} /\ xpc \in {"poll", "wait", "copy"}
  /\ chunks \in 0 .. Chunks /\ queued \in 0 .. MaxEvents /\ events \in 0 .. MaxEvents
  /\ started \in 0 .. Chunks
  /\ started + chunks + Offered <= Chunks /\ queued + events <= MaxEvents

LEMMA CopyTypesHold == TypeInv => CopyTypes
  BY DEF TypeInv, TypeOK, CopyTypes

LEMMA CopyStep ==
  ASSUME CopyTypes, RowEvent \/ iterateChunks \/ executeWriteFuncs \/ EnterCriticalSection
  PROVE  CopyTypes'
<1> USE BoundsAreNat DEF CopyTypes, Offered
<1>1. CASE RowEvent
  BY <1>1 DEF RowEvent
<1>2. CASE iterateChunks
  BY <1>2 DEF iterateChunks, PassThrottleCheck, NextChunk
<1>3. CASE executeWriteFuncs
  BY <1>3 DEF executeWriteFuncs, ApplyEvents, PollCopyRows, PollTimeout, StartCopy, FinishCopy
<1>4. CASE EnterCriticalSection
  BY <1>4 DEF EnterCriticalSection
<1> QED
  BY <1>1, <1>2, <1>3, <1>4

\* Setting the throttle flag restarts the count of the copies behind it.
LEMMA ThrottlerStep ==
  ASSUME CopyTypes, UNCHANGED copyVars, started' \in {0, started}
  PROVE  CopyTypes'
<1>1. /\ ipc' = ipc /\ xpc' = xpc /\ chunks' = chunks
      /\ queued' = queued /\ events' = events
  BY DEF copyVars
<1>2. CASE started' = started
  BY <1>1, <1>2 DEF CopyTypes, Offered
<1>3. CASE started' = 0
  <2>1. /\ started \in Nat /\ chunks \in Nat
        /\ started + chunks + (IF ipc = "offer" THEN 1 ELSE 0) <= Chunks
    BY BoundsAreNat DEF CopyTypes, Offered
  <2>2. 0 + chunks + (IF ipc = "offer" THEN 1 ELSE 0) <= Chunks
    BY <2>1, BoundsAreNat
  <2> QED
    BY <1>1, <1>3, <2>2, BoundsAreNat DEF CopyTypes, Offered
<1> QED
  BY <1>2, <1>3

LEMMA NextTypeInv == TypeInv /\ [Next]_vars => TypeInv'
<1> SUFFICES ASSUME TypeInv, [Next]_vars PROVE TypeInv'
  OBVIOUS
<1>c. CopyTypes
  BY CopyTypesHold
<1> USE DEF TypeInv, TypeOK
<1>1. CASE ThrottleCommand \/ Environment
  <2>1. user' \in BOOLEAN /\ file' \in BOOLEAN /\ httpOk' \in BOOLEAN
    BY <1>1 DEF ThrottleCommand, Environment
  <2>2. load' \in Loads
    BY <1>1 DEF ThrottleCommand, Environment
  <2>3. UNCHANGED <<flagVars, httpVars, beatVars, copyVars, started>>
    BY <1>1 DEF ThrottleCommand, Environment
  <2>4. CopyTypes'
    BY <1>c, <2>3, ThrottlerStep
  <2> QED
    BY <2>1, <2>2, <2>3, <2>4 DEF flagVars, httpVars, beatVars, copyVars, CopyTypes
<1>2. CASE RowEvent \/ iterateChunks \/ executeWriteFuncs \/ EnterCriticalSection
  <2>1. CopyTypes'
    BY <1>c, <1>2, CopyStep
  <2>2. UNCHANGED <<envVars, flagVars, httpVars, beatVars>>
    BY <1>2 DEF RowEvent, iterateChunks, PassThrottleCheck, NextChunk, executeWriteFuncs,
                ApplyEvents, PollCopyRows, PollTimeout, StartCopy, FinishCopy, EnterCriticalSection
  <2>3. critical' \in BOOLEAN
    BY <1>2 DEF RowEvent, iterateChunks, PassThrottleCheck, NextChunk, executeWriteFuncs,
                ApplyEvents, PollCopyRows, PollTimeout, StartCopy, FinishCopy, EnterCriticalSection
  <2> QED
    BY <2>1, <2>2, <2>3 DEF envVars, flagVars, httpVars, beatVars, CopyTypes
<1>3. CASE Tick
  <2>1. CopyTypes'
    BY <1>c, <1>3, ThrottlerStep DEF Tick
  <2>2. hibernate' \in 0 .. HibernateTicks
    BY <1>3, BoundsAreNat DEF Tick
  <2>3. /\ httpAge' \in 0 .. AgeCap /\ writeAge' \in 0 .. AgeCap
        /\ beatAge' \in {Never} \cup 0 .. AgeCap
    BY <1>3, OlderInRange DEF Tick
  <2> QED
    BY <1>3, <2>1, <2>2, <2>3 DEF Tick, envVars, copyVars, CopyTypes
<1>4. CASE CheckThrottle
  <2>1. decision' \in BOOLEAN
    BY <1>4 DEF CheckThrottle, shouldThrottle
  <2>2. hibernate' \in 0 .. HibernateTicks /\ httpAge' \in 0 .. AgeCap
    BY <1>4, BoundsAreNat DEF CheckThrottle
  <2>3. answer' \in BOOLEAN
    BY <1>4 DEF CheckThrottle
  <2>4. CopyTypes'
    BY <1>c, <1>4, ThrottlerStep DEF CheckThrottle
  <2> QED
    BY <1>4, <2>1, <2>2, <2>3, <2>4 DEF CheckThrottle, envVars, beatVars, copyVars, CopyTypes
<1>5. CASE SetThrottle
  <2>1. throttled' \in BOOLEAN
    BY <1>5 DEF SetThrottle
  <2>2. CopyTypes'
    BY <1>c, <1>5, ThrottlerStep DEF SetThrottle
  <2> QED
    BY <1>5, <2>1, <2>2 DEF SetThrottle, envVars, httpVars, beatVars, copyVars, CopyTypes
<1>6. CASE WriteHeartbeat
  <2>1. beats' \in Seq({"insert", "update"}) /\ Len(beats') <= MaxBeats
    BY <1>6, BeatsAppend
  <2>2. CopyTypes'
    BY <1>c, <1>6, ThrottlerStep DEF WriteHeartbeat
  <2>3. writeAge' \in 0 .. AgeCap
    BY <1>6, BoundsAreNat DEF WriteHeartbeat
  <2>4. beatRow' \in BOOLEAN
    BY <1>6 DEF WriteHeartbeat
  <2> QED
    BY <1>6, <2>1, <2>2, <2>3, <2>4 DEF WriteHeartbeat, envVars, flagVars, httpVars, copyVars, CopyTypes
<1>7. CASE HandleHeartbeat
  <2>1. beats' \in Seq({"insert", "update"}) /\ Len(beats') <= MaxBeats
    BY <1>7, BeatsTail
  <2>2. beatAge' \in {Never} \cup 0 .. AgeCap
    BY <1>7, BoundsAreNat DEF HandleHeartbeat
  <2>3. CopyTypes'
    BY <1>c, <1>7, ThrottlerStep DEF HandleHeartbeat
  <2> QED
    BY <1>7, <2>1, <2>2, <2>3 DEF HandleHeartbeat, envVars, flagVars, httpVars, copyVars, CopyTypes
<1>8. CASE UNCHANGED vars
  <2>1. CopyTypes'
    BY <1>c, <1>8, ThrottlerStep DEF vars
  <2> QED
    BY <1>8, <2>1 DEF vars, envVars, flagVars, httpVars, beatVars, copyVars, CopyTypes
<1> QED
  BY <1>1, <1>2, <1>3, <1>4, <1>5, <1>6, <1>7, <1>8 DEF Next, Throttler

-----------------------------------------------------------------------------
LEMMA InitThrottleInv == Init => ThrottleInv
  BY InitTypeInv DEF ThrottleInv, HibernationHolds, Init, Passed

\* While a hibernation lasts shouldThrottle answers yes, and so does the check
\* that starts one.
LEMMA HibernationAnswered ==
  ASSUME TypeInv, CheckThrottle, hibernate' > 0
  PROVE  decision' \/ critical'
<1>1. hibernate \in Nat /\ critical' = critical
  BY DEF TypeInv, TypeOK, CheckThrottle, copyVars
<1>2. CASE CriticalThrottles
  BY <1>1, <1>2 DEF CheckThrottle, shouldThrottle
<1>3. CASE ~CriticalThrottles
  <2>1. hibernate > 0
    BY <1>3 DEF CheckThrottle
  <2>2. ~ReachesCritical
    BY <2>1, <1>1 DEF ReachesCritical, ReachesHttp
  <2> QED
    BY <1>1, <2>2 DEF CheckThrottle, shouldThrottle
<1> QED
  BY <1>2, <1>3

LEMMA NextThrottleInv == ThrottleInv /\ [Next]_vars => ThrottleInv'
<1> SUFFICES ASSUME ThrottleInv, [Next]_vars PROVE ThrottleInv'
  OBVIOUS
<1>0. TypeInv'
  BY NextTypeInv DEF ThrottleInv
<1>t. /\ hibernate \in Nat /\ started \in Nat
      /\ tpc \in {"tick", "set"} /\ ipc \in {"poll", "calc", "offer", "done"}
  BY DEF ThrottleInv, TypeInv, TypeOK
<1> USE DEF HibernationHolds, Passed
<1>1. CASE ThrottleCommand \/ Environment \/ RowEvent \/ UNCHANGED vars
  BY <1>0, <1>1 DEF ThrottleInv, ThrottleCommand, Environment, RowEvent, vars, flagVars, copyVars
<1>2. CASE Tick
  BY <1>0, <1>2, <1>t DEF ThrottleInv, Tick, copyVars
<1>3. CASE CheckThrottle
  <2>1. hibernate' > 0 => decision' \/ critical'
    BY <1>3, HibernationAnswered DEF ThrottleInv
  <2> QED
    BY <1>0, <1>3, <2>1 DEF ThrottleInv, CheckThrottle, copyVars
<1>4. CASE SetThrottle
  <2>1. throttled' => (started + Passed)' <= 1
    BY <1>4, <1>t DEF ThrottleInv, SetThrottle, copyVars
  <2>2. hibernate' > 0 => throttled' \/ critical'
    BY <1>4 DEF ThrottleInv, SetThrottle, copyVars
  <2> QED
    BY <1>0, <1>4, <2>1, <2>2 DEF ThrottleInv, SetThrottle
<1>5. CASE WriteHeartbeat \/ HandleHeartbeat
  BY <1>0, <1>5 DEF ThrottleInv, WriteHeartbeat, HandleHeartbeat, flagVars, copyVars
<1>6. CASE iterateChunks
  BY <1>0, <1>6, <1>t DEF ThrottleInv, iterateChunks, PassThrottleCheck, NextChunk, flagVars
<1>7. CASE executeWriteFuncs
  BY <1>0, <1>7, <1>t DEF ThrottleInv, executeWriteFuncs, ApplyEvents, PollCopyRows, PollTimeout, StartCopy, FinishCopy, flagVars
<1>8. CASE EnterCriticalSection
  BY <1>0, <1>8 DEF ThrottleInv, EnterCriticalSection, flagVars
<1> QED
  BY <1>1, <1>2, <1>3, <1>4, <1>5, <1>6, <1>7, <1>8 DEF Next, Throttler

THEOREM Invariant == Spec => []ThrottleInv
  BY InitThrottleInv, NextThrottleInv, PTL DEF Spec

\* Every age, count and queue of the throttler stays in its range.
THEOREM TypeCorrect == Spec => []TypeOK
  BY Invariant, PTL DEF ThrottleInv, TypeInv

\* Once the throttle flag is up, at most the chunk that was past iterateChunks'
\* check is still copied, however many ticks and chunks there are.
THEOREM RowCopyStops == Spec => []ThrottleStopsRowCopy
<1>1. ThrottleInv => ThrottleStopsRowCopy
  BY DEF ThrottleInv, TypeInv, TypeOK, ThrottleStopsRowCopy, Passed
<1> QED
  BY <1>1, Invariant, PTL

\* A hibernation is never interrupted, whatever the other checks answer.
THEOREM Hibernation == Spec => []HibernationHolds
<1>1. ThrottleInv => HibernationHolds
  BY DEF ThrottleInv
<1> QED
  BY <1>1, Invariant, PTL
=============================================================================
