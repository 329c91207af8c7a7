---------------------------- MODULE Abort_proofs ----------------------------
(***************************************************************************)
(* Who an abort reaches, proved for any set of requesters and any number   *)
(* of chunks and batches.  The goroutine that is blocked the longest and   *)
(* the states of the goroutines determine each other (Blocked), a sender   *)
(* whose send is not done has no receiver (SendersInv), and in the runs    *)
(* without early aborts nobody sends before the migrator is the first in   *)
(* line (EarlyInv).                                                        *)
(***************************************************************************)
EXTENDS Abort, TLAPS

Blocked ==
  /\ "migrator" \in waiting <=> mpc \in {"rowCopy", "select"}
  /\ "status" \in waiting <=> ppc = "select"
  /\ mpc = "setup" => xpc = "none" /\ ipc = "none" /\ ppc = "none"

\* s has no receiver and is not in the buffer.
Unsent(s) == got[s] = NoOne /\ buffer # s

\* r has received somebody's error.
HasReceived(r) == \E s \in Senders : got[s] = r

SendersInv ==
  /\ \A r \in Requesters : rpc[r] # "accepted" => Unsent(r)
  /\ spc # "done" => Unsent("streamer")
  /\ xpc # "stopped" => Unsent("executor")
  /\ ipc # "done" => Unsent("iterator")
  /\ \A r \in Requesters : rpc[r] = "accepted" => Handed(r)
  /\ spc = "done" => Handed("streamer")
  /\ xpc = "stopped" => Handed("executor") \/ HasReceived("executor")
  /\ ipc = "done" /\ mpc \in {"spawned", "rowCopy"} => Handed("iterator") \/ HasReceived("iterator")
  /\ buffer # NoOne => got[buffer] = NoOne

\* No goroutine receives twice, and each one that has received has ended.
ReceiversInv ==
  /\ \A s, t \in Senders : got[s] = got[t] => s = t \/ got[s] = NoOne
  /\ \A s \in Senders :
       /\ got[s] = "migrator" => mpc = "failed"
       /\ got[s] = "status" => ppc = "done"
       /\ got[s] = "executor" => xpc = "stopped"
       /\ got[s] = "iterator" => ipc = "done"

\* Nobody has sent or is about to send.
Quiet ==
  /\ rpc = [r \in Requesters |-> "idle"]
  /\ spc = "stream" /\ xpc # "send" /\ ipc # "send"

Unreceived == buffer = NoOne /\ \A s \in Senders : got[s] = NoOne

EarlyInv ==
  ~early /\ mpc \in {"setup", "spawned", "rowCopy"} =>
    Unreceived /\ (Quiet \/ (mpc = "rowCopy" /\ first = "migrator"))

AbortInv == TypeOK /\ Blocked /\ SendersInv /\ ReceiversInv /\ EarlyInv

-----------------------------------------------------------------------------
LEMMA Names ==
  /\ Workers \subseteq Senders /\ Requesters \subseteq Senders
  /\ NoOne \notin Senders
  /\ \A r \in Requesters : r \notin Workers
  BY AbortAssumption DEF Senders, Workers, NoOne

\* Leaving the queue: the other goroutine, if it is blocked, is now the first.
LEMMA DequeueType ==
  ASSUME TypeOK, NEW r, Dequeue(r)
  PROVE  /\ waiting' \subseteq {"migrator", "status"}
         /\ IF waiting' = {} THEN first' = NoOne ELSE first' \in waiting'
         /\ waiting' = waiting \ {r}
  <1>1. waiting' \subseteq {"migrator", "status"} /\ waiting' = waiting \ {r}
    BY DEF TypeOK, Dequeue
  <1>2. CASE waiting' = {}
    BY <1>1, <1>2 DEF Dequeue
  <1>3. CASE waiting' # {}
    <2>1. (CHOOSE q \in waiting' : TRUE) \in waiting'
      BY <1>3
    <2> QED BY <1>1, <1>3, <2>1 DEF Dequeue
  <1> QED BY <1>2, <1>3

LEMMA EnqueueType ==
  ASSUME TypeOK, NEW r \in {"migrator", "status"}, Enqueue(r)
  PROVE  /\ waiting' \subseteq {"migrator", "status"}
         /\ IF waiting' = {} THEN first' = NoOne ELSE first' \in waiting'
         /\ waiting' = waiting \cup {r}
         /\ waiting # {} => first' = first
         /\ waiting = {} => first' = r
  BY DEF TypeOK, Enqueue

-----------------------------------------------------------------------------
(* The type invariant. *)

LEMMA SendType ==
  ASSUME TypeOK, NEW s \in Senders, SendAbort(s)
  PROVE  /\ mpc' \in {"setup", "spawned", "rowCopy", "postpone", "select", "swap", "swapped", "failed"}
         /\ ppc' \in {"none", "loop", "select", "done"}
         /\ buffer' \in Senders \cup {NoOne}
         /\ waiting' \subseteq {"migrator", "status"}
         /\ IF waiting' = {} THEN first' = NoOne ELSE first' \in waiting'
         /\ got' \in [Senders -> Receivers \cup {NoOne}]
  <1>1. CASE waiting # {}
    <2>1. first \in {"migrator", "status"} /\ Dequeue(first)
      BY <1>1 DEF TypeOK, SendAbort
    <2>2. first \in Receivers
      BY <2>1 DEF Receivers
    <2> QED BY <1>1, <2>1, <2>2, DequeueType DEF TypeOK, SendAbort
  <1>2. CASE waiting = {}
    BY <1>2 DEF TypeOK, SendAbort
  <1> QED BY <1>1, <1>2

LEMMA ReceiveType ==
  ASSUME TypeOK, NEW r \in Receivers, ReceiveAbort(r)
  PROVE  /\ buffer' \in Senders \cup {NoOne}
         /\ UNCHANGED <<waiting, first>>
         /\ got' \in [Senders -> Receivers \cup {NoOne}]
  BY DEF TypeOK, ReceiveAbort

LEMMA TypeStep ==
  ASSUME TypeOK, Next
  PROVE  TypeOK'
  <1> USE Names DEF counters
  <1>1. CASE SpawnGoroutines
    BY <1>1 DEF SpawnGoroutines, TypeOK, channel
  <1>2. CASE WaitForRowCopy
    <2>1. CASE ReceiveAbort("migrator") /\ mpc' = "failed"
      <3>1. "migrator" \in Receivers BY DEF Receivers
      <3>2. /\ buffer' \in Senders \cup {NoOne} /\ UNCHANGED <<waiting, first>>
            /\ got' \in [Senders -> Receivers \cup {NoOne}]
        BY <2>1, <3>1, ReceiveType
      <3> QED BY <1>2, <2>1, <3>2 DEF WaitForRowCopy, TypeOK
    <2>2. CASE Block("migrator") /\ mpc' = "rowCopy"
      BY <1>2, <2>2, EnqueueType DEF WaitForRowCopy, TypeOK, Block
    <2> QED BY <1>2, <2>1, <2>2 DEF WaitForRowCopy
  <1>3. CASE RowCopyComplete
    <2>1. Dequeue("migrator") BY <1>3 DEF RowCopyComplete, Unblock
    <2> QED BY <1>3, <2>1, DequeueType DEF RowCopyComplete, Unblock, TypeOK
  <1>4. CASE WaitForMarker
    <2>1. CASE ReceiveAbort("migrator") /\ mpc' = "failed"
      <3>1. "migrator" \in Receivers BY DEF Receivers
      <3>2. /\ buffer' \in Senders \cup {NoOne} /\ UNCHANGED <<waiting, first>>
            /\ got' \in [Senders -> Receivers \cup {NoOne}]
        BY <2>1, <3>1, ReceiveType
      <3> QED BY <1>4, <2>1, <3>2 DEF WaitForMarker, TypeOK
    <2>2. CASE Block("migrator") /\ mpc' = "select"
      BY <1>4, <2>2, EnqueueType DEF WaitForMarker, TypeOK, Block
    <2> QED BY <1>4, <2>1, <2>2 DEF WaitForMarker
  <1>5. CASE MarkerWriteFails
    BY <1>5 DEF MarkerWriteFails, TypeOK, channel
  <1>6. CASE MarkerTimeout
    <2>1. Dequeue("migrator") BY <1>6 DEF MarkerTimeout, Unblock
    <2> QED BY <1>6, <2>1, DequeueType DEF MarkerTimeout, Unblock, TypeOK
  <1>7. CASE AtomicCutOver
    BY <1>7 DEF AtomicCutOver, TypeOK, channel
  <1>8. CASE MarkerArrives
    <2>1. Dequeue("migrator") BY <1>8 DEF MarkerArrives, Unblock
    <2> QED BY <1>8, <2>1, DequeueType DEF MarkerArrives, Unblock, TypeOK
  <1>9. CASE RemoveFlagFile
    <2>1. flagFile' \in BOOLEAN /\ early' \in BOOLEAN
      BY <1>9 DEF RemoveFlagFile, TypeOK
    <2>2. UNCHANGED channel
      BY <1>9 DEF RemoveFlagFile
    <2>3. chunks' \in 0 .. Chunks /\ batches' \in 0 .. Batches
      BY <1>9 DEF RemoveFlagFile, TypeOK
    <2> QED BY <1>9, <2>1, <2>2, <2>3 DEF RemoveFlagFile, TypeOK, channel
  <1>10. CASE ExecutorPolls
    <2>1. "executor" \in Receivers BY DEF Receivers
    <2>2. CASE ReceiveAbort("executor") /\ xpc' = "stopped"
      <3>1. /\ buffer' \in Senders \cup {NoOne} /\ UNCHANGED <<waiting, first>>
            /\ got' \in [Senders -> Receivers \cup {NoOne}]
        BY <2>1, <2>2, ReceiveType
      <3> QED BY <1>10, <2>2, <3>1 DEF ExecutorPolls, TypeOK
    <2>3. CASE NoAbort /\ xpc' = "work"
      BY <1>10, <2>3 DEF ExecutorPolls, TypeOK, NoAbort, channel
    <2> QED BY <1>10, <2>2, <2>3 DEF ExecutorPolls
  <1>11. CASE ExecutorWorks
    <2>1. flagFile' \in BOOLEAN /\ early' \in BOOLEAN
      BY <1>11 DEF ExecutorWorks, TypeOK
    <2>2. UNCHANGED channel
      BY <1>11 DEF ExecutorWorks
    <2>3. chunks' \in 0 .. Chunks /\ batches' \in 0 .. Batches
      <3>1. UNCHANGED chunks /\ (batches' = batches \/ (batches > 0 /\ batches' = batches - 1))
        BY <1>11 DEF ExecutorWorks
      <3>2. chunks \in 0 .. Chunks /\ batches \in 0 .. Batches
        BY DEF TypeOK
      <3>3. Chunks \in Nat /\ Batches \in Nat
        BY AbortAssumption
      <3> QED BY <3>1, <3>2, <3>3
    <2>4. /\ UNCHANGED <<mpc, ppc, spc, rpc>>
          /\ xpc' \in {"poll", "send", "copy"} /\ (UNCHANGED ipc \/ ipc' = "poll")
      BY <1>11 DEF ExecutorWorks
    <2> QED BY <2>1, <2>2, <2>3, <2>4 DEF TypeOK, channel
  <1>12. CASE ExecutorCopies
    BY <1>12 DEF ExecutorCopies, TypeOK, channel
  <1>13. CASE ExecutorAborts
    <2>1. "executor" \in Senders BY DEF Workers
    <2> QED BY <1>13, <2>1, SendType DEF ExecutorAborts, TypeOK
  <1>14. CASE IteratorPolls
    <2>1. "iterator" \in Receivers BY DEF Receivers
    <2>2. CASE ReceiveAbort("iterator") /\ ipc' = "done"
      <3>1. /\ buffer' \in Senders \cup {NoOne} /\ UNCHANGED <<waiting, first>>
            /\ got' \in [Senders -> Receivers \cup {NoOne}]
        BY <2>1, <2>2, ReceiveType
      <3> QED BY <1>14, <2>2, <3>1 DEF IteratorPolls, TypeOK
    <2>3. CASE NoAbort /\ ipc' = "calc"
      BY <1>14, <2>3 DEF IteratorPolls, TypeOK, NoAbort, channel
    <2> QED BY <1>14, <2>2, <2>3 DEF IteratorPolls
  <1>15. CASE IteratorCalculates
    <2>1. flagFile' \in BOOLEAN /\ early' \in BOOLEAN
      BY <1>15 DEF IteratorCalculates, TypeOK
    <2>2. UNCHANGED channel
      BY <1>15 DEF IteratorCalculates
    <2>3. chunks' \in 0 .. Chunks /\ batches' \in 0 .. Batches
      <3>1. UNCHANGED batches /\ (chunks' = chunks \/ (chunks > 0 /\ chunks' = chunks - 1))
        BY <1>15 DEF IteratorCalculates
      <3>2. chunks \in 0 .. Chunks /\ batches \in 0 .. Batches
        BY DEF TypeOK
      <3>3. Chunks \in Nat /\ Batches \in Nat
        BY AbortAssumption
      <3> QED BY <3>1, <3>2, <3>3
    <2>4. UNCHANGED <<mpc, xpc, ppc, spc, rpc>> /\ ipc' \in {"offer", "signal"}
      BY <1>15 DEF IteratorCalculates
    <2> QED BY <2>1, <2>2, <2>3, <2>4 DEF TypeOK, channel
  <1>16. CASE IteratorAborts
    <2>1. "iterator" \in Senders BY DEF Workers
    <2> QED BY <1>16, <2>1, SendType DEF IteratorAborts, TypeOK
  <1>17. CASE IteratorFails
    BY <1>17 DEF IteratorFails, TypeOK, channel
  <1>18. CASE StatusSelects
    <2>1. CASE ReceiveAbort("status") /\ ppc' = "done"
      <3>1. "status" \in Receivers BY DEF Receivers
      <3>2. /\ buffer' \in Senders \cup {NoOne} /\ UNCHANGED <<waiting, first>>
            /\ got' \in [Senders -> Receivers \cup {NoOne}]
        BY <2>1, <3>1, ReceiveType
      <3> QED BY <1>18, <2>1, <3>2 DEF StatusSelects, TypeOK
    <2>2. CASE Block("status") /\ ppc' = "select"
      BY <1>18, <2>2, EnqueueType DEF StatusSelects, TypeOK, Block
    <2> QED BY <1>18, <2>1, <2>2 DEF StatusSelects
  <1>19. CASE StatusTicks
    <2>1. Dequeue("status") BY <1>19 DEF StatusTicks, Unblock
    <2> QED BY <1>19, <2>1, DequeueType DEF StatusTicks, Unblock, TypeOK
  <1>20. CASE StreamFails
    BY <1>20 DEF StreamFails, TypeOK, channel
  <1>21. CASE StreamAborts
    <2>1. "streamer" \in Senders BY DEF Workers
    <2> QED BY <1>21, <2>1, SendType DEF StreamAborts, TypeOK
  <1>22. ASSUME NEW r \in Requesters, RequestAccepted(r) PROVE TypeOK'
    <2>1. r \in Senders OBVIOUS
    <2> QED BY <1>22, <2>1, SendType DEF RequestAccepted, TypeOK
  <1>23. ASSUME NEW r \in Requesters, RequestAbort(r) PROVE TypeOK'
    BY <1>23 DEF RequestAbort, TypeOK, channel
  <1> QED
    BY <1>1, <1>2, <1>3, <1>4, <1>5, <1>6, <1>7, <1>8, <1>9, <1>10, <1>11, <1>12, <1>13,
       <1>14, <1>15, <1>16, <1>17, <1>18, <1>19, <1>20, <1>21, <1>22, <1>23
       DEF Next, Migrate, executeWriteFuncs, iterateChunks, SendBlocked

-----------------------------------------------------------------------------
(* The channel and the goroutines. *)

\* What the receipt of the buffered error by r, and the send of s, do to the
\* places where the senders' errors are.
ReceiveKeeps(r) ==
  /\ waiting' = waiting
  /\ buffer' = NoOne
  /\ \A s \in Senders : /\ Unsent(s) => Unsent(s)'
                        /\ Handed(s) => Handed(s)'
                        /\ got'[s] \in {got[s], r}
  /\ HasReceived(r)' /\ \A q \in {"executor", "iterator"} : HasReceived(q) => HasReceived(q)'
  /\ \A s, t \in Senders : got'[s] = got'[t] => s = t \/ got'[s] = NoOne

SendKeeps(s) ==
  /\ \A t \in Senders \ {s} : /\ Unsent(t) => Unsent(t)'
                              /\ Handed(t) => Handed(t)'
                              /\ got'[t] = got[t]
  /\ Handed(s)'
  /\ \A q \in {"executor", "iterator"} : HasReceived(q) => HasReceived(q)'
  /\ buffer' # NoOne => got'[buffer'] = NoOne
  /\ \A t, u \in Senders : got'[t] = got'[u] => t = u \/ got'[t] = NoOne
  /\ \/ UNCHANGED <<waiting, mpc, ppc>> /\ got'[s] = NoOne
     \/ /\ got'[s] = "migrator" /\ waiting' = waiting \ {"migrator"}
        /\ "migrator" \in waiting /\ mpc' = "failed" /\ ppc' = ppc
     \/ /\ got'[s] = "status" /\ waiting' = waiting \ {"status"}
        /\ "status" \in waiting /\ ppc' = "done" /\ mpc' = mpc

LEMMA ReceiveStep ==
  ASSUME TypeOK, SendersInv, ReceiversInv, NEW r \in Receivers, ReceiveAbort(r),
         \A s \in Senders : got[s] # r
  PROVE  ReceiveKeeps(r)
  <1>1. r # NoOne
    BY DEF Receivers, NoOne
  <1>2. HasReceived(r)'
    BY Names DEF HasReceived, ReceiveAbort, TypeOK
  <1>3. \A q \in {"executor", "iterator"} : HasReceived(q) => HasReceived(q)'
    BY DEF HasReceived, ReceiveAbort, TypeOK, SendersInv, NoOne
  <1> QED
    BY <1>1, <1>2, <1>3, Names
       DEF ReceiveKeeps, ReceiveAbort, TypeOK, SendersInv, ReceiversInv, Unsent, Handed

LEMMA SendStep ==
  ASSUME TypeOK, Blocked, SendersInv, ReceiversInv, NEW s \in Senders, Unsent(s), SendAbort(s)
  PROVE  SendKeeps(s)
  <1>0. \A q \in {"executor", "iterator"} : HasReceived(q) => HasReceived(q)'
    BY DEF HasReceived, SendAbort, TypeOK, Unsent, NoOne
  <1>1. CASE waiting = {}
    BY <1>0, <1>1, Names DEF SendKeeps, SendAbort, TypeOK, SendersInv, ReceiversInv, Unsent, Handed, HasReceived
  <1>2. CASE waiting # {}
    <2>1. first \in waiting /\ first \in {"migrator", "status"} /\ first # NoOne
      BY <1>2 DEF TypeOK, NoOne
    <2>2. \A t \in Senders : got[t] # first
      BY <2>1 DEF Blocked, ReceiversInv
    <2>3. waiting' = waiting \ {first} /\ buffer' = buffer
      BY <1>2, DequeueType DEF SendAbort
    <2>4. got' = [got EXCEPT ![s] = first]
      BY <1>2 DEF SendAbort
    <2>5. /\ mpc' = IF first = "migrator" THEN "failed" ELSE mpc
          /\ ppc' = IF first = "status" THEN "done" ELSE ppc
      BY <1>2 DEF SendAbort
    <2>6. /\ got'[s] = first
          /\ \A t \in Senders \ {s} : got'[t] = got[t]
      BY <2>4 DEF TypeOK
    <2>7. \/ /\ got'[s] = "migrator" /\ waiting' = waiting \ {"migrator"}
             /\ "migrator" \in waiting /\ mpc' = "failed" /\ ppc' = ppc
          \/ /\ got'[s] = "status" /\ waiting' = waiting \ {"status"}
             /\ "status" \in waiting /\ ppc' = "done" /\ mpc' = mpc
      BY <2>1, <2>3, <2>5, <2>6
    <2>8. buffer # s
      BY DEF Unsent
    <2>9. buffer' # NoOne => got'[buffer'] = NoOne
      BY <2>3, <2>6, <2>8 DEF SendersInv, TypeOK
    <2>10. \A t, u \in Senders : got'[t] = got'[u] => t = u \/ got'[t] = NoOne
      BY <2>2, <2>6 DEF ReceiversInv
    <2>11. /\ Handed(s)'
           /\ \A t \in Senders \ {s} : (Unsent(t) => Unsent(t)') /\ (Handed(t) => Handed(t)')
      BY <2>1, <2>3, <2>6, <2>8 DEF Unsent, Handed, HasReceived
    <2> QED BY <1>0, <2>6, <2>7, <2>9, <2>10, <2>11 DEF SendKeeps
  <1> QED BY <1>1, <1>2

LEMMA ChannelStep ==
  ASSUME TypeOK, TypeOK', Blocked, SendersInv, ReceiversInv, Next
  PROVE  Blocked' /\ SendersInv' /\ ReceiversInv'
  <1> USE Names
  <1> Workers = {"executor", "iterator", "streamer"}
    BY DEF Workers
  <1>1. CASE SpawnGoroutines
    BY <1>1
       DEF SpawnGoroutines, channel, Blocked, SendersInv, Unsent, Handed, HasReceived, ReceiversInv,
           TypeOK
  <1>2. CASE RowCopyComplete
    BY <1>2, DequeueType
       DEF RowCopyComplete, Unblock, Blocked, SendersInv, Unsent, Handed, HasReceived, ReceiversInv,
           TypeOK
  <1>3. CASE MarkerWriteFails
    BY <1>3
       DEF MarkerWriteFails, channel, Blocked, SendersInv, Unsent, Handed, HasReceived, ReceiversInv,
           TypeOK
  <1>4. CASE MarkerTimeout
    BY <1>4, DequeueType
       DEF MarkerTimeout, Unblock, Blocked, SendersInv, Unsent, Handed, HasReceived, ReceiversInv,
           TypeOK
  <1>5. CASE AtomicCutOver
    BY <1>5
       DEF AtomicCutOver, channel, Blocked, SendersInv, Unsent, Handed, HasReceived, ReceiversInv,
           TypeOK
  <1>6. CASE MarkerArrives
    BY <1>6, DequeueType
       DEF MarkerArrives, Unblock, Blocked, SendersInv, Unsent, Handed, HasReceived, ReceiversInv,
           TypeOK
  <1>7. CASE RemoveFlagFile
    BY <1>7
       DEF RemoveFlagFile, channel, Blocked, SendersInv, Unsent, Handed, HasReceived, ReceiversInv,
           TypeOK
  <1>8. CASE ExecutorWorks
    BY <1>8
       DEF ExecutorWorks, channel, Blocked, SendersInv, Unsent, Handed, HasReceived, ReceiversInv,
           TypeOK
  <1>9. CASE ExecutorCopies
    BY <1>9
       DEF ExecutorCopies, channel, Blocked, SendersInv, Unsent, Handed, HasReceived, ReceiversInv,
           TypeOK
  <1>10. CASE IteratorCalculates
    BY <1>10
       DEF IteratorCalculates, channel, Blocked, SendersInv, Unsent, Handed, HasReceived, ReceiversInv,
           TypeOK
  <1>11. CASE IteratorFails
    BY <1>11
       DEF IteratorFails, channel, Blocked, SendersInv, Unsent, Handed, HasReceived, ReceiversInv,
           TypeOK
  <1>12. CASE StatusTicks
    BY <1>12, DequeueType
       DEF StatusTicks, Unblock, Blocked, SendersInv, Unsent, Handed, HasReceived, ReceiversInv, TypeOK
  <1>13. CASE StreamFails
    BY <1>13 DEF StreamFails, channel, Blocked, SendersInv, Unsent, Handed, HasReceived, ReceiversInv, TypeOK
  <1>14. CASE WaitForRowCopy
    <2>1. CASE ReceiveAbort("migrator") /\ mpc' = "failed"
      <3>1. "migrator" \in Receivers /\ \A s \in Senders : got[s] # "migrator"
        BY <1>14 DEF WaitForRowCopy, ReceiversInv, Receivers
      <3>2. ReceiveKeeps("migrator")
        BY <2>1, <3>1, ReceiveStep
      <3>3. Blocked'
        BY <1>14, <2>1, <3>2 DEF ReceiveKeeps, WaitForRowCopy, Blocked
      <3>4. SendersInv'
        BY <1>14, <2>1, <3>2 DEF ReceiveKeeps, WaitForRowCopy, SendersInv
      <3>5. ReceiversInv'
        BY <1>14, <2>1, <3>2 DEF ReceiveKeeps, WaitForRowCopy, ReceiversInv
      <3> QED BY <3>3, <3>4, <3>5
    <2>2. CASE Block("migrator") /\ mpc' = "rowCopy"
      BY <1>14, <2>2, EnqueueType
         DEF WaitForRowCopy, Block, Blocked, SendersInv, Unsent, Handed, HasReceived, ReceiversInv,
             TypeOK
    <2> QED BY <1>14, <2>1, <2>2 DEF WaitForRowCopy
  <1>15. CASE WaitForMarker
    <2>1. CASE ReceiveAbort("migrator") /\ mpc' = "failed"
      <3>1. "migrator" \in Receivers /\ \A s \in Senders : got[s] # "migrator"
        BY <1>15 DEF WaitForMarker, ReceiversInv, Receivers
      <3>2. ReceiveKeeps("migrator")
        BY <2>1, <3>1, ReceiveStep
      <3>3. Blocked'
        BY <1>15, <2>1, <3>2 DEF ReceiveKeeps, WaitForMarker, Blocked
      <3>4. SendersInv'
        BY <1>15, <2>1, <3>2 DEF ReceiveKeeps, WaitForMarker, SendersInv
      <3>5. ReceiversInv'
        BY <1>15, <2>1, <3>2 DEF ReceiveKeeps, WaitForMarker, ReceiversInv
      <3> QED BY <3>3, <3>4, <3>5
    <2>2. CASE Block("migrator") /\ mpc' = "select"
      BY <1>15, <2>2, EnqueueType
         DEF WaitForMarker, Block, Blocked, SendersInv, Unsent, Handed, HasReceived, ReceiversInv,
             TypeOK
    <2> QED BY <1>15, <2>1, <2>2 DEF WaitForMarker
  <1>16. CASE StatusSelects
    <2>1. CASE ReceiveAbort("status") /\ ppc' = "done"
      <3>1. "status" \in Receivers /\ \A s \in Senders : got[s] # "status"
        BY <1>16 DEF StatusSelects, ReceiversInv, Receivers
      <3>2. ReceiveKeeps("status")
        BY <2>1, <3>1, ReceiveStep
      <3>3. Blocked'
        BY <1>16, <2>1, <3>2 DEF ReceiveKeeps, StatusSelects, Blocked
      <3>4. SendersInv'
        BY <1>16, <2>1, <3>2 DEF ReceiveKeeps, StatusSelects, SendersInv
      <3>5. ReceiversInv'
        BY <1>16, <2>1, <3>2 DEF ReceiveKeeps, StatusSelects, ReceiversInv
      <3> QED BY <3>3, <3>4, <3>5
    <2>2. CASE Block("status") /\ ppc' = "select"
      BY <1>16, <2>2, EnqueueType
         DEF StatusSelects, Block, Blocked, SendersInv, Unsent, Handed, HasReceived, ReceiversInv,
             TypeOK
    <2> QED BY <1>16, <2>1, <2>2 DEF StatusSelects
  <1>17. CASE ExecutorPolls
    <2>1. CASE ReceiveAbort("executor") /\ xpc' = "stopped"
      <3>1. "executor" \in Receivers /\ \A s \in Senders : got[s] # "executor"
        BY <1>17 DEF ExecutorPolls, ReceiversInv, Receivers
      <3>2. ReceiveKeeps("executor")
        BY <2>1, <3>1, ReceiveStep
      <3>3. Blocked'
        BY <1>17, <2>1, <3>2 DEF ReceiveKeeps, ExecutorPolls, Blocked
      <3>4. SendersInv'
        BY <1>17, <2>1, <3>2 DEF ReceiveKeeps, ExecutorPolls, SendersInv
      <3>5. ReceiversInv'
        BY <1>17, <2>1, <3>2 DEF ReceiveKeeps, ExecutorPolls, ReceiversInv
      <3> QED BY <3>3, <3>4, <3>5
    <2>2. CASE NoAbort /\ xpc' = "work"
      BY <1>17, <2>2
         DEF ExecutorPolls, NoAbort, channel, Blocked, SendersInv, Unsent, Handed, HasReceived,
             ReceiversInv, TypeOK
    <2> QED BY <1>17, <2>1, <2>2 DEF ExecutorPolls
  <1>18. CASE IteratorPolls
    <2>1. CASE ReceiveAbort("iterator") /\ ipc' = "done"
      <3>1. "iterator" \in Receivers /\ \A s \in Senders : got[s] # "iterator"
        BY <1>18 DEF IteratorPolls, ReceiversInv, Receivers
      <3>2. ReceiveKeeps("iterator")
        BY <2>1, <3>1, ReceiveStep
      <3>3. Blocked'
        BY <1>18, <2>1, <3>2 DEF ReceiveKeeps, IteratorPolls, Blocked
      <3>4. SendersInv'
        BY <1>18, <2>1, <3>2 DEF ReceiveKeeps, IteratorPolls, SendersInv
      <3>5. ReceiversInv'
        BY <1>18, <2>1, <3>2 DEF ReceiveKeeps, IteratorPolls, ReceiversInv
      <3> QED BY <3>3, <3>4, <3>5
    <2>2. CASE NoAbort /\ ipc' = "calc"
      BY <1>18, <2>2
         DEF IteratorPolls, NoAbort, channel, Blocked, SendersInv, Unsent, Handed, HasReceived,
             ReceiversInv, TypeOK
    <2> QED BY <1>18, <2>1, <2>2 DEF IteratorPolls
  <1>19. CASE ExecutorAborts
    <2>1. "executor" \in Senders /\ Unsent("executor") /\ SendAbort("executor")
      BY <1>19 DEF ExecutorAborts, SendersInv, Workers
    <2>2. SendKeeps("executor")
      BY <2>1, SendStep
    <2>3. Blocked'
      BY <1>19, <2>2 DEF SendKeeps, ExecutorAborts, Blocked
    <2>4. SendersInv'
      BY <1>19, <2>2 DEF SendKeeps, ExecutorAborts, SendersInv
    <2>5. ReceiversInv'
      BY <1>19, <2>1, <2>2 DEF SendKeeps, ExecutorAborts, ReceiversInv, NoOne
    <2> QED BY <2>3, <2>4, <2>5
  <1>20. CASE IteratorAborts
    <2>1. "iterator" \in Senders /\ Unsent("iterator") /\ SendAbort("iterator")
      BY <1>20 DEF IteratorAborts, SendersInv, Workers
    <2>2. SendKeeps("iterator")
      BY <2>1, SendStep
    <2>3. Blocked'
      BY <1>20, <2>2 DEF SendKeeps, IteratorAborts, Blocked
    <2>4. SendersInv'
      BY <1>20, <2>2 DEF SendKeeps, IteratorAborts, SendersInv
    <2>5. ReceiversInv'
      BY <1>20, <2>1, <2>2 DEF SendKeeps, IteratorAborts, ReceiversInv, NoOne
    <2> QED BY <2>3, <2>4, <2>5
  <1>21. CASE StreamAborts
    <2>1. "streamer" \in Senders /\ Unsent("streamer") /\ SendAbort("streamer")
      BY <1>21 DEF StreamAborts, SendersInv, Workers
    <2>2. SendKeeps("streamer")
      BY <2>1, SendStep
    <2>3. Blocked'
      BY <1>21, <2>2 DEF SendKeeps, StreamAborts, Blocked
    <2>4. SendersInv'
      BY <1>21, <2>2 DEF SendKeeps, StreamAborts, SendersInv
    <2>5. ReceiversInv'
      BY <1>21, <2>1, <2>2 DEF SendKeeps, StreamAborts, ReceiversInv, NoOne
    <2> QED BY <2>3, <2>4, <2>5
  <1>22. ASSUME NEW r \in Requesters, RequestAccepted(r) PROVE Blocked' /\ SendersInv' /\ ReceiversInv'
    <2>1. r \in Senders /\ Unsent(r) /\ SendAbort(r)
      BY <1>22 DEF RequestAccepted, SendersInv
    <2>2. SendKeeps(r)
      BY <2>1, SendStep
    <2>3. Blocked'
      BY <1>22, <2>2 DEF SendKeeps, RequestAccepted, Blocked
    <2>4. rpc'[r] = "accepted" /\ \A q \in Requesters \ {r} : rpc'[q] = rpc[q]
      BY <1>22 DEF RequestAccepted, TypeOK
    <2>5. SendersInv'
      BY <1>22, <2>1, <2>2, <2>4 DEF SendKeeps, RequestAccepted, SendersInv
    <2>6. ReceiversInv'
      BY <1>22, <2>1, <2>2 DEF SendKeeps, RequestAccepted, ReceiversInv, NoOne
    <2> QED BY <2>3, <2>5, <2>6
  <1>23. ASSUME NEW r \in Requesters, RequestAbort(r) PROVE Blocked' /\ SendersInv' /\ ReceiversInv'
    BY <1>23
       DEF RequestAbort, channel, Blocked, SendersInv, Unsent, Handed, HasReceived, ReceiversInv,
           TypeOK
  <1> QED
    BY <1>1, <1>2, <1>3, <1>4, <1>5, <1>6, <1>7, <1>8, <1>9, <1>10, <1>11, <1>12,
       <1>13, <1>14, <1>15, <1>16, <1>17, <1>18, <1>19, <1>20, <1>21, <1>22, <1>23
       DEF Next, Migrate, executeWriteFuncs, iterateChunks, SendBlocked

-----------------------------------------------------------------------------
(* Without early aborts. *)

LEMMA EarlyStep ==
  ASSUME TypeOK, Blocked, EarlyInv, Next
  PROVE  EarlyInv'
  <1>0. /\ mpc = "rowCopy" => first \in waiting /\ first \in {"migrator", "status"}
        /\ MayAbort /\ ~early /\ mpc \in {"setup", "spawned", "rowCopy"}
             => mpc = "rowCopy" /\ first = "migrator"
    BY DEF Blocked, TypeOK, MayAbort
  <1>00. mpc = "rowCopy" => waiting # {}
    BY <1>0
  <1> USE DEF counters
  <1>1. CASE SpawnGoroutines
    BY <1>1 DEF SpawnGoroutines, channel, EarlyInv, Unreceived, Quiet
  <1>2. CASE MarkerWriteFails
    BY <1>2 DEF MarkerWriteFails, channel, EarlyInv, Unreceived, Quiet
  <1>3. CASE AtomicCutOver
    BY <1>3 DEF AtomicCutOver, channel, EarlyInv, Unreceived, Quiet
  <1>4. CASE RemoveFlagFile
    BY <1>4 DEF RemoveFlagFile, channel, EarlyInv, Unreceived, Quiet
  <1>5. CASE IteratorCalculates
    BY <1>5 DEF IteratorCalculates, channel, EarlyInv, Unreceived, Quiet
  <1>6. CASE ExecutorWorks
    BY <1>6, <1>0 DEF ExecutorWorks, channel, EarlyInv, Unreceived, Quiet
  <1>7. CASE ExecutorCopies
    BY <1>7, <1>0 DEF ExecutorCopies, channel, EarlyInv, Unreceived, Quiet
  <1>8. CASE IteratorFails
    BY <1>8, <1>0 DEF IteratorFails, channel, EarlyInv, Unreceived, Quiet
  <1>9. CASE StreamFails
    BY <1>9, <1>0 DEF StreamFails, channel, EarlyInv, Unreceived, Quiet
  <1>10. CASE RowCopyComplete
    BY <1>10 DEF RowCopyComplete, EarlyInv
  <1>11. CASE MarkerTimeout
    BY <1>11 DEF MarkerTimeout, EarlyInv
  <1>12. CASE MarkerArrives
    BY <1>12 DEF MarkerArrives, EarlyInv
  <1>13. CASE StatusTicks
    <2>1. waiting' = waiting \ {"status"} /\ (waiting' # {} => first' \in waiting')
      BY <1>13, DequeueType DEF StatusTicks, Unblock
    <2>2. mpc = "rowCopy" => first' = "migrator"
      <3>1. mpc = "rowCopy" => "migrator" \in waiting
        BY DEF Blocked
      <3>2. waiting \subseteq {"migrator", "status"}
        BY DEF TypeOK
      <3>3. mpc = "rowCopy" => "migrator" \in waiting'
        BY <2>1, <3>1
      <3>4. \A q \in waiting' : q = "migrator"
        BY <2>1, <3>2
      <3> QED BY <2>1, <3>3, <3>4
    <2> QED BY <1>13, <2>2 DEF StatusTicks, Unblock, EarlyInv, Unreceived, Quiet
  <1>14. CASE StatusSelects
    <2>1. CASE Block("status")
      <3>1. waiting # {} => first' = first
        BY <2>1, EnqueueType DEF Block
      <3>2. mpc = "rowCopy" => first' = first
        BY <3>1 DEF Blocked
      <3> QED BY <1>14, <2>1, <3>2 DEF StatusSelects, Block, EarlyInv, Unreceived, Quiet
    <2>2. CASE ReceiveAbort("status")
      BY <1>14, <2>2 DEF StatusSelects, ReceiveAbort, EarlyInv, Unreceived, Quiet
    <2> QED BY <1>14, <2>1, <2>2 DEF StatusSelects
  <1>15. CASE WaitForRowCopy
    BY <1>15 DEF WaitForRowCopy, Block, ReceiveAbort, EarlyInv, Unreceived, Quiet
  <1>16. CASE WaitForMarker
    BY <1>16 DEF WaitForMarker, EarlyInv
  <1>17. CASE ExecutorPolls
    BY <1>17 DEF ExecutorPolls, NoAbort, ReceiveAbort, channel, EarlyInv, Unreceived, Quiet
  <1>18. CASE IteratorPolls
    BY <1>18 DEF IteratorPolls, NoAbort, ReceiveAbort, channel, EarlyInv, Unreceived, Quiet
  <1>19. CASE ExecutorAborts
    BY <1>19, <1>00 DEF ExecutorAborts, SendAbort, EarlyInv, Unreceived, Quiet
  <1>20. CASE IteratorAborts
    BY <1>20, <1>00 DEF IteratorAborts, SendAbort, EarlyInv, Unreceived, Quiet
  <1>21. CASE StreamAborts
    BY <1>21, <1>00 DEF StreamAborts, SendAbort, EarlyInv, Unreceived, Quiet
  <1>22. ASSUME NEW r \in Requesters, RequestAccepted(r) PROVE EarlyInv'
    BY <1>22, <1>00 DEF RequestAccepted, SendAbort, EarlyInv, Unreceived, Quiet
  <1>23. ASSUME NEW r \in Requesters, RequestAbort(r) PROVE EarlyInv'
    BY <1>23, <1>0 DEF RequestAbort, channel, EarlyInv, Unreceived, Quiet
  <1> QED
    BY <1>1, <1>2, <1>3, <1>4, <1>5, <1>6, <1>7, <1>8, <1>9, <1>10, <1>11, <1>12,
       <1>13, <1>14, <1>15, <1>16, <1>17, <1>18, <1>19, <1>20, <1>21, <1>22, <1>23
       DEF Next, Migrate, executeWriteFuncs, iterateChunks, SendBlocked

-----------------------------------------------------------------------------

LEMMA InitInv == Init => AbortInv
  <1> SUFFICES ASSUME Init PROVE AbortInv
    OBVIOUS
  <1>1. TypeOK
    <2>1. flagFile \in BOOLEAN /\ early \in BOOLEAN
      BY AbortAssumption DEF Init
    <2>2. chunks \in 0 .. Chunks /\ batches \in 0 .. Batches
      <3>1. Chunks \in Nat /\ Batches \in Nat
        BY AbortAssumption
      <3>2. chunks = Chunks /\ batches = Batches
        BY DEF Init
      <3> QED BY <3>1, <3>2
    <2> QED BY <2>1, <2>2 DEF Init, TypeOK
  <1>2. Blocked /\ EarlyInv
    BY DEF Init, Blocked, EarlyInv, Unreceived, Quiet
  <1>3. SendersInv /\ ReceiversInv
    BY Names DEF Init, SendersInv, ReceiversInv, Unsent, Handed, HasReceived, Senders, Workers, NoOne
  <1> QED BY <1>1, <1>2, <1>3 DEF AbortInv

LEMMA StepInv == AbortInv /\ [Next]_vars => AbortInv'
  <1> SUFFICES ASSUME AbortInv, [Next]_vars PROVE AbortInv'
    OBVIOUS
  <1>1. CASE Next
    BY <1>1, TypeStep, ChannelStep, EarlyStep DEF AbortInv
  <1>2. CASE UNCHANGED vars
    <2>1. TypeOK'
      BY <1>2 DEF vars, channel, counters, AbortInv, TypeOK
    <2>2. Blocked' /\ SendersInv' /\ ReceiversInv'
      BY <1>2 DEF vars, channel, AbortInv, Blocked, SendersInv, ReceiversInv, Unsent, Handed, HasReceived
    <2>3. EarlyInv'
      BY <1>2 DEF vars, channel, counters, AbortInv, EarlyInv, Unreceived, Quiet
    <2> QED BY <2>1, <2>2, <2>3 DEF AbortInv
  <1> QED BY <1>1, <1>2

\* The inductive invariant of the goroutines and their channel.
THEOREM Invariant == Spec => []AbortInv
  BY InitInv, StepInv, PTL DEF Spec

\* Every variable keeps its type: no more than one error is buffered, and the
\* first in line is one of the goroutines that are blocked.
THEOREM TypeCorrect == Spec => []TypeOK
  <1>1. AbortInv => TypeOK
    BY DEF AbortInv
  <1> QED BY <1>1, Invariant, PTL

\* An abort stops exactly one goroutine, whatever the number of requesters and
\* workers that send at once: no error is lost, doubled or survived.
THEOREM OneGoroutineStopped == Spec => []AbortStopsOneGoroutine
  <1>1. AbortInv => AbortStopsOneGoroutine
    <2> SUFFICES ASSUME AbortInv PROVE AbortStopsOneGoroutine
      OBVIOUS
    <2>1. \A r \in Receivers : \A s, t \in Received(r) : s = t
      <3>1. \A r \in Receivers : r # NoOne
        BY DEF Receivers, NoOne
      <3> QED BY <3>1 DEF AbortInv, ReceiversInv, Received
    <2>2. /\ Received("migrator") # {} => mpc = "failed"
          /\ Received("status") # {} => ppc = "done"
          /\ Received("executor") # {} => xpc = "stopped"
          /\ Received("iterator") # {} => ipc = "done"
      BY DEF AbortInv, ReceiversInv, Received
    <2>3. /\ \A r \in Requesters : rpc[r] = "accepted" => Handed(r)
          /\ spc = "done" => Handed("streamer")
          /\ xpc = "stopped" /\ Received("executor") = {} => Handed("executor")
          /\ ipc = "done" /\ Received("iterator") = {} /\ mpc \in {"spawned", "rowCopy"} => Handed("iterator")
      BY DEF AbortInv, SendersInv, HasReceived, Received
    <2> QED BY <2>1, <2>2, <2>3 DEF AbortStopsOneGoroutine
  <1> QED BY <1>1, Invariant, PTL

\* With no abort before the migrator is first in line, none is swallowed by
\* another goroutine while the migrator waits for the row copy.
THEOREM NothingSwallowed == Spec => []NoneSwallowedDuringRowCopy
  <1>1. AbortInv => NoneSwallowedDuringRowCopy
    BY DEF AbortInv, EarlyInv, Unreceived, NoneSwallowedDuringRowCopy
  <1> QED BY <1>1, Invariant, PTL
=============================================================================
