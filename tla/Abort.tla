------------------------------- MODULE Abort -------------------------------
(***************************************************************************)
(* How a migration is aborted.  The goroutines of a running migration      *)
(* share one channel, PanicAbort, with room for one error.  The control    *)
(* socket's panic command, the signal handler, the streamer, the executor  *)
(* and the iterator send on it; the migrator, printStatus, the executor    *)
(* and the iterator receive from it, and whoever receives an error ends    *)
(* and does not pass it on.                                                *)
(*                                                                         *)
(* Channel semantics are Go's: a send goes to the goroutine that has been  *)
(* blocked in a select the longest, else into the buffer, else it blocks.  *)
(***************************************************************************)
EXTENDS Integers

CONSTANTS Requesters,   \* control connections that send panic, the signal handler
          Chunks,       \* bound: chunks of the row copy
          Batches,      \* bound: event batches of the row copy
          EarlyAborts,  \* scenarios: may an abort come before the migrator is first in line?
          FlagFiles     \* values the existence of the postpone flag file may take

ASSUME AbortAssumption ==
  /\ Chunks \in Nat /\ Batches \in Nat
  /\ EarlyAborts \subseteq BOOLEAN /\ FlagFiles \subseteq BOOLEAN
  /\ Requesters \cap {"executor", "iterator", "streamer", "no one"} = {}

Workers   == {"executor", "iterator", "streamer"}
Senders   == Workers \cup Requesters
Receivers == {"migrator", "status", "executor", "iterator"}
NoOne     == "no one"

VARIABLES
  mpc,       \* Migrate: setup, spawned, rowCopy, postpone, select, swap, swapped, failed
  xpc,       \* executeWriteFuncs: none, poll, work, copy, send, stopped
  ipc,       \* iterateChunks: none, poll, calc, offer, signal, send, done
  ppc,       \* printStatus: none, loop, select, done
  spc,       \* the streaming goroutine: stream, send, done
  rpc,       \* per requester: idle, send, accepted
  buffer,    \* whose error is in PanicAbort's buffer
  waiting,   \* goroutines blocked in a select on PanicAbort
  first,     \* the one of them that has been blocked the longest
  got,       \* history: who received each sender's error
  chunks, batches, flagFile,
  early      \* the scenario, chosen once

counters == <<chunks, batches, flagFile, early>>
channel  == <<buffer, waiting, first, got>>
vars == <<mpc, xpc, ipc, ppc, spc, rpc, channel, counters>>

TypeOK ==
  /\ mpc \in {"setup", "spawned", "rowCopy", "postpone", "select", "swap", "swapped", "failed"}
  /\ xpc \in {"none", "poll", "work", "copy", "send", "stopped"}
  /\ ipc \in {"none", "poll", "calc", "offer", "signal", "send", "done"}
  /\ ppc \in {"none", "loop", "select", "done"}
  /\ spc \in {"stream", "send", "done"}
  /\ rpc \in [Requesters -> {"idle", "send", "accepted"}]
  /\ buffer \in Senders \cup {NoOne}
  /\ waiting \subseteq {"migrator", "status"}
  /\ IF waiting = {} THEN first = NoOne ELSE first \in waiting
  /\ got \in [Senders -> Receivers \cup {NoOne}]
  /\ chunks \in 0 .. Chunks /\ batches \in 0 .. Batches
  /\ flagFile \in BOOLEAN /\ early \in BOOLEAN

\* Streaming and the control server have started, the row count and the
\* migration range are still to be read.
Init ==
  /\ mpc = "setup" /\ xpc = "none" /\ ipc = "none" /\ ppc = "none" /\ spc = "stream"
  /\ rpc = [r \in Requesters |-> "idle"]
  /\ buffer = NoOne /\ waiting = {} /\ first = NoOne
  /\ got = [s \in Senders |-> NoOne]
  /\ chunks = Chunks /\ batches = Batches /\ flagFile \in FlagFiles /\ early \in EarlyAborts

\* main is in Migrate: after it returns the process ends.
Running == mpc \notin {"swapped", "failed"}

-----------------------------------------------------------------------------
(* The channel. *)

\* r joins or leaves the goroutines blocked on the channel; no more than two block.
Enqueue(r) ==
  /\ waiting' = waiting \cup {r}
  /\ first' = IF waiting = {} THEN r ELSE first

Dequeue(r) ==
  /\ waiting' = waiting \ {r}
  /\ first' = IF waiting' = {} THEN NoOne ELSE CHOOSE q \in waiting' : TRUE

\* PanicAbort <- err.  The receiver of a direct hand-over ends.
SendAbort(s) ==
  IF waiting # {}
    THEN /\ Dequeue(first) /\ UNCHANGED buffer
         /\ got' = [got EXCEPT ![s] = first]
         /\ mpc' = IF first = "migrator" THEN "failed" ELSE mpc
         /\ ppc' = IF first = "status" THEN "done" ELSE ppc
    ELSE /\ buffer = NoOne /\ buffer' = s
         /\ UNCHANGED <<waiting, first, got, mpc, ppc>>

\* r receives the buffered error.
ReceiveAbort(r) ==
  /\ buffer # NoOne
  /\ buffer' = NoOne /\ got' = [got EXCEPT ![buffer] = r]
  /\ UNCHANGED <<waiting, first>>

\* r finds the channel empty: a poll goes on, a select blocks.
NoAbort == buffer = NoOne /\ UNCHANGED channel
Block(r) == buffer = NoOne /\ Enqueue(r) /\ UNCHANGED <<buffer, got>>
Unblock(r) == Dequeue(r) /\ UNCHANGED <<buffer, got>>

-----------------------------------------------------------------------------
(* The senders that are not part of the row copy. *)

\* Without early aborts the first one comes when the migrator is blocked in
\* waitForRowCopy and is first in line, that is after printStatus's first tick.
MayAbort ==
  \/ early
  \/ mpc \notin {"setup", "spawned", "rowCopy"}
  \/ mpc = "rowCopy" /\ first # "status"

RequestAbort(r) ==
  /\ Running /\ MayAbort /\ rpc[r] = "idle"
  /\ rpc' = [rpc EXCEPT ![r] = "send"]
  /\ UNCHANGED <<mpc, xpc, ipc, ppc, spc, channel, counters>>

\* The command is answered, the handler returns, once the send is done.
RequestAccepted(r) ==
  /\ Running /\ rpc[r] = "send"
  /\ SendAbort(r)
  /\ rpc' = [rpc EXCEPT ![r] = "accepted"]
  /\ UNCHANGED <<xpc, ipc, spc, counters>>

StreamFails ==
  /\ Running /\ MayAbort /\ spc = "stream"
  /\ spc' = "send"
  /\ UNCHANGED <<mpc, xpc, ipc, ppc, rpc, channel, counters>>

StreamAborts ==
  /\ Running /\ spc = "send"
  /\ SendAbort("streamer")
  /\ spc' = "done"
  /\ UNCHANGED <<xpc, ipc, rpc, counters>>

-----------------------------------------------------------------------------
(* executeWriteFuncs *)

\* Mutant: the executor logs the abort and goes on.
ExecutorPollsOn ==
  /\ Running /\ xpc = "poll"
  /\ ReceiveAbort("executor") \/ NoAbort
  /\ xpc' = "work"
  /\ UNCHANGED <<mpc, ipc, ppc, spc, rpc, counters>>

ExecutorPolls ==
  /\ Running /\ xpc = "poll"
  /\ \/ ReceiveAbort("executor") /\ xpc' = "stopped"
     \/ NoAbort /\ xpc' = "work"
  /\ UNCHANGED <<mpc, ipc, ppc, spc, rpc, counters>>

\* An event batch, applied or failing; else a copy function; else nothing.
ExecutorWorks ==
  /\ Running /\ xpc = "work"
  /\ \/ /\ batches > 0 /\ batches' = batches - 1
        /\ \/ xpc' = "poll"
           \/ MayAbort /\ xpc' = "send"
        /\ UNCHANGED ipc
     \/ ipc = "offer" /\ ipc' = "poll" /\ xpc' = "copy" /\ UNCHANGED batches
     \/ ipc # "offer" /\ xpc' = "poll" /\ UNCHANGED <<ipc, batches>>
  /\ UNCHANGED <<mpc, ppc, spc, rpc, channel, chunks, flagFile, early>>

ExecutorCopies ==
  /\ Running /\ xpc = "copy"
  /\ \/ xpc' = "poll"
     \/ MayAbort /\ xpc' = "send"
  /\ UNCHANGED <<mpc, ipc, ppc, spc, rpc, channel, counters>>

\* Mutant: the error of the executor is only logged.
ExecutorEndsSilently ==
  /\ Running /\ xpc = "send"
  /\ xpc' = "stopped"
  /\ UNCHANGED <<mpc, ipc, ppc, spc, rpc, channel, counters>>

ExecutorAborts ==
  /\ Running /\ xpc = "send"
  /\ SendAbort("executor")
  /\ xpc' = "stopped"
  /\ UNCHANGED <<ipc, spc, rpc, counters>>

executeWriteFuncs == ExecutorPolls \/ ExecutorWorks \/ ExecutorCopies \/ ExecutorAborts

-----------------------------------------------------------------------------
(* iterateChunks *)

IteratorPolls ==
  /\ Running /\ ipc = "poll"
  /\ \/ ReceiveAbort("iterator") /\ ipc' = "done"
     \/ NoAbort /\ ipc' = "calc"
  /\ UNCHANGED <<mpc, xpc, ppc, spc, rpc, counters>>

\* Mutant: the end of the range is not noticed.
IteratorCalculatesUnbounded ==
  /\ Running /\ ipc = "calc"
  /\ chunks' = chunks - 1 /\ ipc' = "offer"
  /\ UNCHANGED <<mpc, xpc, ppc, spc, rpc, channel, batches, flagFile, early>>

IteratorCalculates ==
  /\ Running /\ ipc = "calc"
  /\ \/ chunks > 0 /\ chunks' = chunks - 1 /\ ipc' = "offer"
     \/ chunks = 0 /\ ipc' = "signal" /\ UNCHANGED chunks
  /\ UNCHANGED <<mpc, xpc, ppc, spc, rpc, channel, batches, flagFile, early>>

\* Mutant: the error of the range query is only logged.
IteratorFailsSilently ==
  /\ Running /\ MayAbort /\ ipc = "calc"
  /\ ipc' = "done"
  /\ UNCHANGED <<mpc, xpc, ppc, spc, rpc, channel, counters>>

IteratorFails ==
  /\ Running /\ MayAbort /\ ipc = "calc"
  /\ ipc' = "send"
  /\ UNCHANGED <<mpc, xpc, ppc, spc, rpc, channel, counters>>

IteratorAborts ==
  /\ Running /\ ipc = "send"
  /\ SendAbort("iterator")
  /\ ipc' = "done"
  /\ UNCHANGED <<xpc, spc, rpc, counters>>

iterateChunks == IteratorPolls \/ IteratorCalculates \/ IteratorAborts

-----------------------------------------------------------------------------
(* printStatus: a select between the ticker and PanicAbort. *)

StatusSelects ==
  /\ Running /\ ppc = "loop"
  /\ \/ ReceiveAbort("status") /\ ppc' = "done"
     \/ Block("status") /\ ppc' = "select"
  /\ UNCHANGED <<mpc, xpc, ipc, spc, rpc, counters>>

StatusTicks ==
  /\ Running /\ ppc = "select"
  /\ Unblock("status") /\ ppc' = "loop"
  /\ UNCHANGED <<mpc, xpc, ipc, spc, rpc, counters>>

-----------------------------------------------------------------------------
(* Migrate, from the end of the setup to the renames. *)

SpawnGoroutines ==
  /\ mpc = "setup"
  /\ mpc' = "spawned" /\ xpc' = "poll" /\ ipc' = "poll" /\ ppc' = "loop"
  /\ UNCHANGED <<spc, rpc, channel, counters>>

\* Mutant: waitForRowCopy does not listen to PanicAbort.
WaitForRowCopyDeaf ==
  /\ mpc = "spawned" /\ mpc' = "rowCopy"
  /\ UNCHANGED <<xpc, ipc, ppc, spc, rpc, channel, counters>>

WaitForRowCopy ==
  /\ mpc = "spawned"
  /\ \/ ReceiveAbort("migrator") /\ mpc' = "failed"
     \/ Block("migrator") /\ mpc' = "rowCopy"
  /\ UNCHANGED <<xpc, ipc, ppc, spc, rpc, counters>>

\* rowCopyComplete is ready at once, or while the migrator is blocked.
RowCopyComplete ==
  /\ mpc \in {"spawned", "rowCopy"} /\ ipc = "signal"
  /\ Unblock("migrator")
  /\ mpc' = "postpone" /\ ipc' = "done"
  /\ UNCHANGED <<xpc, ppc, spc, rpc, counters>>

RemoveFlagFile ==
  /\ Running /\ flagFile /\ flagFile' = FALSE
  /\ UNCHANGED <<mpc, xpc, ipc, ppc, spc, rpc, channel, chunks, batches, early>>

\* The postpone loop ends, the marker is written, the migrator selects.
WaitForMarker ==
  /\ mpc = "postpone" /\ ~flagFile
  /\ \/ ReceiveAbort("migrator") /\ mpc' = "failed"
     \/ Block("migrator") /\ mpc' = "select"
  /\ UNCHANGED <<xpc, ipc, ppc, spc, rpc, counters>>

MarkerWriteFails ==
  /\ mpc = "postpone" /\ ~flagFile /\ mpc' = "failed"
  /\ UNCHANGED <<xpc, ipc, ppc, spc, rpc, channel, counters>>

MarkerArrives ==
  /\ mpc = "select" /\ mpc' = "swap"
  /\ Unblock("migrator")
  /\ UNCHANGED <<xpc, ipc, ppc, spc, rpc, counters>>

MarkerTimeout ==
  /\ mpc = "select" /\ mpc' = "failed"
  /\ Unblock("migrator")
  /\ UNCHANGED <<xpc, ipc, ppc, spc, rpc, counters>>

AtomicCutOver ==
  /\ mpc = "swap" /\ mpc' \in {"swapped", "failed"}
  /\ UNCHANGED <<xpc, ipc, ppc, spc, rpc, channel, counters>>

Migrate ==
  \/ SpawnGoroutines \/ WaitForRowCopy \/ RowCopyComplete
  \/ WaitForMarker \/ MarkerWriteFails \/ MarkerTimeout \/ AtomicCutOver

SendBlocked == StreamAborts \/ \E r \in Requesters : RequestAccepted(r)

Next ==
  \/ Migrate \/ MarkerArrives \/ RemoveFlagFile
  \/ executeWriteFuncs
  \/ iterateChunks \/ IteratorFails
  \/ StatusSelects \/ StatusTicks
  \/ StreamFails \/ SendBlocked \/ \E r \in Requesters : RequestAbort(r)

Spec == Init /\ [][Next]_vars

\* Every goroutine runs when it can; the flag file, errors and requests owe nothing.
\* The iterator may sleep in its throttle check for as long as it is throttled:
\* only what it has to send is sure to come.
Fairness ==
  /\ WF_vars(Migrate) /\ WF_vars(executeWriteFuncs) /\ WF_vars(IteratorAborts)
  /\ WF_vars(StatusSelects) /\ WF_vars(StreamAborts)
  /\ \A r \in Requesters : WF_vars(RequestAccepted(r))

FairSpec == Spec /\ Fairness

-----------------------------------------------------------------------------
(* What an abort achieves. *)

\* Ended by an abort, not by an error of its own or the end of its work.
Received(r) == {s \in Senders : got[s] = r}

\* The error of s has a receiver, or is in the buffer.
Handed(s) == got[s] = NoOne <=> buffer = s

\* An error stops exactly one goroutine, and no error is lost or doubled: no
\* goroutine outlives an error it has received, and a requester, the streamer,
\* the executor or, during the row copy, the iterator that has ended by sending
\* one has handed it over.
AbortStopsOneGoroutine ==
  /\ \A r \in Receivers : \A s, t \in Received(r) : s = t
  /\ Received("migrator") # {} => mpc = "failed"
  /\ Received("status") # {} => ppc = "done"
  /\ Received("executor") # {} => xpc = "stopped"
  /\ Received("iterator") # {} => ipc = "done"
  /\ \A r \in Requesters : rpc[r] = "accepted" => Handed(r)
  /\ spc = "done" => Handed("streamer")
  /\ xpc = "stopped" /\ Received("executor") = {} => Handed("executor")
  /\ ipc = "done" /\ Received("iterator") = {} /\ mpc \in {"spawned", "rowCopy"} => Handed("iterator")

\* While the migrator waits for the row copy no abort has been swallowed: the
\* first one is the migrator's, as long as none came before it was in line.
NoneSwallowedDuringRowCopy ==
  ~early /\ mpc = "rowCopy" => \A s \in Senders : got[s] = NoOne

\* The iterator, which alone can end the row copy, has failed or ended without
\* doing so: the migration fails, it does not wait for rowCopyComplete for ever.
IteratorErrorEndsMigration ==
  (~early /\ ipc \in {"send", "done"} /\ mpc \in {"spawned", "rowCopy"}) ~> mpc = "failed"

\* The executor, which alone takes the iterator's copy functions, has failed or is
\* gone, and the iterator may be blocked in its offer for good: the migrator does
\* not wait for the row copy for ever.
ExecutorErrorEndsRowCopy ==
  (~early /\ xpc \in {"send", "stopped"} /\ mpc \in {"spawned", "rowCopy"})
    ~> mpc \notin {"spawned", "rowCopy"}

\* Findings.  The cutover does not enter its critical section once a panic
\* command has been accepted,
PanicAbortsMigration ==
  [][mpc = "postpone" /\ mpc' = "select" => \A r \in Requesters : rpc[r] # "accepted"]_vars

\* and pg-ost ends some time after the signal handler has handed the signal over.
SignalShutsDown == \A r \in Requesters : rpc[r] = "accepted" ~> ~Running
=============================================================================
