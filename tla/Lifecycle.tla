----------------------------- MODULE Lifecycle -----------------------------
(***************************************************************************)
(* The database objects of a migration and the runs of pg-ost that make,   *)
(* swap and drop them: the tables behind the original, the _gho and the    *)
(* _old name, the _ghc changelog table, the publication, the replication   *)
(* slot and the original's replica identity.  Nothing else survives a run. *)
(*                                                                         *)
(* Every statement is a step, because a run may end after any of them: an  *)
(* error, PanicAbort or a crash leaves the objects as they are.  A step    *)
(* whose statement would be refused is not enabled, only Fail is.          *)
(***************************************************************************)
EXTENDS FiniteSets

CONSTANTS Runs,        \* processes of pg-ost started on the same table
          Options,     \* [dropGhost, dropOld, okToDrop : BOOLEAN] a run may be given
          Identities,  \* replica identities the user's table may have
          Concurrent,  \* may a run start before the others have ended?
          CleanupErrors \* may a statement of the cleanup fail?

User == "user"    \* the relation the user created
None == "none"
Relations == Runs \cup {User}     \* a run names the ghost table it creates
Changelog == "changelog"

ASSUME LifecycleAssumption ==
  /\ Options \subseteq [dropGhost : BOOLEAN, dropOld : BOOLEAN, okToDrop : BOOLEAN]
  /\ Identities \subseteq {"DEFAULT", "NOTHING", "FULL", "INDEX"}
  /\ Concurrent \in BOOLEAN /\ CleanupErrors \in BOOLEAN
  /\ Runs \cap {User, None, Changelog} = {}

Setup   == {"start", "setFull", "findPub", "createPub", "pubLog", "findSlot", "dropSlot",
            "createSlot", "dropGhost", "createGhost", "alterGhost", "createLog", "addLog"}
Working == {"copy", "dropOld", "swap"}
Cleanup == {"dropOldTable", "dropLog", "dropRunSlot", "dropPub", "restore", "close"}
Steps   == {"off"} \cup Setup \cup Working \cup Cleanup \cup {"done", "failed"}

VARIABLES
  pc, opts, saved,     \* per run: next step, flags, OriginalReplicaIdentity
  stream,              \* per run: off, connecting, on
  rel,                 \* the relation that bears a name
  identity,            \* per relation: its replica identity
  altered, filled,     \* relations that carry the ALTER, that hold all rows
  changelog,           \* the run that created the changelog table
  pubExists, pub,      \* the publication and its tables
  slot, slotUser,      \* the run that created the slot, the run that streams from it
  slotGood             \* history: when the slot was created the table under the
                       \* original name was published with identity FULL

runVars  == <<pc, opts, saved, stream>>
tables   == <<rel, identity, altered, filled, changelog>>
pubVars  == <<pubExists, pub>>
slotVars == <<slot, slotUser, slotGood>>
vars == <<runVars, tables, pubVars, slotVars>>

TypeOK ==
  /\ pc \in [Runs -> Steps] /\ opts \in [Runs -> Options]
  /\ saved \in [Runs -> {None} \cup {"DEFAULT", "NOTHING", "FULL", "INDEX"}]
  /\ stream \in [Runs -> {"off", "connecting", "on"}]
  /\ rel \in [{"orig", "ghost", "old"} -> Relations \cup {None}]
  /\ identity \in [Relations -> {"DEFAULT", "NOTHING", "FULL", "INDEX"}]
  /\ altered \subseteq Relations /\ filled \subseteq Relations
  /\ changelog \in Runs \cup {None}
  /\ pubExists \in BOOLEAN /\ pub \subseteq Relations \cup {Changelog}
  /\ slot \in Runs \cup {None} /\ slotUser \in Runs \cup {None}
  /\ slot = None => slotUser = None
  /\ slotGood \in BOOLEAN

Init ==
  /\ pc = [p \in Runs |-> "off"] /\ opts \in [Runs -> Options]
  /\ saved = [p \in Runs |-> None] /\ stream = [p \in Runs |-> "off"]
  /\ rel = [n \in {"orig", "ghost", "old"} |-> IF n = "orig" THEN User ELSE None]
  /\ \E i \in Identities : identity = [r \in Relations |-> IF r = User THEN i ELSE "DEFAULT"]
  /\ altered = {} /\ filled = {User}
  /\ changelog = None
  /\ pubExists = FALSE /\ pub = {}
  /\ slot = None /\ slotUser = None /\ slotGood = FALSE

\* Run p is at step a and goes to step b.
Step(p, a, b) == pc[p] = a /\ pc' = [pc EXCEPT ![p] = b] /\ UNCHANGED opts

Ended(p) == pc[p] \in {"off", "done", "failed"}

\* Dropping a table takes it out of the publication.
DropTable(name) ==
  /\ rel' = [rel EXCEPT ![name] = None]
  /\ pub' = pub \ {rel[name]}
  /\ UNCHANGED <<identity, altered, filled, changelog, pubExists>>

-----------------------------------------------------------------------------
(* Migrate, steps 4 to 11. *)

\* ValidateOriginalTable
Start(p) ==
  /\ Concurrent \/ \A q \in Runs : Ended(q)
  /\ rel["orig"] # None
  /\ Step(p, "off", "start")
  /\ UNCHANGED <<saved, stream, tables, pubVars, slotVars>>

\* EnsureReplicaIdentityFull: read it, then set it.
ReadReplicaIdentity(p) ==
  /\ \/ identity[rel["orig"]] = "FULL" /\ Step(p, "start", "findPub")
     \/ identity[rel["orig"]] # "FULL" /\ Step(p, "start", "setFull")
  /\ saved' = [saved EXCEPT ![p] = identity[rel["orig"]]]
  /\ UNCHANGED <<stream, tables, pubVars, slotVars>>

\* Mutant: the statement is built and not executed.
SetReplicaIdentityUnset(p) ==
  /\ Step(p, "setFull", "findPub")
  /\ UNCHANGED <<saved, stream, tables, pubVars, slotVars>>

SetReplicaIdentityFull(p) ==
  /\ Step(p, "setFull", "findPub")
  /\ identity' = [identity EXCEPT ![rel["orig"]] = "FULL"]
  /\ UNCHANGED <<saved, stream, rel, altered, filled, changelog, pubVars, slotVars>>

\* The streamer's InitDBConnections: publication first, slot second.
DropExistingPublication(p) ==
  /\ Step(p, "findPub", "createPub")
  /\ pubExists' = FALSE /\ pub' = {}
  /\ UNCHANGED <<saved, stream, tables, slotVars>>

CreatePublication(p) ==
  /\ Step(p, "createPub", "pubLog")
  /\ ~pubExists /\ pubExists' = TRUE /\ pub' = {rel["orig"]}
  /\ UNCHANGED <<saved, stream, tables, slotVars>>

\* An error of this one, the table does not exist yet, is ignored.
TryAddChangelog(p) ==
  /\ Step(p, "pubLog", "findSlot")
  /\ pub' = IF changelog # None /\ pubExists THEN pub \cup {Changelog} ELSE pub
  /\ UNCHANGED <<saved, stream, tables, pubExists, slotVars>>

\* Refused when the slot is active.
CheckSlot(p) ==
  /\ \/ slot = None /\ Step(p, "findSlot", "createSlot")
     \/ slot # None /\ slotUser = None /\ Step(p, "findSlot", "dropSlot")
  /\ UNCHANGED <<saved, stream, tables, pubVars, slotVars>>

\* Mutant: an existing slot is used as it is.
DropExistingSlotKept(p) ==
  /\ slot # None /\ Step(p, "dropSlot", "dropGhost")
  /\ UNCHANGED <<saved, stream, tables, pubVars, slotVars>>

DropExistingSlot(p) ==
  /\ Step(p, "dropSlot", "createSlot")
  /\ slot # None /\ slotUser = None /\ slot' = None
  /\ UNCHANGED <<saved, stream, tables, pubVars, slotUser, slotGood>>

CreateSlot(p) ==
  /\ Step(p, "createSlot", "dropGhost")
  /\ slot = None /\ slot' = p
  /\ slotGood' = (pubExists /\ rel["orig"] \in pub /\ identity[rel["orig"]] = "FULL")
  /\ UNCHANGED <<saved, stream, tables, pubVars, slotUser>>

\* CreateGhostTable
DropExistingGhost(p) ==
  /\ Step(p, "dropGhost", "createGhost")
  /\ \/ opts[p].dropGhost /\ DropTable("ghost")
     \/ ~opts[p].dropGhost /\ UNCHANGED <<tables, pubVars>>
  /\ UNCHANGED <<saved, stream, slotVars>>

CreateGhostTable(p) ==
  /\ Step(p, "createGhost", "alterGhost")
  /\ rel["ghost"] = None /\ rel' = [rel EXCEPT !["ghost"] = p]
  /\ UNCHANGED <<saved, stream, identity, altered, filled, changelog, pubVars, slotVars>>

\* The ALTER fails on a table that has had it.
AlterGhost(p) ==
  /\ Step(p, "alterGhost", "createLog")
  /\ rel["ghost"] \notin altered \cup {None}
  /\ altered' = altered \cup {rel["ghost"]}
  /\ UNCHANGED <<saved, stream, rel, identity, filled, changelog, pubVars, slotVars>>

\* A plain CREATE TABLE.
CreateChangelogTable(p) ==
  /\ Step(p, "createLog", "addLog")
  /\ changelog = None /\ changelog' = p
  /\ UNCHANGED <<saved, stream, rel, identity, altered, filled, pubVars, slotVars>>

AddChangelogToPublication(p) ==
  /\ Step(p, "addLog", "copy")
  /\ pubExists /\ Changelog \notin pub /\ changelog # None
  /\ pub' = pub \cup {Changelog}
  /\ stream' = [stream EXCEPT ![p] = "connecting"]
  /\ UNCHANGED <<saved, tables, pubExists, slotVars>>

\* The streaming goroutine connects, whatever Migrate is at meanwhile.
StartReplication(p) ==
  /\ stream[p] = "connecting" /\ ~Ended(p)
  /\ slot # None /\ slotUser = None /\ slotUser' = p
  /\ stream' = [stream EXCEPT ![p] = "on"]
  /\ UNCHANGED <<pc, opts, saved, tables, pubVars, slot, slotGood>>

-----------------------------------------------------------------------------
(* Row copy, cutover. *)

\* Mutant: the cutover does not wait for the rows.
FinishRowCopyAtOnce(p) ==
  /\ Step(p, "copy", "dropOld")
  /\ UNCHANGED <<saved, stream, tables, pubVars, slotVars>>

\* The rows and the events are in the ghost table, the marker came back.
FinishRowCopy(p) ==
  /\ Step(p, "copy", "dropOld")
  /\ stream[p] = "on" /\ Changelog \in pub /\ rel["ghost"] # None
  /\ filled' = filled \cup {rel["ghost"]}
  /\ UNCHANGED <<saved, stream, rel, identity, altered, changelog, pubVars, slotVars>>

DropExistingOld(p) ==
  /\ Step(p, "dropOld", "swap")
  /\ \/ opts[p].dropOld /\ DropTable("old")
     \/ ~opts[p].dropOld /\ UNCHANGED <<tables, pubVars>>
  /\ UNCHANGED <<saved, stream, slotVars>>

\* The transaction of AtomicCutOver: both renames or none.
RenameTables(p) ==
  /\ Step(p, "swap", "dropOldTable")
  /\ rel["orig"] # None /\ rel["ghost"] # None /\ rel["old"] = None
  /\ rel' = [rel EXCEPT !["orig"] = rel["ghost"], !["ghost"] = None, !["old"] = rel["orig"]]
  /\ UNCHANGED <<saved, stream, identity, altered, filled, changelog, pubVars, slotVars>>

-----------------------------------------------------------------------------
(* cleanup: an error of one step does not keep the next one from running. *)

\* Mutant: the flag is not asked.
DropOldTableAlways(p) ==
  /\ Step(p, "dropOldTable", "dropLog")
  /\ DropTable("old")
  /\ UNCHANGED <<saved, stream, slotVars>>

\* With a serial column the new table depends on a sequence of the old one:
\* then the DROP fails.
DropOldTable(p) ==
  /\ Step(p, "dropOldTable", "dropLog")
  /\ \/ opts[p].okToDrop /\ DropTable("old")
     \/ UNCHANGED <<tables, pubVars>>
  /\ UNCHANGED <<saved, stream, slotVars>>

DropChangelogTable(p) ==
  /\ Step(p, "dropLog", "dropRunSlot")
  /\ \/ changelog' = None /\ pub' = pub \ {Changelog}
     \/ CleanupErrors /\ UNCHANGED <<changelog, pub>>
  /\ UNCHANGED <<saved, stream, rel, identity, altered, filled, pubExists, slotVars>>

\* Mutant: the slot goes while its stream is still open.
DropReplicationSlotStreaming(p) ==
  /\ Step(p, "dropRunSlot", "dropPub")
  /\ slot' = None
  /\ UNCHANGED <<saved, stream, tables, pubVars, slotUser, slotGood>>

\* PostgreSQL refuses to drop an active slot.
DropReplicationSlot(p) ==
  /\ Step(p, "dropRunSlot", "dropPub")
  /\ \/ slot' = IF slotUser = None THEN None ELSE slot
     \/ CleanupErrors /\ UNCHANGED slot
  /\ UNCHANGED <<saved, stream, tables, pubVars, slotUser, slotGood>>

DropPublication(p) ==
  /\ Step(p, "dropPub", "restore")
  /\ \/ pubExists' = FALSE /\ pub' = {}
     \/ CleanupErrors /\ UNCHANGED pubVars
  /\ UNCHANGED <<saved, stream, tables, slotVars>>

\* REPLICA IDENTITY INDEX without the index is a syntax error.
RestoreReplicaIdentity(p) ==
  /\ Step(p, "restore", "close")
  /\ \/ identity' = IF saved[p] \in {None, "FULL", "INDEX"} \/ rel["orig"] = None
                      THEN identity
                      ELSE [identity EXCEPT ![rel["orig"]] = saved[p]]
     \/ CleanupErrors /\ UNCHANGED identity
  /\ UNCHANGED <<saved, stream, rel, altered, filled, changelog, pubVars, slotVars>>

\* The process's connections go: its slot becomes inactive.
Disconnect(p) ==
  /\ slotUser' = IF slotUser = p THEN None ELSE slotUser
  /\ stream' = [stream EXCEPT ![p] = "off"]

CloseConnections(p) ==
  /\ Step(p, "close", "done")
  /\ Disconnect(p)
  /\ UNCHANGED <<saved, tables, pubVars, slot, slotGood>>

Fail(p) ==
  /\ ~Ended(p)
  /\ pc' = [pc EXCEPT ![p] = "failed"]
  /\ Disconnect(p)
  /\ UNCHANGED <<opts, saved, tables, pubVars, slot, slotGood>>

Migrate(p) ==
  \/ Start(p) \/ ReadReplicaIdentity(p) \/ SetReplicaIdentityFull(p)
  \/ DropExistingPublication(p) \/ CreatePublication(p) \/ TryAddChangelog(p)
  \/ CheckSlot(p) \/ DropExistingSlot(p) \/ CreateSlot(p)
  \/ DropExistingGhost(p) \/ CreateGhostTable(p) \/ AlterGhost(p)
  \/ CreateChangelogTable(p) \/ AddChangelogToPublication(p)
  \/ FinishRowCopy(p) \/ DropExistingOld(p) \/ RenameTables(p)

cleanup(p) ==
  \/ DropOldTable(p) \/ DropChangelogTable(p) \/ DropReplicationSlot(p)
  \/ DropPublication(p) \/ RestoreReplicaIdentity(p) \/ CloseConnections(p)

Next == \E p \in Runs : Migrate(p) \/ StartReplication(p) \/ cleanup(p) \/ Fail(p)

Spec == Init /\ [][Next]_vars

-----------------------------------------------------------------------------
(* What the runs leave to the application and to the next run. *)

\* Wherever a run stops, the original name bears the table it bore before the
\* run or a complete copy of it that carries the ALTER.
OriginalTableIntact == rel["orig"] = User \/ rel["orig"] \in filled \cap altered

\* The user's own table is gone only when a run was told to drop it and the
\* original name has gone to a ghost table.
UserTableKept ==
  User \notin {rel["orig"], rel["old"]} =>
    rel["orig"] \in Runs /\ \E p \in Runs : opts[p].okToDrop \/ opts[p].dropOld

\* What a run streams while it copies is complete: from its own slot, made
\* after the table was published and its old tuples were logged in full.
SlotSeesEveryChange ==
  \A p \in Runs : pc[p] \in Working => slot = p /\ slotGood

\* Findings.  A run that ended well has left neither publication nor slot,
CleanupLeavesNothing ==
  \A p \in Runs : pc[p] = "done" /\ (\A q \in Runs \ {p} : pc[q] = "off") =>
    slot = None /\ ~pubExists

\* the changelog table of an earlier run does not stop the next one,
ChangelogCreatable == \A p \in Runs : pc[p] = "createLog" => changelog = None

\* the table has the replica identity it had before,
ReplicaIdentityRestored ==
  \A p \in Runs : pc[p] = "close" => identity[rel["orig"]] = saved[p]

\* and the slot lets only one of two runs on the same table set out.
OneRunAtATime ==
  \A p, q \in Runs : pc[p] \in Working /\ pc[q] \in {"dropGhost", "createGhost", "alterGhost"} => p = q
=============================================================================
