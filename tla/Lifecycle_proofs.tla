-------------------------- MODULE Lifecycle_proofs -------------------------
(***************************************************************************)
(* Proofs about Lifecycle, for every number of runs, every choice of flags *)
(* and every replica identity the table may have.                          *)
(***************************************************************************)
EXTENDS Lifecycle, TLAPS

\* Some process of pg-ost makes a step.
RunStep(p) == Migrate(p) \/ StartReplication(p) \/ cleanup(p) \/ Fail(p)

\* The original name always bears a table, the ghost name never the user's.
NamesHeld == rel["orig"] # None /\ rel["ghost"] # User

\* What holds of the tables however many runs go on at once.
TableInv == TypeOK /\ NamesHeld /\ UserTableKept

-----------------------------------------------------------------------------
LEMMA InitTableInv == Init => TableInv
<1> SUFFICES ASSUME Init PROVE TableInv
  OBVIOUS
<1> USE LifecycleAssumption DEF Init
<1>1. pubExists \in BOOLEAN /\ slotGood \in BOOLEAN
  OBVIOUS
<1>2. pc \in [Runs -> Steps] /\ opts \in [Runs -> Options]
  BY DEF Steps
<1>3. /\ saved \in [Runs -> {None} \cup {"DEFAULT", "NOTHING", "FULL", "INDEX"}]
      /\ stream \in [Runs -> {"off", "connecting", "on"}]
  OBVIOUS
<1>4. /\ rel \in [{"orig", "ghost", "old"} -> Relations \cup {None}]
      /\ rel["orig"] = User /\ rel["ghost"] = None
  BY DEF Relations
<1>5. identity \in [Relations -> {"DEFAULT", "NOTHING", "FULL", "INDEX"}]
  OBVIOUS
<1>6. NamesHeld /\ UserTableKept
  BY <1>4 DEF NamesHeld, UserTableKept, User, None
<1> QED
  BY <1>1, <1>2, <1>3, <1>4, <1>5, <1>6 DEF TableInv, TypeOK, Relations

LEMMA NextBooleans ==
  ASSUME TypeOK, NEW p \in Runs, RunStep(p)
  PROVE  pubExists' \in BOOLEAN /\ slotGood' \in BOOLEAN
<1>1. CASE Start(p)
  BY <1>1 DEF TypeOK, Start, Step, tables, pubVars, slotVars
<1>2. CASE ReadReplicaIdentity(p)
  BY <1>2 DEF TypeOK, ReadReplicaIdentity, Step, tables, pubVars, slotVars
<1>3. CASE SetReplicaIdentityFull(p)
  BY <1>3 DEF TypeOK, SetReplicaIdentityFull, Step, tables, pubVars, slotVars
<1>4. CASE DropExistingPublication(p)
  BY <1>4 DEF TypeOK, DropExistingPublication, Step, tables, pubVars, slotVars
<1>5. CASE CreatePublication(p)
  BY <1>5 DEF TypeOK, CreatePublication, Step, tables, pubVars, slotVars
<1>6. CASE TryAddChangelog(p)
  BY <1>6 DEF TypeOK, TryAddChangelog, Step, tables, pubVars, slotVars
<1>7. CASE CheckSlot(p)
  BY <1>7 DEF TypeOK, CheckSlot, Step, tables, pubVars, slotVars
<1>8. CASE DropExistingSlot(p)
  BY <1>8 DEF TypeOK, DropExistingSlot, Step, tables, pubVars, slotVars
<1>9. CASE CreateSlot(p)
  BY <1>9 DEF TypeOK, CreateSlot, Step, tables, pubVars, slotVars
<1>10. CASE DropExistingGhost(p)
  BY <1>10 DEF TypeOK, DropExistingGhost, DropTable, Step, tables, pubVars, slotVars
<1>11. CASE CreateGhostTable(p)
  BY <1>11 DEF TypeOK, CreateGhostTable, Step, tables, pubVars, slotVars
<1>12. CASE AlterGhost(p)
  BY <1>12 DEF TypeOK, AlterGhost, Step, tables, pubVars, slotVars
<1>13. CASE CreateChangelogTable(p)
  BY <1>13 DEF TypeOK, CreateChangelogTable, Step, tables, pubVars, slotVars
<1>14. CASE AddChangelogToPublication(p)
  BY <1>14 DEF TypeOK, AddChangelogToPublication, Step, tables, pubVars, slotVars
<1>15. CASE FinishRowCopy(p)
  BY <1>15 DEF TypeOK, FinishRowCopy, Step, tables, pubVars, slotVars
<1>16. CASE DropExistingOld(p)
  BY <1>16 DEF TypeOK, DropExistingOld, DropTable, Step, tables, pubVars, slotVars
<1>17. CASE RenameTables(p)
  BY <1>17 DEF TypeOK, RenameTables, Step, tables, pubVars, slotVars
<1>18. CASE DropOldTable(p)
  BY <1>18 DEF TypeOK, DropOldTable, DropTable, Step, tables, pubVars, slotVars
<1>19. CASE DropChangelogTable(p)
  BY <1>19 DEF TypeOK, DropChangelogTable, Step, tables, pubVars, slotVars
<1>20. CASE DropReplicationSlot(p)
  BY <1>20 DEF TypeOK, DropReplicationSlot, Step, tables, pubVars, slotVars
<1>21. CASE DropPublication(p)
  BY <1>21 DEF TypeOK, DropPublication, Step, tables, pubVars, slotVars
<1>22. CASE RestoreReplicaIdentity(p)
  BY <1>22 DEF TypeOK, RestoreReplicaIdentity, Step, tables, pubVars, slotVars
<1>23. CASE CloseConnections(p)
  BY <1>23 DEF TypeOK, CloseConnections, Disconnect, Step, tables, pubVars, slotVars
<1>24. CASE StartReplication(p)
  BY <1>24 DEF TypeOK, StartReplication, tables, pubVars, slotVars
<1>25. CASE Fail(p)
  BY <1>25 DEF TypeOK, Fail, Disconnect, tables, pubVars, slotVars
<1> QED
  BY <1>1, <1>2, <1>3, <1>4, <1>5, <1>6, <1>7, <1>8, <1>9, <1>10, <1>11, <1>12, <1>13, <1>14,
     <1>15, <1>16, <1>17, <1>18, <1>19, <1>20, <1>21, <1>22, <1>23, <1>24, <1>25
  DEF RunStep, Migrate, cleanup

LEMMA NextRunTypes ==
  ASSUME TypeOK, NEW p \in Runs, RunStep(p), rel["orig"] # None
  PROVE  /\ pc' \in [Runs -> Steps] /\ opts' \in [Runs -> Options]
         /\ saved' \in [Runs -> {None} \cup {"DEFAULT", "NOTHING", "FULL", "INDEX"}]
         /\ stream' \in [Runs -> {"off", "connecting", "on"}]
<1> USE DEF TypeOK, Steps, Setup, Working, Cleanup
<1>0. identity[rel["orig"]] \in {"DEFAULT", "NOTHING", "FULL", "INDEX"}
  OBVIOUS
<1>1. CASE Start(p)
  BY <1>1 DEF Start, Step
<1>2. CASE ReadReplicaIdentity(p)
  BY <1>0, <1>2 DEF ReadReplicaIdentity, Step
<1>3. CASE SetReplicaIdentityFull(p)
  BY <1>3 DEF SetReplicaIdentityFull, Step
<1>4. CASE DropExistingPublication(p)
  BY <1>4 DEF DropExistingPublication, Step
<1>5. CASE CreatePublication(p)
  BY <1>5 DEF CreatePublication, Step
<1>6. CASE TryAddChangelog(p)
  BY <1>6 DEF TryAddChangelog, Step
<1>7. CASE CheckSlot(p)
  BY <1>7 DEF CheckSlot, Step
<1>8. CASE DropExistingSlot(p)
  BY <1>8 DEF DropExistingSlot, Step
<1>9. CASE CreateSlot(p)
  BY <1>9 DEF CreateSlot, Step
<1>10. CASE DropExistingGhost(p)
  BY <1>10 DEF DropExistingGhost, Step
<1>11. CASE CreateGhostTable(p)
  BY <1>11 DEF CreateGhostTable, Step
<1>12. CASE AlterGhost(p)
  BY <1>12 DEF AlterGhost, Step
<1>13. CASE CreateChangelogTable(p)
  BY <1>13 DEF CreateChangelogTable, Step
<1>14. CASE AddChangelogToPublication(p)
  BY <1>14 DEF AddChangelogToPublication, Step
<1>15. CASE FinishRowCopy(p)
  BY <1>15 DEF FinishRowCopy, Step
<1>16. CASE DropExistingOld(p)
  BY <1>16 DEF DropExistingOld, Step
<1>17. CASE RenameTables(p)
  BY <1>17 DEF RenameTables, Step
<1>18. CASE DropOldTable(p)
  BY <1>18 DEF DropOldTable, Step
<1>19. CASE DropChangelogTable(p)
  BY <1>19 DEF DropChangelogTable, Step
<1>20. CASE DropReplicationSlot(p)
  BY <1>20 DEF DropReplicationSlot, Step
<1>21. CASE DropPublication(p)
  BY <1>21 DEF DropPublication, Step
<1>22. CASE RestoreReplicaIdentity(p)
  BY <1>22 DEF RestoreReplicaIdentity, Step
<1>23. CASE CloseConnections(p)
  BY <1>23 DEF CloseConnections, Disconnect, Step
<1>24. CASE StartReplication(p)
  BY <1>24 DEF StartReplication
<1>25. CASE Fail(p)
  BY <1>25 DEF Fail, Disconnect
<1> QED
  BY <1>1, <1>2, <1>3, <1>4, <1>5, <1>6, <1>7, <1>8, <1>9, <1>10, <1>11, <1>12, <1>13, <1>14,
     <1>15, <1>16, <1>17, <1>18, <1>19, <1>20, <1>21, <1>22, <1>23, <1>24, <1>25
  DEF RunStep, Migrate, cleanup

LEMMA NextTableTypes ==
  ASSUME TableInv, NEW p \in Runs, RunStep(p)
  PROVE  /\ rel' \in [{"orig", "ghost", "old"} -> Relations \cup {None}]
         /\ identity' \in [Relations -> {"DEFAULT", "NOTHING", "FULL", "INDEX"}]
         /\ altered' \subseteq Relations /\ filled' \subseteq Relations
         /\ changelog' \in Runs \cup {None}
         /\ pub' \subseteq Relations \cup {Changelog}
         /\ slot' \in Runs \cup {None} /\ slotUser' \in Runs \cup {None}
         /\ slot' = None => slotUser' = None
         /\ NamesHeld'
<1> USE LifecycleAssumption DEF TableInv, TypeOK, NamesHeld, Relations
<1>1. CASE Start(p)
  BY <1>1 DEF Start, Step, tables, pubVars, slotVars
<1>2. CASE ReadReplicaIdentity(p)
  BY <1>2 DEF ReadReplicaIdentity, Step, tables, pubVars, slotVars
<1>3. CASE SetReplicaIdentityFull(p)
  BY <1>3 DEF SetReplicaIdentityFull, Step, tables, pubVars, slotVars
<1>4. CASE DropExistingPublication(p)
  BY <1>4 DEF DropExistingPublication, Step, tables, pubVars, slotVars
<1>5. CASE CreatePublication(p)
  BY <1>5 DEF CreatePublication, Step, tables, pubVars, slotVars
<1>6. CASE TryAddChangelog(p)
  BY <1>6 DEF TryAddChangelog, Step, tables, pubVars, slotVars
<1>7. CASE CheckSlot(p)
  BY <1>7 DEF CheckSlot, Step, tables, pubVars, slotVars
<1>8. CASE DropExistingSlot(p)
  BY <1>8 DEF DropExistingSlot, Step, tables, pubVars, slotVars
<1>9. CASE CreateSlot(p)
  BY <1>9 DEF CreateSlot, Step, tables, pubVars, slotVars
<1>10. CASE DropExistingGhost(p)
  <2>1. CASE DropTable("ghost")
    BY <1>10, <2>1 DEF DropExistingGhost, DropTable, None, User, slotVars
  <2>2. CASE UNCHANGED <<tables, pubVars>>
    BY <1>10, <2>2 DEF DropExistingGhost, tables, pubVars, slotVars
  <2> QED
    BY <1>10, <2>1, <2>2 DEF DropExistingGhost
<1>11. CASE CreateGhostTable(p)
  BY <1>11 DEF CreateGhostTable, Step, tables, pubVars, slotVars
<1>12. CASE AlterGhost(p)
  BY <1>12 DEF AlterGhost, Step, tables, pubVars, slotVars
<1>13. CASE CreateChangelogTable(p)
  BY <1>13 DEF CreateChangelogTable, Step, tables, pubVars, slotVars
<1>14. CASE AddChangelogToPublication(p)
  BY <1>14 DEF AddChangelogToPublication, Step, tables, pubVars, slotVars
<1>15. CASE FinishRowCopy(p)
  BY <1>15 DEF FinishRowCopy, Step, tables, pubVars, slotVars
<1>16. CASE DropExistingOld(p)
  BY <1>16 DEF DropExistingOld, DropTable, Step, tables, pubVars, slotVars
<1>17. CASE RenameTables(p)
  <2>1. rel["orig"] \in Relations /\ rel["ghost"] \in Relations
    BY <1>17 DEF RenameTables
  <2>2. rel' \in [{"orig", "ghost", "old"} -> Relations \cup {None}]
    BY <1>17, <2>1 DEF RenameTables
  <2>3. rel'["orig"] = rel["ghost"] /\ rel'["ghost"] = None
    BY <1>17 DEF RenameTables
  <2>4. NamesHeld'
    BY <1>17, <2>3 DEF RenameTables, None, User
  <2> QED
    BY <1>17, <2>2, <2>4 DEF RenameTables, pubVars, slotVars
<1>18. CASE DropOldTable(p)
  BY <1>18 DEF DropOldTable, DropTable, Step, tables, pubVars, slotVars
<1>19. CASE DropChangelogTable(p)
  BY <1>19 DEF DropChangelogTable, Step, tables, pubVars, slotVars
<1>20. CASE DropReplicationSlot(p)
  BY <1>20 DEF DropReplicationSlot, Step, tables, pubVars, slotVars
<1>21. CASE DropPublication(p)
  BY <1>21 DEF DropPublication, Step, tables, pubVars, slotVars
<1>22. CASE RestoreReplicaIdentity(p)
  BY <1>22 DEF RestoreReplicaIdentity, Step, tables, pubVars, slotVars
<1>23. CASE CloseConnections(p)
  BY <1>23 DEF CloseConnections, Disconnect, Step, tables, pubVars, slotVars
<1>24. CASE StartReplication(p)
  BY <1>24 DEF StartReplication, tables, pubVars, slotVars
<1>25. CASE Fail(p)
  BY <1>25 DEF Fail, Disconnect, tables, pubVars, slotVars
<1> QED
  BY <1>1, <1>2, <1>3, <1>4, <1>5, <1>6, <1>7, <1>8, <1>9, <1>10, <1>11, <1>12, <1>13, <1>14,
     <1>15, <1>16, <1>17, <1>18, <1>19, <1>20, <1>21, <1>22, <1>23, <1>24, <1>25
  DEF RunStep, Migrate, cleanup

LEMMA NextUserTableKept ==
  ASSUME TableInv, NEW p \in Runs, RunStep(p)
  PROVE  UserTableKept'
<1>1. opts' = opts
  BY DEF RunStep, Migrate, cleanup, StartReplication, Fail, Step, Start, ReadReplicaIdentity,
         SetReplicaIdentityFull, DropExistingPublication, CreatePublication, TryAddChangelog,
         CheckSlot, DropExistingSlot, CreateSlot, DropExistingGhost, CreateGhostTable, AlterGhost,
         CreateChangelogTable, AddChangelogToPublication, FinishRowCopy, DropExistingOld,
         RenameTables, DropOldTable, DropChangelogTable, DropReplicationSlot, DropPublication,
         RestoreReplicaIdentity, CloseConnections
<1>2. rel["orig"] \in Relations /\ (rel["orig"] # User => rel["orig"] \in Runs)
  BY DEF TableInv, TypeOK, NamesHeld, Relations
<1>3. CASE rel'["orig"] = rel["orig"] /\ rel'["old"] = rel["old"]
  BY <1>1, <1>3 DEF TableInv, UserTableKept
<1>4. CASE RenameTables(p)
  <2>1. rel["ghost"] \in Runs
    BY <1>4 DEF RenameTables, TableInv, TypeOK, NamesHeld, Relations
  <2>2. rel'["orig"] = rel["ghost"] /\ rel'["old"] = rel["orig"] /\ rel["old"] # User
    BY <1>4 DEF RenameTables, TableInv, TypeOK, None, User
  <2> QED
    BY <1>1, <2>1, <2>2 DEF TableInv, UserTableKept
<1>5. CASE DropTable("old") /\ (opts[p].dropOld \/ opts[p].okToDrop)
  <2>1. rel'["orig"] = rel["orig"]
    BY <1>5 DEF DropTable, TableInv, TypeOK
  <2> QED
    BY <1>1, <1>2, <1>5, <2>1 DEF UserTableKept
<1>6. \/ rel'["orig"] = rel["orig"] /\ rel'["old"] = rel["old"]
      \/ RenameTables(p)
      \/ DropTable("old") /\ (opts[p].dropOld \/ opts[p].okToDrop)
  BY DEF RunStep, Migrate, cleanup, StartReplication, Fail, Start, ReadReplicaIdentity, TableInv,
         TypeOK, SetReplicaIdentityFull, DropExistingPublication, CreatePublication, TryAddChangelog,
         CheckSlot, DropExistingSlot, CreateSlot, DropExistingGhost, CreateGhostTable, AlterGhost,
         CreateChangelogTable, AddChangelogToPublication, FinishRowCopy, DropExistingOld,
         DropOldTable, DropChangelogTable, DropReplicationSlot, DropPublication,
         RestoreReplicaIdentity, CloseConnections, DropTable, tables
<1> QED
  BY <1>3, <1>4, <1>5, <1>6

LEMMA NextTableInv == TableInv /\ [Next]_vars => TableInv'
<1> SUFFICES ASSUME TableInv, [Next]_vars PROVE TableInv'
  OBVIOUS
<1>1. CASE UNCHANGED vars
  BY <1>1 DEF TableInv, TypeOK, NamesHeld, UserTableKept, vars, runVars, tables, pubVars, slotVars
<1>2. ASSUME NEW p \in Runs, RunStep(p)
      PROVE  TableInv'
  <2>1. TypeOK /\ rel["orig"] # None
    BY DEF TableInv, NamesHeld
  <2>2. pubExists' \in BOOLEAN /\ slotGood' \in BOOLEAN
    BY <1>2, <2>1, NextBooleans
  <2>3. /\ pc' \in [Runs -> Steps] /\ opts' \in [Runs -> Options]
        /\ saved' \in [Runs -> {None} \cup {"DEFAULT", "NOTHING", "FULL", "INDEX"}]
        /\ stream' \in [Runs -> {"off", "connecting", "on"}]
    BY <1>2, <2>1, NextRunTypes
  <2>4. UserTableKept'
    BY <1>2, NextUserTableKept
  <2> QED
    BY <1>2, <2>2, <2>3, <2>4, NextTableTypes DEF TableInv, TypeOK
<1> QED
  BY <1>1, <1>2 DEF Next, RunStep

THEOREM TablesHeld == Spec => []TableInv
  BY InitTableInv, NextTableInv, PTL DEF Spec

\* The objects of any number of runs, one after the other or at once, keep
\* their types: no dangling name, no stream without a slot.
THEOREM TypeCorrect == Spec => []TypeOK
  BY TablesHeld, PTL DEF TableInv

\* However many runs end wherever, and even at once: the user's own table is
\* dropped only on demand, and after the original name has gone to another one.
THEOREM UserTableSafe == Spec => []UserTableKept
  BY TablesHeld, PTL DEF TableInv

-----------------------------------------------------------------------------
(***************************************************************************)
(* One run after the other.  Then a run in its setup is alone, and what it *)
(* has done so far is still so when it gets to the slot, to the row copy   *)
(* and to the renames.                                                     *)
(***************************************************************************)

OneAtATime == \A p, q \in Runs : p = q \/ Ended(p) \/ Ended(q)

Published  == {"pubLog", "findSlot", "dropSlot", "createSlot"}
LoggedFull == {"findPub", "createPub"} \cup Published
AlteredGhost == {"createLog", "addLog"} \cup Working
HasSlot    == {"dropGhost", "createGhost", "alterGhost"} \cup AlteredGhost
                \cup {"dropOldTable", "dropLog", "dropRunSlot"}

\* The slot sees every change because the identity was set and the table
\* published before, and the ghost table can take the original's name because
\* it was altered and filled before.
RunInv(p) ==
  /\ pc[p] \in LoggedFull => identity[rel["orig"]] = "FULL"
  /\ pc[p] \in Published => pubExists /\ rel["orig"] \in pub
  /\ pc[p] \in HasSlot => slot = p /\ slotGood
  /\ pc[p] \in AlteredGhost => rel["ghost"] \in altered
  /\ pc[p] \in {"dropOld", "swap"} => rel["ghost"] \in filled

SerialInv ==
  /\ TableInv
  /\ OneAtATime
  /\ OriginalTableIntact
  /\ \A p \in Runs : RunInv(p)

LEMMA InitSerialInv == Init => SerialInv
<1> SUFFICES ASSUME Init PROVE SerialInv
  OBVIOUS
<1>1. TableInv
  BY InitTableInv
<1>2. OneAtATime /\ OriginalTableIntact
  BY DEF Init, OneAtATime, Ended, OriginalTableIntact
<1>3. \A p \in Runs : RunInv(p)
  BY DEF Init, RunInv, LoggedFull, Published, HasSlot, AlteredGhost, Working
<1> QED
  BY <1>1, <1>2, <1>3 DEF SerialInv

\* The run that makes a step was alone, or is now: no other one is under way.
LEMMA Alone ==
  ASSUME SerialInv, ~Concurrent, NEW p \in Runs, RunStep(p), NEW q \in Runs, q # p
  PROVE  Ended(q) /\ pc'[q] = pc[q]
<1> USE DEF SerialInv, TableInv, TypeOK
<1>1. Ended(p) => \A r \in Runs : Ended(r)
  BY DEF RunStep, Migrate, cleanup, Step, Ended, Start, ReadReplicaIdentity,
         SetReplicaIdentityFull, DropExistingPublication, CreatePublication, TryAddChangelog,
         CheckSlot, DropExistingSlot, CreateSlot, DropExistingGhost, CreateGhostTable,
         AlterGhost, CreateChangelogTable, AddChangelogToPublication, FinishRowCopy,
         DropExistingOld, RenameTables, DropOldTable, DropChangelogTable, DropReplicationSlot,
         DropPublication, RestoreReplicaIdentity, CloseConnections, StartReplication, Fail
<1>2. pc'[q] = pc[q]
  BY DEF RunStep, Migrate, cleanup, Step, Start, ReadReplicaIdentity, SetReplicaIdentityFull,
         DropExistingPublication, CreatePublication, TryAddChangelog, CheckSlot,
         DropExistingSlot, CreateSlot, DropExistingGhost, CreateGhostTable, AlterGhost,
         CreateChangelogTable, AddChangelogToPublication, FinishRowCopy, DropExistingOld,
         RenameTables, DropOldTable, DropChangelogTable, DropReplicationSlot, DropPublication,
         RestoreReplicaIdentity, CloseConnections, StartReplication, Fail
<1> QED
  BY <1>1, <1>2 DEF OneAtATime

\* What RunInv says of a run at a step holds by the steps before it.
LEMMA NextRunInv ==
  ASSUME SerialInv, NEW p \in Runs, RunStep(p)
  PROVE  RunInv(p)'
<1> USE DEF SerialInv, TableInv, TypeOK, NamesHeld, Relations, RunInv, LoggedFull, Published,
            HasSlot, AlteredGhost, Working
<1>1. CASE Start(p)
  BY <1>1 DEF Start, Step, tables, pubVars, slotVars
<1>2. CASE ReadReplicaIdentity(p)
  BY <1>2 DEF ReadReplicaIdentity, Step, tables, pubVars, slotVars
<1>3. CASE SetReplicaIdentityFull(p)
  BY <1>3 DEF SetReplicaIdentityFull, Step, tables, pubVars, slotVars
<1>4. CASE DropExistingPublication(p)
  BY <1>4 DEF DropExistingPublication, Step, tables, pubVars, slotVars
<1>5. CASE CreatePublication(p)
  BY <1>5 DEF CreatePublication, Step, tables, pubVars, slotVars
<1>6. CASE TryAddChangelog(p)
  BY <1>6 DEF TryAddChangelog, Step, tables, pubVars, slotVars
<1>7. CASE CheckSlot(p)
  BY <1>7 DEF CheckSlot, Step, tables, pubVars, slotVars
<1>8. CASE DropExistingSlot(p)
  BY <1>8 DEF DropExistingSlot, Step, tables, pubVars, slotVars
<1>9. CASE CreateSlot(p)
  BY <1>9 DEF CreateSlot, Step, tables, pubVars, slotVars
<1>10. CASE DropExistingGhost(p)
  BY <1>10 DEF DropExistingGhost, DropTable, Step, tables, pubVars, slotVars
<1>11. CASE CreateGhostTable(p)
  BY <1>11 DEF CreateGhostTable, Step, tables, pubVars, slotVars
<1>12. CASE AlterGhost(p)
  BY <1>12 DEF AlterGhost, Step, tables, pubVars, slotVars
<1>13. CASE CreateChangelogTable(p)
  BY <1>13 DEF CreateChangelogTable, Step, tables, pubVars, slotVars
<1>14. CASE AddChangelogToPublication(p)
  BY <1>14 DEF AddChangelogToPublication, Step, tables, pubVars, slotVars
<1>15. CASE FinishRowCopy(p)
  BY <1>15 DEF FinishRowCopy, Step, tables, pubVars, slotVars
<1>16. CASE DropExistingOld(p)
  BY <1>16 DEF DropExistingOld, DropTable, Step, tables, pubVars, slotVars
<1>17. CASE RenameTables(p)
  BY <1>17 DEF RenameTables, Step, tables, pubVars, slotVars
<1>18. CASE DropOldTable(p)
  BY <1>18 DEF DropOldTable, DropTable, Step, tables, pubVars, slotVars
<1>19. CASE DropChangelogTable(p)
  BY <1>19 DEF DropChangelogTable, Step, tables, pubVars, slotVars
<1>20. CASE DropReplicationSlot(p)
  BY <1>20 DEF DropReplicationSlot, Step, tables, pubVars, slotVars
<1>21. CASE DropPublication(p)
  BY <1>21 DEF DropPublication, Step, tables, pubVars, slotVars
<1>22. CASE RestoreReplicaIdentity(p)
  BY <1>22 DEF RestoreReplicaIdentity, Step, tables, pubVars, slotVars
<1>23. CASE CloseConnections(p)
  BY <1>23 DEF CloseConnections, Disconnect, Step, tables, pubVars, slotVars
<1>24. CASE StartReplication(p)
  BY <1>24 DEF StartReplication, tables, pubVars, slotVars
<1>25. CASE Fail(p)
  BY <1>25 DEF Fail, Disconnect, tables, pubVars, slotVars
<1> QED
  BY <1>1, <1>2, <1>3, <1>4, <1>5, <1>6, <1>7, <1>8, <1>9, <1>10, <1>11, <1>12, <1>13, <1>14,
     <1>15, <1>16, <1>17, <1>18, <1>19, <1>20, <1>21, <1>22, <1>23, <1>24, <1>25
  DEF RunStep, Migrate, cleanup

LEMMA NextOriginalTableIntact ==
  ASSUME SerialInv, NEW p \in Runs, RunStep(p)
  PROVE  OriginalTableIntact'
<1> USE DEF SerialInv, TableInv, TypeOK
<1>1. CASE RenameTables(p)
  <2>1. rel["ghost"] \in altered /\ rel["ghost"] \in filled
    BY <1>1 DEF RenameTables, Step, RunInv, AlteredGhost, Working
  <2>2. rel'["orig"] = rel["ghost"] /\ altered' = altered /\ filled' = filled
    BY <1>1 DEF RenameTables
  <2> QED
    BY <2>1, <2>2 DEF OriginalTableIntact
<1>2. CASE ~RenameTables(p)
  <2>1. rel'["orig"] = rel["orig"] /\ altered \subseteq altered' /\ filled \subseteq filled'
    BY <1>2 DEF RunStep, Migrate, cleanup, tables, DropTable, Start, ReadReplicaIdentity,
           SetReplicaIdentityFull, DropExistingPublication, CreatePublication, TryAddChangelog,
           CheckSlot, DropExistingSlot, CreateSlot, DropExistingGhost, CreateGhostTable,
           AlterGhost, CreateChangelogTable, AddChangelogToPublication, FinishRowCopy,
           DropExistingOld, DropOldTable, DropChangelogTable, DropReplicationSlot,
           DropPublication, RestoreReplicaIdentity, CloseConnections, StartReplication, Fail
  <2> QED
    BY <2>1 DEF OriginalTableIntact
<1> QED
  BY <1>1, <1>2

LEMMA NextSerialInv == SerialInv /\ ~Concurrent /\ [Next]_vars => SerialInv'
<1> SUFFICES ASSUME SerialInv, ~Concurrent, [Next]_vars PROVE SerialInv'
  OBVIOUS
<1>0. TableInv'
  BY NextTableInv DEF SerialInv
<1>1. CASE UNCHANGED vars
  BY <1>0, <1>1 DEF SerialInv, OneAtATime, Ended, OriginalTableIntact, RunInv, vars, runVars,
                    tables, pubVars, slotVars
<1>2. ASSUME NEW p \in Runs, RunStep(p)
      PROVE  SerialInv'
  <2>1. \A q \in Runs \ {p} : Ended(q) /\ pc'[q] = pc[q]
    BY <1>2, Alone
  <2>2. \A q \in Runs \ {p} : Ended(q)'
    BY <2>1 DEF Ended
  <2>3. \A q \in Runs \ {p} : RunInv(q)'
    BY <2>1 DEF Ended, RunInv, LoggedFull, Published, HasSlot, AlteredGhost, Working
  <2>4. OneAtATime'
    BY <2>2 DEF OneAtATime
  <2> QED
    BY <1>0, <1>2, <2>3, <2>4, NextRunInv, NextOriginalTableIntact DEF SerialInv
<1> QED
  BY <1>1, <1>2 DEF Next, RunStep

LEMMA Serial == ASSUME ~Concurrent PROVE Spec => []SerialInv
  BY InitSerialInv, NextSerialInv, PTL DEF Spec

\* Wherever the runs end, in whatever order of failures and restarts, the
\* original name bears the user's table or a filled and altered copy of it.
THEOREM OriginalTableSafe == ASSUME ~Concurrent PROVE Spec => []OriginalTableIntact
  BY Serial, PTL DEF SerialInv

\* Every run that copies streams from a slot of its own that was made after
\* the table was published with full old tuples, whatever earlier runs left.
THEOREM SlotComplete == ASSUME ~Concurrent PROVE Spec => []SlotSeesEveryChange
<1>1. SerialInv => SlotSeesEveryChange
  BY DEF SerialInv, RunInv, SlotSeesEveryChange, HasSlot, AlteredGhost
<1> QED
  BY <1>1, Serial, PTL
=============================================================================
