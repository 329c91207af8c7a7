---------------------------- MODULE OnlineTable ----------------------------
(***************************************************************************)
(* What an online schema change promises to the application: one table     *)
(* under the original name, written by the application only.  The name is  *)
(* handed from the old relation to the new one at most once, and the rows  *)
(* found under it are the same before and after if the application was     *)
(* quiet at the time, all but those excepted.  A row that is excepted      *)
(* stays so, and none is added once the name is handed over.               *)
(***************************************************************************)
EXTENDS GhostRows

CONSTANT InitTables

VARIABLES content,   \* the rows found under the original name
          relation,  \* which relation bears that name: "old" or "new"
          quiet,     \* is the application stopped for the hand-over?
          excepted   \* rows the promise is not made for

otVars == <<content, relation, quiet, excepted>>

OTInit ==
  content \in InitTables /\ relation = "old" /\ quiet \in BOOLEAN /\ excepted = {}

\* The table goes on without a row of the promise.
Except == excepted \subseteq excepted' /\ excepted' \subseteq Keys

\* One statement of the application: at most two keys change (the key-changing
\* UPDATE), and never after the hand-over as far as the model goes.
ClientWrite ==
  /\ relation = "old"
  /\ content' \in Tables
  /\ \E j, k \in Keys : \A i \in Keys \ {j, k} : content'[i] = content[i]
  /\ Except
  /\ UNCHANGED <<relation, quiet>>

\* The migration gives up a row.
GiveUp == relation = "old" /\ Except /\ UNCHANGED <<content, relation, quiet>>

HandOver ==
  /\ relation = "old"
  /\ relation' = "new"
  /\ content' \in Tables
  /\ quiet => \A k \in Keys \ excepted : content'[k] = content[k]
  /\ UNCHANGED <<quiet, excepted>>

OTNext == ClientWrite \/ GiveUp \/ HandOver

OTSpec == OTInit /\ [][OTNext]_otVars
=============================================================================
