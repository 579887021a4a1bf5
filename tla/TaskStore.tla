------------------------------ MODULE TaskStore ------------------------------
(***************************************************************************)
(* The task tables of pkg/store/sqlite: tasks, one row per task id, and    *)
(* revocations, the index the credential check looks a task up in.  Each   *)
(* method is one SQL statement or one transaction, so it is one step of    *)
(* the system; its callers (the gateway's request goroutines and command   *)
(* line processes on the same file) interleave between methods.            *)
(*                                                                         *)
(* A method that changes the tables is an action over them here.  Every    *)
(* one of them may also fail and leave the tables as they were (context    *)
(* cancelled, database locked, disk full): callers have a step for that.   *)
(***************************************************************************)
CONSTANTS TaskIDs,     \* "task:<uuidv7>" identifiers
          Missing      \* what a lookup yields when there is no row

VARIABLES tasks,       \* tasks table: [TaskIDs -> row \cup {Missing}]
          revocations  \* revocations table: the ids it has a row for

storeVars == <<tasks, revocations>>

ASSUME StoreAssumption == Missing \notin TaskIDs

TaskStatus == {"active", "completed", "failed", "expired", "revoked"}

StoreInit == tasks = [t \in TaskIDs |-> Missing] /\ revocations = {}

Exists(t) == tasks[t] # Missing

(* INSERT INTO tasks: refused when the primary key is taken. *)
InsertTask(t, row) ==
  /\ ~Exists(t)
  /\ tasks' = [tasks EXCEPT ![t] = row]
  /\ UNCHANGED revocations

IsRevoked(t) == t \in revocations

(* Mutant: the index alone is written. *)
RevokeIndexOnly(t) ==
  /\ Exists(t)
  /\ revocations' = revocations \cup {t}
  /\ UNCHANGED tasks

(* UPDATE tasks and upsert into revocations, in one transaction; no row    *)
(* updated means ErrTaskNotFound and a rollback.                           *)
RevokeTask(t) ==
  /\ Exists(t)
  /\ tasks' = [tasks EXCEPT ![t] = [@ EXCEPT !.status = "revoked"]]
  /\ revocations' = revocations \cup {t}
==============================================================================
