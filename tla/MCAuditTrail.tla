----------------------------- MODULE MCAuditTrail -----------------------------
(***************************************************************************)
(* Instance of AuditTrail for TLC.                                         *)
(***************************************************************************)
EXTENDS AuditTrail, TLC

CONSTANTS t1, t2

Interchangeable == Permutations(Emits)

About(event, task, texts) == [event |-> event, task |-> task, texts |-> texts]

(* Two tasks of one human, and a second one whose name begins like hers. *)
MCSubjects ==
  {About("task.created", t1, {"human:ann"}),
   About("tool.invoked", t2, {"human:ann", "human:anna"})}

Query(task, event, authorizer, within, limit) ==
  [task |-> task, event |-> event, authorizer |-> authorizer, within |-> within,
   limit |-> limit]

Tail(limit) == Query(Unset, Unset, Unset, Unset, limit)

(* Durations below, of and above a second; each field set and unset. *)
MCFilters ==
  {Query(Unset, Unset, Unset, within, 0) : within \in {1, 2, 3}}
    \cup {Query(t1, Unset, Unset, 1, 2), Query(Unset, "tool.invoked", Unset, 2, 1),
          Query(Unset, Unset, "human:ann", 3, 2)}
    \cup {Tail(1), Tail(2)}
===============================================================================
