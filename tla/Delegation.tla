------------------------------ MODULE Delegation ------------------------------
(***************************************************************************)
(* What the identity service promises, without rows, tokens, clocks or     *)
(* concurrent calls.  A human grants a task a set of operations; a task    *)
(* passes on to a new task a part of what it has, as long as it has depth  *)
(* left; a credential is handed out for a granted task only; a revocation  *)
(* is never taken back.                                                    *)
(***************************************************************************)
EXTENDS Integers

CONSTANTS TaskIDs, Humans,
          Operations,          \* what a holder may do, one by one
          Asks,                \* the sets of operations a request may name
          MaxDelegationDepth,
          NoGrant

VARIABLES grants,   \* [TaskIDs -> Grant \cup {NoGrant}]
          held,     \* the tasks whose credential somebody received
          revoked   \* the tasks whose credential is refused

vars == <<grants, held, revoked>>

(* line holds the task itself and every task above it. *)
Grant == [root : Humans, line : SUBSET TaskIDs, operations : SUBSET Operations,
          depth : Int]

Granted(t) == grants[t] # NoGrant

Record(t, grant) == grants' = [grants EXCEPT ![t] = grant]

Authorize(h, t, operations) ==
  /\ ~Granted(t)
  /\ Record(t, [root |-> h, line |-> {t}, operations |-> operations,
                depth |-> MaxDelegationDepth])
  /\ UNCHANGED <<held, revoked>>

Delegate(p, t, operations) ==
  /\ Granted(p) /\ ~Granted(t)
  /\ grants[p].depth > 0
  /\ operations \subseteq grants[p].operations
  /\ Record(t, [root |-> grants[p].root, line |-> grants[p].line \cup {t},
                operations |-> operations, depth |-> grants[p].depth - 1])
  /\ UNCHANGED <<held, revoked>>

HandOut(t) ==
  /\ Granted(t)
  /\ held' = held \cup {t}
  /\ UNCHANGED <<grants, revoked>>

Revoke(t) ==
  /\ Granted(t)
  /\ revoked' = revoked \cup {t}
  /\ UNCHANGED <<grants, held>>

Init ==
  /\ grants = [t \in TaskIDs |-> NoGrant]
  /\ held = {}
  /\ revoked = {}

Next ==
  \E t \in TaskIDs :
    \/ \E h \in Humans, operations \in Asks : Authorize(h, t, operations)
    \/ \E p \in TaskIDs, operations \in Asks : Delegate(p, t, operations)
    \/ HandOut(t)
    \/ Revoke(t)

Spec == Init /\ [][Next]_vars

(* Nobody may do what a task above it, however far, may not: that passing  *)
(* on a part, step by step, adds up to this is the point of delegation.    *)
AuthorityOnlyShrinks ==
  \A t \in TaskIDs : Granted(t) =>
    \A a \in grants[t].line :
      Granted(a) /\ grants[t].operations \subseteq grants[a].operations
==============================================================================
