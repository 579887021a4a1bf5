-------------------------- MODULE IdentityRefinement --------------------------
(***************************************************************************)
(* The identity service implements Delegation: a row is a grant, and the   *)
(* operations it grants are those its scopes cover.                        *)
(***************************************************************************)
EXTENDS IdentityService

(* What the requests that are not refused outright ask for. *)
AsksBar == {Authority(AllScopes(req)) : req \in {r \in Requests : Acceptable(r)}}

GrantOf(t) ==
  IF Exists(t)
    THEN [root |-> tasks[t].chain[1].id, line |-> TasksOf(tasks[t].chain),
          operations |-> Authority(tasks[t].scopes), depth |-> tasks[t].maxDepth]
    ELSE Missing

grantsBar == [t \in TaskIDs |-> GrantOf(t)]

heldBar == {k.sub : k \in issued}

D == INSTANCE Delegation
       WITH Operations <- Operation, Asks <- AsksBar, NoGrant <- Missing,
            grants <- grantsBar, held <- heldBar, revoked <- revocations

ASSUME GrantAssumption == Missing \notin D!Grant

(* Every step of the service is a step of Delegation or leaves the grants, *)
(* the credentials held and the revocations alone: CreateTask's insert at  *)
(* service.go:185 is the delegation, RevokeTask's commit the revocation.   *)
ImplementsDelegation == D!Spec

(* What a task's scopes permit, operation by operation, every task above   *)
(* it permits too, although the code only ever compares the texts of a     *)
(* scope and of one of the parent's (scopes.go:43-78, service.go:97).      *)
OperationsOnlyShrink == D!AuthorityOnlyShrinks
===============================================================================
