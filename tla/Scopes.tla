------------------------------- MODULE Scopes -------------------------------
(***************************************************************************)
(* The permission algebra of pkg/identity/scopes.go and of the gateway's   *)
(* scope check.  A scope string is either malformed, or three segments     *)
(* tool:resource:action, each a name or the wildcard.  The strings         *)
(* ParseScope rejects are the members of Malformed: nothing in the program *)
(* looks inside one, so they are opaque values.                            *)
(***************************************************************************)
CONSTANTS Names,       \* the segments [a-z0-9-]+ that occur
          Wild,        \* the segment "*"
          Malformed    \* scope strings that do not parse

Segment == Names \cup {Wild}

Scope == [tool : Segment, resource : Segment, action : Segment]

ScopeString == Scope \cup Malformed

ASSUME ScopesAssumption ==
  /\ Wild \notin Names
  /\ Malformed \cap Scope = {}

(* ParseScope succeeds. *)
WellFormed(s) == s \in Scope

CoversSegment(parent, child) == child = parent \/ parent = Wild

Narrows(child, parent) ==
  /\ WellFormed(child)
  /\ WellFormed(parent)
  /\ CoversSegment(parent.tool, child.tool)
  /\ CoversSegment(parent.resource, child.resource)
  /\ CoversSegment(parent.action, child.action)

(* ValidateScopes returns no error. *)
ValidateScopes(requested, parent) ==
  \A r \in requested : WellFormed(r) /\ \E p \in parent : Narrows(r, p)

(* The per-request check of the gateway. *)
hasScope(taskScopes, required) ==
  \E s \in taskScopes : Narrows(required, s)

(* deduplicateScopes makes a list a set kept in sorted order, so two       *)
(* deduplicated lists are the same list exactly when the sets are equal.   *)
scopeSetsEqual(a, b) == a = b

-----------------------------------------------------------------------------
(***************************************************************************)
(* What a scope list means, independently of how it is written: the        *)
(* concrete operations it lets its holder perform.                         *)
(***************************************************************************)
Operation == [tool : Names, resource : Names, action : Names]

Authority(scopes) == {op \in Operation : hasScope(scopes, op)}
=============================================================================
