---------------------------- MODULE ScopesProofs ----------------------------
(***************************************************************************)
(* The laws of the scope algebra, for any set of segment names.            *)
(***************************************************************************)
EXTENDS Scopes, TLAPS

(* A well-formed scope narrows itself (scopes.go:45-57). *)
LEMMA NarrowsReflexive ==
  ASSUME NEW s \in Scope
  PROVE  Narrows(s, s)
  BY DEF Narrows, WellFormed, CoversSegment

(* Narrowing composes, so that a task two delegations down is still within *)
(* what the first one had (scopes.go:45-57).                               *)
LEMMA NarrowsTransitive ==
  ASSUME NEW a, NEW b, NEW c, Narrows(a, b), Narrows(b, c)
  PROVE  Narrows(a, c)
  BY DEF Narrows, CoversSegment

(* Asking for a task's own scopes is always allowed (scopes.go:61-78). *)
LEMMA ValidateReflexive ==
  ASSUME NEW A \in SUBSET Scope
  PROVE  ValidateScopes(A, A)
<1> SUFFICES ASSUME NEW r \in A
             PROVE  WellFormed(r) /\ Narrows(r, r)
  BY DEF ValidateScopes
<1> QED
  BY NarrowsReflexive DEF WellFormed

(* The check of one parent at a time adds up along a chain                 *)
(* (scopes.go:61-78, called at service.go:97).                             *)
LEMMA ValidateTransitive ==
  ASSUME NEW A, NEW B, NEW C, ValidateScopes(A, B), ValidateScopes(B, C)
  PROVE  ValidateScopes(A, C)
<1> SUFFICES ASSUME NEW r \in A
             PROVE  WellFormed(r) /\ \E p \in C : Narrows(r, p)
  BY DEF ValidateScopes
<1>1. PICK q \in B : Narrows(r, q)
  BY DEF ValidateScopes
<1>2. PICK p \in C : Narrows(q, p)
  BY DEF ValidateScopes
<1>3. Narrows(r, p)
  BY <1>1, <1>2, NarrowsTransitive
<1> QED
  BY <1>3 DEF ValidateScopes

(* Scopes that pass ValidateScopes permit no operation the parent's scopes *)
(* do not: the check on scope text at delegation time (scopes.go:61-78)    *)
(* and the check on a call at the gateway (server.go:200-207) agree.       *)
THEOREM NarrowingGivesNoAuthority ==
  ASSUME NEW A, NEW B, ValidateScopes(A, B)
  PROVE  Authority(A) \subseteq Authority(B)
<1> SUFFICES ASSUME NEW op \in Operation, hasScope(A, op)
             PROVE  hasScope(B, op)
  BY DEF Authority
<1>1. PICK s \in A : Narrows(op, s)
  BY DEF hasScope
<1>2. PICK p \in B : Narrows(s, p)
  BY DEF ValidateScopes
<1>3. Narrows(op, p)
  BY <1>1, <1>2, NarrowsTransitive
<1> QED
  BY <1>3 DEF hasScope

(* For a single scope the check is exact as well: as soon as there are two *)
(* names, a scope narrows another exactly when it permits no more.  For    *)
(* lists only the direction above holds: the union of several scopes may   *)
(* cover one that none of them covers (scopes.go:43-57).                   *)
THEOREM NarrowsIsExact ==
  ASSUME NEW c \in Scope, NEW p \in Scope,
         \A n \in Names : \E m \in Names : m # n, Names # {}
  PROVE  Narrows(c, p) <=> Authority({c}) \subseteq Authority({p})
<1>1. ASSUME Narrows(c, p)
      PROVE  Authority({c}) \subseteq Authority({p})
  <2>1. ValidateScopes({c}, {p})
    BY <1>1 DEF ValidateScopes, WellFormed
  <2> QED
    BY <2>1, NarrowingGivesNoAuthority
<1>2. ASSUME Authority({c}) \subseteq Authority({p})
      PROVE  Narrows(c, p)
  <2> DEFINE Escapes(child, parent, n) ==
               n \in Names /\ CoversSegment(child, n)
                 /\ (CoversSegment(parent, n) => CoversSegment(parent, child))
  <2>1. ASSUME NEW child \in Segment, NEW parent \in Segment
        PROVE  \E n \in Names : Escapes(child, parent, n)
    BY ScopesAssumption DEF Segment, CoversSegment
  <2>2. PICK nt \in Names : Escapes(c.tool, p.tool, nt)
    BY <2>1 DEF Scope
  <2>3. PICK nr \in Names : Escapes(c.resource, p.resource, nr)
    BY <2>1 DEF Scope
  <2>4. PICK na \in Names : Escapes(c.action, p.action, na)
    BY <2>1 DEF Scope
  <2> DEFINE op == [tool |-> nt, resource |-> nr, action |-> na]
  <2>5. op \in Operation /\ op \in Scope
    BY DEF Operation, Scope, Segment
  <2>6. Narrows(op, c)
    BY <2>2, <2>3, <2>4, <2>5 DEF Narrows, WellFormed
  <2>7. op \in Authority({c})
    BY <2>5, <2>6 DEF Authority, hasScope
  <2>8. Narrows(op, p)
    BY <1>2, <2>7 DEF Authority, hasScope
  <2> QED
    BY <2>2, <2>3, <2>4, <2>8 DEF Narrows, WellFormed
<1> QED
  BY <1>1, <1>2
=============================================================================
