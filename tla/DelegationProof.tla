--------------------------- MODULE DelegationProof ---------------------------
(***************************************************************************)
(* Delegation, what it is and what becomes of it in time.  The identity    *)
(* service implements Delegation: the insert of a row is the one step that *)
(* grants, and it grants no more than the parent had.  A revocation or an  *)
(* expiry ends it, but for the calls under way.  The dates that            *)
(* CreateTask's three clock reads leave in the rows are in order: a row's  *)
(* never change (RowsKept), and each read bounds what the next one leaves. *)
(***************************************************************************)
EXTENDS IdentityProof

(* What a row grants never changes. *)
LEMMA GrantKept ==
  ASSUME RowsKept, NEW t \in TaskIDs, Exists(t)
  PROVE  GrantOf(t)' = GrantOf(t)
<1>1. Exists(t)' /\ SameTask(tasks[t], tasks'[t])
  BY DEF RowsKept
<1> QED
  BY <1>1 DEF GrantOf, SameTask

LEMMA GrantsUnchanged ==
  ASSUME RowsKept, \A t \in TaskIDs : Exists(t)' => Exists(t)
  PROVE  grantsBar' = grantsBar
<1> SUFFICES ASSUME NEW t \in TaskIDs
             PROVE  GrantOf(t)' = GrantOf(t)
  BY DEF grantsBar
<1>1. CASE Exists(t)
  BY <1>1, GrantKept
<1>2. CASE ~Exists(t)
  BY <1>2 DEF GrantOf
<1> QED
  BY <1>1, <1>2

(* A row in the table is a grant, and an absent one is none. *)
LEMMA GrantedMeansExists ==
  ASSUME IInv, NEW t \in TaskIDs
  PROVE  /\ D!Granted(t) <=> Exists(t)
         /\ grantsBar[t] = GrantOf(t)
<1>1. grantsBar[t] = GrantOf(t)
  BY DEF grantsBar
<1>2. ASSUME Exists(t)
      PROVE  GrantOf(t) # Missing
  <2>1. /\ tasks[t] \in TaskRecord
        /\ tasks[t].chain[1].id \in Humans
        /\ TasksOf(tasks[t].chain) \subseteq TaskIDs
    BY <1>2 DEF IInv, TypeOK, ProvenanceChain, Exists
  <2>2. Authority(tasks[t].scopes) \subseteq Operation
    BY DEF Authority
  <2>3. GrantOf(t) \in D!Grant
    BY <1>2, <2>1, <2>2 DEF GrantOf, D!Grant, TaskRecord
  <2> QED
    BY <2>3, GrantAssumption
<1>3. ~Exists(t) => GrantOf(t) = Missing
  BY DEF GrantOf
<1> QED
  BY <1>1, <1>2, <1>3 DEF D!Granted

LEMMA InitRefines == Init => D!Init
  BY DEF Init, StoreInit, D!Init, grantsBar, GrantOf, Exists, heldBar

(* The insert is Authorize for a root task, Delegate for another           *)
(* (service.go:168-187).                                                   *)
LEMMA PersistRefines ==
  ASSUME IInv, IInv', NEW c \in Callers, Persist(c), RowsKept
  PROVE  D!Next
<1>1. PICK k, p, t : k = calls[c].claims /\ p = calls[c].parent /\ t = k.sub
  OBVIOUS
<1>2. k \in TaskClaims /\ p \in Identities /\ t \in TaskIDs
  BY <1>1, StageTypes DEF IInv, Persist, Signed, TaskClaims
<1>3. WellBorn(p, t, k.scopes, k.chain, k.maxDepth) /\ Requested(k.scopes)
  BY <1>1 DEF IInv, Persist, At, CallsSound, CallSound, ScopesRequested
<1>4. /\ ~Exists(t)
      /\ tasks'[t] = RecordOf(p, k)
      /\ UNCHANGED <<revocations, issued>>
      /\ \A u \in TaskIDs : u # t => tasks'[u] = tasks[u]
  BY <1>1, <1>2 DEF Persist, InsertTask, IInv, TypeOK
<1>5. Exists(t)'
  <2>1. RecordOf(p, k) \in TaskRecord
    BY <1>2 DEF RecordOf, TaskRecord, TaskStatus, TaskClaims
  <2> QED
    BY <1>4, <2>1, RecordAssumption DEF Exists
<1>6. PICK g : g = [root |-> k.chain[1].id, line |-> TasksOf(k.chain),
                    operations |-> Authority(k.scopes), depth |-> k.maxDepth]
  OBVIOUS
<1>7. grantsBar' = [grantsBar EXCEPT ![t] = g]
  <2>1. GrantOf(t)' = g
    BY <1>4, <1>5, <1>6 DEF GrantOf, RecordOf, TasksOf
  <2>2. \A u \in TaskIDs : u # t => GrantOf(u)' = GrantOf(u)
    BY <1>4 DEF GrantOf, Exists
  <2> QED
    BY <1>2, <2>1, <2>2 DEF grantsBar
<1>8. heldBar' = heldBar /\ revocations' = revocations
  BY <1>4 DEF heldBar
<1>9. Authority(k.scopes) \in AsksBar
  BY <1>3 DEF Requested, AsksBar
<1>10. ~D!Granted(t)
  BY <1>2, <1>4, GrantedMeansExists
<1>11. CASE p \in Humans
  <2>1. Len(k.chain) = 2 /\ k.chain[1].id = p /\ k.chain[2].id = t
          /\ k.maxDepth = MaxDelegationDepth
    BY <1>3, <1>11, IdentityAssumption DEF WellBorn
  <2>2. TasksOf(k.chain) = {t}
    BY <2>1 DEF TasksOf
  <2>3. D!Authorize(p, t, Authority(k.scopes))
    BY <1>6, <1>7, <1>8, <1>10, <2>1, <2>2 DEF D!Authorize, D!Record
  <2> QED
    BY <1>2, <1>9, <1>11, <2>3 DEF D!Next
<1>12. CASE p \in TaskIDs
  <2>1. /\ Exists(p)
        /\ tasks[p].maxDepth > 0
        /\ k.maxDepth = tasks[p].maxDepth - 1
        /\ ValidateScopes(k.scopes, tasks[p].scopes)
        /\ k.chain = Append(tasks[p].chain, k.chain[Len(k.chain)])
        /\ k.chain[Len(k.chain)].id = t
        /\ k.chain # <<>>
    BY <1>3, <1>12, IdentityAssumption DEF WellBorn
  <2>2. /\ tasks[p].chain \in Seq(DelegationLink)
        /\ k.chain[Len(k.chain)] \in DelegationLink
        /\ Len(tasks[p].chain) >= 2
    <3>1. tasks[p] \in TaskRecord
      BY <1>12, <2>1 DEF IInv, TypeOK, Exists
    <3>2. tasks[p].chain \in Seq(DelegationLink)
      BY <3>1 DEF TaskRecord
    <3>3. k.chain \in Seq(DelegationLink)
      BY <1>2 DEF TaskClaims
    <3>4. k.chain[Len(k.chain)] \in DelegationLink
      BY <2>1, <3>3
    <3>5. Len(tasks[p].chain) >= 2
      BY <1>12, <2>1 DEF IInv, ProvenanceChain
    <3> QED
      BY <3>2, <3>4, <3>5
  <2>3. PICK old : old = tasks[p].chain
    OBVIOUS
  <2>4. /\ Len(k.chain) = Len(old) + 1
        /\ \A i \in 1..Len(old) : k.chain[i] = old[i]
        /\ Len(old) \in Nat /\ Len(old) >= 2
    BY <2>1, <2>2, <2>3, GrownChain
  <2>5. k.chain[1] = old[1]
    BY <2>4
  <2>6. TasksOf(k.chain) = TasksOf(old) \cup {t}
    <3>1. 2..Len(k.chain) = (2..Len(old)) \cup {Len(k.chain)}
      BY <2>4
    <3>2. \A i \in 2..Len(old) : k.chain[i] = old[i]
      BY <2>4
    <3>3. ASSUME NEW a \in TasksOf(k.chain)
          PROVE  a \in TasksOf(old) \cup {t}
      <4>1. PICK i \in 2..Len(k.chain) : a = k.chain[i].id
        BY <3>3 DEF TasksOf
      <4>2. CASE i \in 2..Len(old)
        BY <4>1, <4>2, <3>2 DEF TasksOf
      <4>3. CASE i = Len(k.chain)
        BY <4>1, <4>3, <2>1
      <4> QED
        BY <4>2, <4>3, <3>1
    <3>4. TasksOf(old) \subseteq TasksOf(k.chain)
      BY <3>1, <3>2 DEF TasksOf
    <3>5. t \in TasksOf(k.chain)
      <4>1. Len(k.chain) \in 2..Len(k.chain)
        BY <2>4
      <4> QED
        BY <4>1, <2>1 DEF TasksOf
    <3> QED
      BY <3>3, <3>4, <3>5
  <2>7. grantsBar[p] = [root |-> old[1].id, line |-> TasksOf(old),
                        operations |-> Authority(tasks[p].scopes),
                        depth |-> tasks[p].maxDepth]
    BY <1>12, <2>1, <2>3, GrantedMeansExists DEF GrantOf
  <2>8. Authority(k.scopes) \subseteq grantsBar[p].operations
    BY <2>1, <2>7, NarrowingGivesNoAuthority
  <2>9. g = [root |-> grantsBar[p].root, line |-> grantsBar[p].line \cup {t},
             operations |-> Authority(k.scopes), depth |-> grantsBar[p].depth - 1]
    BY <1>6, <2>1, <2>5, <2>6, <2>7
  <2>10. D!Granted(p) /\ grantsBar[p].depth > 0
    BY <1>12, <2>1, <2>7, GrantedMeansExists
  <2>11. D!Delegate(p, t, Authority(k.scopes))
    BY <1>7, <1>8, <1>10, <2>8, <2>9, <2>10 DEF D!Delegate, D!Record
  <2> QED
    BY <1>2, <1>9, <1>12, <2>11 DEF D!Next
<1> QED
  BY <1>2, <1>11, <1>12 DEF Identities

LEMMA StepRefines ==
  ASSUME IInv, IInv', [Next]_vars
  PROVE  [D!Next]_(D!vars)
<1>1. TypeOK /\ RowsKept
  BY StepKeepsRows DEF IInv
<1>2. ASSUME UNCHANGED <<tasks, revocations, issued>>
      PROVE  UNCHANGED D!vars
  BY <1>2 DEF D!vars, grantsBar, GrantOf, Exists, TasksOf, heldBar
<1>3. ASSUME NEW c \in Callers, Persist(c)
      PROVE  D!Next
  BY <1>1, <1>3, PersistRefines
<1>4. ASSUME NEW c \in Callers, Deliver(c)
      PROVE  D!Next
  <2>1. PICK k : k = calls[c].claims
    OBVIOUS
  <2>2. k \in TaskClaims /\ OnRecord(k)
    BY <1>1, <1>4, <2>1, StageTypes
       DEF Deliver, Persisted, At, IInv, CallsSound, CallSound
  <2>3. k.sub \in TaskIDs /\ D!Granted(k.sub)
    BY <2>2, GrantedMeansExists DEF OnRecord, TaskClaims
  <2>4. heldBar' = heldBar \cup {k.sub}
    BY <1>4, <2>1 DEF Deliver, heldBar
  <2>5. grantsBar' = grantsBar /\ revocations' = revocations
    BY <1>4 DEF Deliver, grantsBar, GrantOf, Exists, TasksOf
  <2>6. D!HandOut(k.sub)
    BY <2>3, <2>4, <2>5 DEF D!HandOut
  <2> QED
    BY <2>3, <2>6 DEF D!Next
<1>5. ASSUME NEW t \in TaskIDs, Revoke(t)
      PROVE  D!Next
  <2>1. \A u \in TaskIDs : Exists(u)' => Exists(u)
    BY <1>1, <1>5 DEF Revoke, RevokeTask, Exists, TypeOK
  <2>2. grantsBar' = grantsBar
    BY <1>1, <2>1, GrantsUnchanged
  <2>3. D!Granted(t) /\ revocations' = revocations \cup {t} /\ heldBar' = heldBar
    BY <1>5, GrantedMeansExists DEF Revoke, RevokeTask, heldBar
  <2>4. D!Revoke(t)
    BY <2>2, <2>3 DEF D!Revoke
  <2> QED
    BY <2>4 DEF D!Next
<1> QED
  BY <1>2, <1>3, <1>4, <1>5
     DEF Next, CreateTask, Proceed, vars, AdmitRoot, AdmitChild, ClampTTL,
         RejectExpiredParent, ExtendChain, Sign, Abandon, Tick

(* However its calls, revocations and crashes interleave, CreateTask looks *)
(* to its callers like one atomic delegation of a part of the parent's     *)
(* authority (service.go:55-221).                                          *)
THEOREM ServiceImplementsDelegation == Spec => ImplementsDelegation
<1>1. Init => D!Init
  BY InitRefines
<1>2. IInv /\ IInv' /\ [Next]_vars => [D!Next]_(D!vars)
  BY StepRefines
<1> QED
  BY <1>1, <1>2, Invariance, PTL DEF Spec, ImplementsDelegation, D!Spec

(* No operation is permitted to a task and not to every task above it: the *)
(* textual checks along a line (scopes.go:61-78, service.go:97) compose    *)
(* into containment of what the scopes mean.                               *)
THEOREM MeaningOnlyShrinks == Spec => []OperationsOnlyShrink
<1>1. ASSUME IInv, NEW t \in TaskIDs, D!Granted(t), NEW a \in grantsBar[t].line
      PROVE  D!Granted(a) /\ grantsBar[t].operations \subseteq grantsBar[a].operations
  <2>1. Exists(t) /\ grantsBar[t] = GrantOf(t)
    BY <1>1, GrantedMeansExists
  <2>2. a \in TasksOf(tasks[t].chain)
    BY <1>1, <2>1 DEF GrantOf
  <2>3. a \in TaskIDs /\ Exists(a) /\ ValidateScopes(tasks[t].scopes, tasks[a].scopes)
    BY <1>1, <2>1, <2>2 DEF IInv, NoEscalation, ProvenanceChain, TypeOK, Exists
  <2>4. D!Granted(a) /\ grantsBar[a] = GrantOf(a)
    BY <1>1, <2>3, GrantedMeansExists
  <2>5. Authority(tasks[t].scopes) \subseteq Authority(tasks[a].scopes)
    BY <2>3, NarrowingGivesNoAuthority
  <2> QED
    BY <2>1, <2>3, <2>4, <2>5 DEF GrantOf
<1>2. IInv => OperationsOnlyShrink
  BY <1>1 DEF OperationsOnlyShrink, D!AuthorityOnlyShrinks
<1> QED
  BY <1>2, Invariance, PTL

-----------------------------------------------------------------------------
(***************************************************************************)
(* What ends delegation.  A revocation is seen where a call reads its      *)
(* parent, an expiry where it reads the clock: the calls on a task that    *)
(* are past the one place, or past the other, can only become fewer.       *)
(***************************************************************************)
Checked == {"clamped", "chained", "signed"}

Started == {"admitted"} \cup Checked

(* The calls on p in one of some stages. *)
InStage(p, stages) == {c \in Callers : calls[c].pc \in stages /\ calls[c].parent = p}

(* What one step may do to those calls and to the children of p. *)
Frozen(p, stages) ==
  /\ InStage(p, stages)' \subseteq InStage(p, stages)
  /\ Children(p)' # Children(p) => InStage(p, stages)' # InStage(p, stages)

LEMMA StagesAre ==
  ASSUME NEW p
  PROVE  /\ PendingChildren(p) = InStage(p, Started)
         /\ TimelyChildren(p) = InStage(p, Checked)
         /\ PendingChildren(p)' = InStage(p, Started)'
         /\ TimelyChildren(p)' = InStage(p, Checked)'
  BY DEF PendingChildren, TimelyChildren, InStage, Started, Checked, At

(* A call that keeps its parent or is none of p's adds nothing. *)
LEMMA StageIsFrozen ==
  ASSUME TypeOK, NEW p, NEW stages, NEW c \in Callers, UNCHANGED tasks,
         NEW s, ToState(c, s),
         s.pc \in stages /\ s.parent = p =>
           calls[c].pc \in stages /\ calls[c].parent = p
  PROVE  Frozen(p, stages)
<1>1. Children(p)' = Children(p)
  BY DEF Children, Exists
<1>2. ASSUME NEW d \in InStage(p, stages)'
      PROVE  d \in InStage(p, stages)
  <2>1. CASE d = c
    BY <1>2, <2>1 DEF InStage, ToState, TypeOK
  <2>2. CASE d # c
    BY <1>2, <2>2 DEF InStage, ToState, TypeOK
  <2> QED
    BY <2>1, <2>2
<1> QED
  BY <1>1, <1>2 DEF Frozen

(* An insert of a child takes its call out of those under way              *)
(* (service.go:185).                                                       *)
LEMMA PersistIsFrozen ==
  ASSUME TypeOK, NEW p \in TaskIDs, NEW stages \in {Started, Checked},
         NEW c \in Callers, Persist(c)
  PROVE  Frozen(p, stages)
<1>1. PICK k, q : k = calls[c].claims /\ q = calls[c].parent
  OBVIOUS
<1>2. /\ calls[c].pc = "signed" /\ k.sub \in TaskIDs
      /\ calls'[c].pc = "persisted"
      /\ \A d \in Callers : d # c => calls'[d] = calls[d]
  BY <1>1, StageTypes DEF Persist, At, ToState, Signed, TaskClaims, TypeOK
<1>3. "signed" \in stages /\ "persisted" \notin stages
  BY DEF Started, Checked
<1>4. c \notin InStage(p, stages)' /\ InStage(p, stages)' \subseteq InStage(p, stages)
  BY <1>2, <1>3 DEF InStage
<1>5. ASSUME Children(p)' # Children(p)
      PROVE  c \in InStage(p, stages)
  <2>1. /\ ~Exists(k.sub)
        /\ tasks'[k.sub].parent = q
        /\ \A u \in TaskIDs : u # k.sub => tasks'[u] = tasks[u]
    BY <1>1, <1>2 DEF Persist, InsertTask, RecordOf, TypeOK
  <2>2. q = p
    BY <1>5, <2>1 DEF Children, Exists
  <2> QED
    BY <1>1, <1>2, <1>3, <2>2 DEF InStage
<1> QED
  BY <1>4, <1>5 DEF Frozen

(* The two ways into the stages are the read of the parent and the check   *)
(* of its lifetime; where both are closed, nothing else opens.             *)
LEMMA StepFreezes ==
  ASSUME TypeOK, [Next]_vars, NEW p \in TaskIDs, NEW stages \in {Started, Checked},
         \A c \in Callers, req \in Requests :
           AdmitChild(c, p, req) => "admitted" \notin stages,
         \A c \in Callers :
           ClampTTL(c) /\ calls[c].parent = p => "admitted" \in stages
  PROVE  Frozen(p, stages)
<1>1. ASSUME NEW c \in Callers, CreateTask(c)
      PROVE  Frozen(p, stages)
  <2>1. ASSUME NEW h \in Humans, NEW req \in Requests, AdmitRoot(c, h, req)
        PROVE  Frozen(p, stages)
    <3>1. PICK s : s = [pc |-> "admitted", parent |-> h, base |-> Missing,
                        scopes |-> AllScopes(req), ttl |-> req.ttl]
      OBVIOUS
    <3>2. s.parent # p
      BY <3>1, IdentityAssumption
    <3> QED
      BY <2>1, <3>1, <3>2, StageIsFrozen DEF AdmitRoot
  <2>2. ASSUME NEW q \in TaskIDs, NEW req \in Requests, AdmitChild(c, q, req)
        PROVE  Frozen(p, stages)
    <3>1. PICK s : s = [pc |-> "admitted", parent |-> q, base |-> tasks[q],
                        scopes |-> AllScopes(req), ttl |-> req.ttl]
      OBVIOUS
    <3>2. s.parent = p => s.pc \notin stages
      BY <2>2, <3>1
    <3>3. ToState(c, s) /\ UNCHANGED tasks
      BY <2>2, <3>1 DEF AdmitChild
    <3> QED
      BY <3>2, <3>3, StageIsFrozen
  <2>3. CASE ClampTTL(c)
    <3>1. PICK s : s = [pc |-> "clamped", parent |-> calls[c].parent,
                        base |-> calls[c].base, scopes |-> calls[c].scopes,
                        ttl |-> GrantedTTL(calls[c]), checkedAt |-> clock]
      OBVIOUS
    <3>2. s.parent = p => calls[c].pc \in stages
      BY <2>3, <3>1 DEF ClampTTL, At
    <3>3. ToState(c, s) /\ UNCHANGED tasks
      BY <2>3, <3>1 DEF ClampTTL
    <3> QED
      BY <3>1, <3>2, <3>3, StageIsFrozen
  <2>4. ASSUME NEW id \in TaskIDs, ExtendChain(c, id)
        PROVE  Frozen(p, stages)
    <3>1. PICK chain :
            chain = BuildDelegationChain(id, calls[c].parent,
                      IF calls[c].base = Missing THEN <<>> ELSE calls[c].base.chain,
                      ScopeNarrowed(calls[c]), Seconds(clock))
      OBVIOUS
    <3>2. PICK s : s = [pc |-> "chained", parent |-> calls[c].parent,
                        base |-> calls[c].base, scopes |-> calls[c].scopes,
                        ttl |-> calls[c].ttl, checkedAt |-> calls[c].checkedAt,
                        id |-> id, chain |-> chain]
      OBVIOUS
    <3>3. calls[c].pc \in stages
      BY <2>4 DEF ExtendChain, At, Started, Checked
    <3>4. ToState(c, s) /\ UNCHANGED tasks
      BY <2>4, <3>1, <3>2 DEF ExtendChain
    <3> QED
      BY <3>2, <3>3, <3>4, StageIsFrozen
  <2>5. CASE Sign(c)
    <3>1. PICK s : s = [pc |-> "signed", parent |-> calls[c].parent,
                        claims |-> ClaimsOf(calls[c]),
                        lag |-> clock - calls[c].checkedAt]
      OBVIOUS
    <3>2. calls[c].pc \in stages
      BY <2>5 DEF Sign, At, Started, Checked
    <3>3. ToState(c, s) /\ UNCHANGED tasks
      BY <2>5, <3>1 DEF Sign
    <3> QED
      BY <3>1, <3>2, <3>3, StageIsFrozen
  <2>6. CASE Persist(c)
    BY <2>6, PersistIsFrozen
  <2>7. CASE RejectExpiredParent(c) \/ Deliver(c) \/ Abandon(c)
    <3>1. Idle.pc \notin stages
      BY DEF Idle, Started, Checked
    <3> QED
      BY <2>7, <3>1, StageIsFrozen DEF RejectExpiredParent, Deliver, Abandon
  <2> QED
    BY <1>1, <2>1, <2>2, <2>3, <2>4, <2>5, <2>6, <2>7 DEF CreateTask, Proceed
<1>2. ASSUME UNCHANGED calls, Children(p)' = Children(p)
      PROVE  Frozen(p, stages)
  BY <1>2 DEF Frozen, InStage
<1>3. ASSUME NEW t \in TaskIDs, Revoke(t)
      PROVE  Frozen(p, stages)
  <2>1. RowsKept /\ calls' = calls
    BY <1>3, StepKeepsRows DEF Revoke
  <2>2. \A u \in TaskIDs : Exists(u)' => Exists(u)
    BY <1>3 DEF Revoke, RevokeTask, Exists, TypeOK
  <2>3. Children(p)' = Children(p)
    BY <2>1, <2>2 DEF Children, RowsKept, SameTask
  <2> QED
    BY <1>2, <2>1, <2>3
<1>4. CASE Tick \/ UNCHANGED vars
  <2>1. UNCHANGED calls /\ UNCHANGED tasks
    BY <1>4 DEF Tick, vars
  <2>2. Children(p)' = Children(p)
    BY <2>1 DEF Children, Exists
  <2> QED
    BY <1>2, <2>1, <2>2
<1> QED
  BY <1>1, <1>3, <1>4 DEF Next

LEMMA RevocationFreezes ==
  ASSUME IInv, [Next]_vars, NEW p \in revocations
  PROVE  Frozen(p, Started)
<1>1. TypeOK /\ p \in TaskIDs /\ tasks[p].status = "revoked"
  BY DEF IInv, TypeOK, StatusMatchesIndex, IsRevoked
<1>2. ASSUME NEW c \in Callers, NEW req \in Requests
      PROVE  ~AdmitChild(c, p, req)
  BY <1>1 DEF AdmitChild, MayDelegate
<1>3. "admitted" \in Started
  BY DEF Started
<1> QED
  BY <1>1, <1>2, <1>3, StepFreezes

(* After a revocation commits, no call starts to delegate from the task    *)
(* again, and those that had read its row before yield one child each at   *)
(* most (service.go:86-92 against 185).                                    *)
THEOREM RevocationIsFinal == Spec => RevocationEndsDelegation
<1>1. IInv /\ [Next]_vars =>
        [\A p \in revocations :
           /\ PendingChildren(p)' \subseteq PendingChildren(p)
           /\ Children(p)' # Children(p) =>
                PendingChildren(p)' # PendingChildren(p)]_vars
  BY RevocationFreezes, StagesAre DEF Frozen
<1> QED
  BY <1>1, Invariance, PTL DEF Spec, RevocationEndsDelegation

LEMMA ExpiryFreezes ==
  ASSUME IInv, [Next]_vars, NEW p \in TaskIDs, Exists(p),
         clock >= Ticks(tasks[p].expiresAt)
  PROVE  Frozen(p, Checked)
<1>1. TypeOK /\ CallsSound
  BY DEF IInv
<1>2. ASSUME NEW c \in Callers, ClampTTL(c), calls[c].parent = p
      PROVE  FALSE
  <2>1. BaseSound(calls[c])
    BY <1>1, <1>2 DEF ClampTTL, At, CallsSound, CallSound
  <2>2. /\ calls[c].base # Missing
        /\ calls[c].base.expiresAt = tasks[p].expiresAt
    BY <1>2, <2>1, IdentityAssumption DEF BaseSound, SameTask
  <2>3. tasks[p].expiresAt \in Int
    BY <1>1 DEF TypeOK, Exists, TaskRecord
  <2>4. PICK x : x = Ticks(tasks[p].expiresAt)
    OBVIOUS
  <2>5. x \in Int /\ clock \in Int /\ clock >= x
    BY <1>1, <2>3, <2>4, SecondsType DEF TypeOK
  <2>6. x - clock > 0
    BY <1>2, <2>2, <2>4 DEF ClampTTL, Remaining
  <2> QED
    BY <2>5, <2>6
<1>3. "admitted" \notin Checked
  BY DEF Checked
<1> QED
  BY <1>1, <1>2, <1>3, StepFreezes

(* Once a task's expiry has passed, no call gets past the lifetime check   *)
(* on it, and those that had yield one child each at most                  *)
(* (service.go:115-119 against 185).                                       *)
THEOREM ExpiryIsFinal == Spec => ExpiryEndsDelegation
<1>1. IInv /\ [Next]_vars =>
        [\A p \in TaskIDs : Exists(p) /\ clock >= Ticks(tasks[p].expiresAt) =>
           /\ TimelyChildren(p)' \subseteq TimelyChildren(p)
           /\ Children(p)' # Children(p) =>
                TimelyChildren(p)' # TimelyChildren(p)]_vars
  BY ExpiryFreezes, StagesAre DEF Frozen
<1> QED
  BY <1>1, Invariance, PTL DEF Spec, ExpiryEndsDelegation

-----------------------------------------------------------------------------
(***************************************************************************)
(* Whole seconds and ticks.                                                *)
(***************************************************************************)
LEMMA SecondsBound ==
  ASSUME NEW a \in Int
  PROVE  /\ Seconds(a) \in Int
         /\ Ticks(Seconds(a)) \in Int
         /\ Ticks(Seconds(a)) <= a
         /\ a < Ticks(Seconds(a)) + TicksPerSecond
  BY IdentityAssumption DEF Seconds, Ticks

LEMMA TicksApart ==
  ASSUME NEW m \in Int, NEW n \in Int, m + 1 <= n
  PROVE  Ticks(m) + TicksPerSecond <= Ticks(n)
  BY IdentityAssumption DEF Ticks

LEMMA TicksAdd ==
  ASSUME NEW m \in Int, NEW n \in Int
  PROVE  Ticks(m + n) = Ticks(m) + Ticks(n) /\ Ticks(m - n) = Ticks(m) - Ticks(n)
  BY IdentityAssumption DEF Ticks

(* Truncation to seconds keeps order. *)
LEMMA SecondsInOrder ==
  ASSUME NEW a \in Int, NEW b \in Int, b <= a
  PROVE  Seconds(b) <= Seconds(a)
<1>1. CASE Seconds(a) + 1 <= Seconds(b)
  <2>1. Ticks(Seconds(a)) + TicksPerSecond <= Ticks(Seconds(b))
    BY <1>1, SecondsBound, TicksApart
  <2> QED
    BY <2>1, SecondsBound, IdentityAssumption
<1> QED
  BY <1>1, SecondsBound

(* Whole seconds pass through the truncation. *)
LEMMA SecondsLater ==
  ASSUME NEW e \in Int, NEW d \in Int
  PROVE  Seconds(Ticks(e) + d) = e + Seconds(d)
<1>1. PICK x, q : x = Seconds(Ticks(e) + d) /\ q = Seconds(d)
  OBVIOUS
<1>2. Ticks(e) \in Int /\ q \in Int /\ Ticks(q) \in Int
  BY <1>1, SecondsType, SecondsBound
<1>3. Ticks(q) <= d /\ d < Ticks(q) + TicksPerSecond
  BY <1>1, SecondsBound
<1>4. /\ x \in Int /\ Ticks(x) \in Int
      /\ Ticks(x) <= Ticks(e) + d /\ Ticks(e) + d < Ticks(x) + TicksPerSecond
  BY <1>1, <1>2, SecondsBound
<1>5. Ticks(e + q) = Ticks(e) + Ticks(q)
  BY <1>2, TicksAdd
<1>6. ASSUME x + 1 <= e + q
      PROVE  FALSE
  <2>1. Ticks(x) + TicksPerSecond <= Ticks(e + q)
    BY <1>2, <1>4, <1>6, TicksApart
  <2> QED
    BY <2>1, <1>2, <1>3, <1>4, <1>5, IdentityAssumption
<1>7. ASSUME e + q + 1 <= x
      PROVE  FALSE
  <2>1. Ticks(e + q) + TicksPerSecond <= Ticks(x)
    BY <1>2, <1>4, <1>7, TicksApart
  <2> QED
    BY <2>1, <1>2, <1>3, <1>4, <1>5, IdentityAssumption
<1> QED
  BY <1>1, <1>2, <1>4, <1>6, <1>7

(* Dates in whole seconds lengthen a lifetime by less than one. *)
LEMMA LifetimeRounds ==
  ASSUME NEW now \in Int, NEW ttl \in Int, ttl <= MaxTTL
  PROVE  Ticks(Seconds(now + ttl) - Seconds(now)) < MaxTTL + TicksPerSecond
<1>1. PICK x, y : x = Seconds(now + ttl) /\ y = Seconds(now)
  OBVIOUS
<1>2. /\ x \in Int /\ Ticks(x) \in Int /\ Ticks(x) <= now + ttl
      /\ y \in Int /\ Ticks(y) \in Int /\ now < Ticks(y) + TicksPerSecond
  BY <1>1, SecondsBound
<1>3. Ticks(x - y) = Ticks(x) - Ticks(y)
  BY <1>2, TicksAdd
<1> QED
  BY <1>1, <1>2, <1>3, IdentityAssumption

(* What a call is granted is within the service's limit and the parent's   *)
(* lifetime as it was when the clock was read (service.go:107-123).        *)
LEMMA GrantedTTLBound ==
  ASSUME NEW call, call.ttl \in Int, call.base \in TaskRecord \cup {Missing},
         clock \in Nat
  PROVE  /\ GrantedTTL(call) \in Int
         /\ GrantedTTL(call) <= MaxTTL
         /\ call.base # Missing =>
              clock + GrantedTTL(call) <= Ticks(call.base.expiresAt)
<1>1. CappedTTL(call.ttl) \in Int /\ CappedTTL(call.ttl) <= MaxTTL
  BY IdentityAssumption DEF CappedTTL
<1>2. CASE call.base = Missing
  BY <1>1, <1>2 DEF GrantedTTL
<1>3. CASE call.base # Missing
  <2>1. call.base.expiresAt \in Int
    BY <1>3 DEF TaskRecord
  <2>2. PICK e : e = Ticks(call.base.expiresAt)
    OBVIOUS
  <2>3. e \in Int /\ Remaining(call.base) = e - clock
    BY <2>1, <2>2, SecondsType DEF Remaining
  <2> QED
    BY <1>1, <1>3, <2>2, <2>3, IdentityAssumption DEF GrantedTTL
<1> QED
  BY <1>2, <1>3

-----------------------------------------------------------------------------
(***************************************************************************)
(* What holds of dates goes on holding while others act and time passes.   *)
(***************************************************************************)
LEMMA ClockForward ==
  ASSUME TypeOK, [Next]_vars
  PROVE  clock' \in Nat /\ clock <= clock' /\ Seconds(clock) <= Seconds(clock')
<1>1. clock' = clock \/ clock' = clock + 1
  BY DEF Next, CreateTask, Proceed, vars, AdmitRoot, AdmitChild, ClampTTL,
         RejectExpiredParent, ExtendChain, Sign, Persist, Deliver, Abandon,
         Revoke, Tick
<1>2. clock' \in Nat /\ clock <= clock' /\ clock \in Int /\ clock' \in Int
  BY <1>1 DEF TypeOK
<1> QED
  BY <1>2, SecondsInOrder

(* The last link of a chain is a link. *)
LEMMA LastLink ==
  ASSUME NEW chain \in Seq(DelegationLink), chain # <<>>
  PROVE  /\ chain[Len(chain)] \in DelegationLink
         /\ chain[Len(chain)].authorizedAt \in Int
<1>1. chain[Len(chain)] \in DelegationLink
  OBVIOUS
<1> QED
  BY <1>1 DEF DelegationLink

LEMMA FollowsKept ==
  ASSUME RowsKept, NEW parent, NEW chain \in Seq(DelegationLink), chain # <<>>,
         NEW date \in Int, NEW later \in Int, date <= later,
         parent \in TaskIDs => Exists(parent),
         Follows(parent, chain, date)
  PROVE  /\ chain[Len(chain)].authorizedAt <= later
         /\ parent \in TaskIDs =>
              tasks'[parent].createdAt <= chain[Len(chain)].authorizedAt
<1>1. PICK at : at = chain[Len(chain)].authorizedAt
  OBVIOUS
<1>2. at \in Int
  BY <1>1, LastLink
<1>3. parent \in TaskIDs => tasks'[parent].createdAt = tasks[parent].createdAt
  BY DEF RowsKept, SameTask
<1> QED
  BY <1>1, <1>2, <1>3 DEF Follows

LEMMA TimelyKept ==
  ASSUME TypeOK, RowsKept, [Next]_vars, NEW call \in CallState,
         CallSound(call), Timely(call)
  PROVE  Timely(call)'
<1>1. /\ clock \in Int /\ clock' \in Int /\ clock <= clock'
      /\ Seconds(clock) \in Int /\ Seconds(clock') \in Int
      /\ Seconds(clock) <= Seconds(clock')
  <2>1. clock \in Int /\ clock' \in Nat
    BY ClockForward DEF TypeOK
  <2> QED
    BY <2>1, ClockForward, SecondsBound
<1>2. ASSUME call.pc \in {"clamped", "chained"}
      PROVE  call.checkedAt <= clock'
  <2>1. call.checkedAt \in Int
    BY <1>2 DEF CallState, Idle, Admitted, Clamped, Chained, Signed, Persisted
  <2>2. call.checkedAt <= clock
    BY <1>2 DEF Timely
  <2> QED
    BY <1>1, <2>1, <2>2
<1>3. ASSUME call.pc = "chained"
      PROVE  Follows(call.parent, call.chain, Seconds(clock))'
  <2>1. call \in Chained
    BY <1>3 DEF CallState, Idle, Admitted, Clamped, Chained, Signed, Persisted
  <2>2. call.chain \in Seq(DelegationLink) /\ call.chain # <<>>
    BY <1>3, <2>1 DEF Chained, CallSound, ChainFits
  <2>3. call.parent \in TaskIDs => Exists(call.parent)
    BY <1>3, IdentityAssumption DEF CallSound, BaseSound
  <2>4. Follows(call.parent, call.chain, Seconds(clock))
    BY <1>3 DEF Timely
  <2> QED
    BY <1>1, <2>2, <2>3, <2>4, FollowsKept DEF Follows
<1>4. ASSUME call.pc = "signed"
      PROVE  /\ Follows(call.parent, call.claims.chain, call.claims.iat)'
             /\ call.claims.iat <= Seconds(clock')
             /\ call.parent \in TaskIDs =>
                  call.claims.exp
                    <= tasks'[call.parent].expiresAt + Seconds(call.lag)
  <2>1. call \in Signed
    BY <1>4 DEF CallState, Idle, Admitted, Clamped, Chained, Signed, Persisted
  <2>2. call.claims \in TaskClaims
    BY <2>1 DEF Signed
  <2>3. call.claims.chain \in Seq(DelegationLink) /\ call.claims.iat \in Int
    BY <2>2 DEF TaskClaims
  <2>4. WellBorn(call.parent, call.claims.sub, call.claims.scopes,
                 call.claims.chain, call.claims.maxDepth)
    BY <1>4 DEF CallSound
  <2>5. /\ call.claims.chain # <<>>
        /\ call.parent \in TaskIDs => Exists(call.parent)
    BY <2>4, IdentityAssumption DEF WellBorn
  <2>6. /\ Follows(call.parent, call.claims.chain, call.claims.iat)
        /\ call.claims.iat <= Seconds(clock)
        /\ call.parent \in TaskIDs =>
             call.claims.exp <= tasks[call.parent].expiresAt + Seconds(call.lag)
    BY <1>4 DEF Timely
  <2>7. Follows(call.parent, call.claims.chain, call.claims.iat)'
    BY <2>3, <2>5, <2>6, FollowsKept DEF Follows
  <2>8. call.claims.iat <= Seconds(clock')
    BY <1>1, <2>3, <2>6
  <2>9. call.parent \in TaskIDs =>
          tasks'[call.parent].expiresAt = tasks[call.parent].expiresAt
    BY <2>5 DEF RowsKept, SameTask
  <2> QED
    BY <2>6, <2>7, <2>8, <2>9
<1>5. /\ call.pc \in {"clamped", "chained"} =>
           /\ call.ttl <= MaxTTL
           /\ call.base # Missing =>
                call.checkedAt + call.ttl <= Ticks(call.base.expiresAt)
      /\ call.pc = "signed" =>
           Ticks(call.claims.exp - call.claims.iat) < MaxTTL + TicksPerSecond
  BY DEF Timely
<1>6. (call.pc \in {"clamped", "chained"} =>
        /\ call.checkedAt <= clock
        /\ call.ttl <= MaxTTL
        /\ call.base # Missing =>
             call.checkedAt + call.ttl <= Ticks(call.base.expiresAt))'
  BY <1>2, <1>5 DEF Ticks
<1>7. (call.pc = "signed" =>
        /\ Follows(call.parent, call.claims.chain, call.claims.iat)
        /\ call.claims.iat <= Seconds(clock)
        /\ Ticks(call.claims.exp - call.claims.iat) < MaxTTL + TicksPerSecond
        /\ call.parent \in TaskIDs =>
             call.claims.exp <= tasks[call.parent].expiresAt + Seconds(call.lag))'
  BY <1>4, <1>5
<1> QED
  BY <1>3, <1>6, <1>7 DEF Timely

(* The step of one call leaves the others timely. *)
LEMMA TimelyCallsKept ==
  ASSUME TypeOK, RowsKept, [Next]_vars, CallsSound, CallsTimely,
         NEW c \in Callers, NEW s, ToState(c, s), Timely(s)'
  PROVE  CallsTimely'
<1> SUFFICES ASSUME NEW d \in Callers
             PROVE  Timely(calls[d])'
  BY DEF CallsTimely
<1>1. CASE d = c
  BY <1>1 DEF ToState, TypeOK
<1>2. CASE d # c
  <2>1. calls'[d] = calls[d]
    BY <1>2 DEF ToState, TypeOK
  <2>2. calls[d] \in CallState /\ CallSound(calls[d]) /\ Timely(calls[d])
    BY DEF TypeOK, CallsSound, CallsTimely
  <2>3. Timely(calls[d])'
    BY <2>1, <2>2, TimelyKept
  <2> QED
    BY <2>3
<1> QED
  BY <1>1, <1>2
LEMMA TimelyCallsUnmoved ==
  ASSUME TypeOK, RowsKept, [Next]_vars, CallsSound, CallsTimely, UNCHANGED calls
  PROVE  CallsTimely'
<1> SUFFICES ASSUME NEW d \in Callers
             PROVE  Timely(calls[d])'
  BY DEF CallsTimely
<1>1. calls[d] \in CallState /\ CallSound(calls[d]) /\ Timely(calls[d])
  BY DEF TypeOK, CallsSound, CallsTimely
<1> QED
  BY <1>1, TimelyKept

LEMMA IdleTimely == Timely(Idle)'
  BY DEF Timely, Idle

(* The first clock read: what is left of the limit and of the parent       *)
(* (service.go:107-123).                                                   *)
LEMMA ClampIsTimely ==
  ASSUME TypeOK, NEW c \in Callers, ClampTTL(c),
         NEW s, s = [pc |-> "clamped", parent |-> calls[c].parent,
                     base |-> calls[c].base, scopes |-> calls[c].scopes,
                     ttl |-> GrantedTTL(calls[c]), checkedAt |-> clock]
  PROVE  Timely(s)'
<1>1. calls[c] \in Admitted
  BY StageTypes DEF ClampTTL
<1>2. /\ GrantedTTL(calls[c]) <= MaxTTL
      /\ calls[c].base # Missing =>
           clock + GrantedTTL(calls[c]) <= Ticks(calls[c].base.expiresAt)
  BY <1>1, GrantedTTLBound DEF Admitted, TypeOK
<1>3. clock' = clock /\ clock \in Nat
  BY DEF ClampTTL, TypeOK
<1>4. /\ s.pc = "clamped" /\ s.checkedAt = clock /\ s.ttl = GrantedTTL(calls[c])
      /\ s.base = calls[c].base
  OBVIOUS
<1>5. (/\ s.checkedAt <= clock
       /\ s.ttl <= MaxTTL
       /\ s.base # Missing => s.checkedAt + s.ttl <= Ticks(s.base.expiresAt))'
  BY <1>2, <1>3, <1>4 DEF Ticks
<1> QED
  BY <1>4, <1>5 DEF Timely

(* The second one: the new link follows the parent's row                   *)
(* (delegation.go:22-52).                                                  *)
LEMMA ExtendIsTimely ==
  ASSUME TypeOK, NoRowFromTheFuture, CallsSound, CallsTimely,
         NEW c \in Callers, NEW id \in TaskIDs, ExtendChain(c, id),
         NEW chain,
         chain = BuildDelegationChain(id, calls[c].parent,
                   IF calls[c].base = Missing THEN <<>> ELSE calls[c].base.chain,
                   ScopeNarrowed(calls[c]), Seconds(clock)),
         NEW s, s = [pc |-> "chained", parent |-> calls[c].parent,
                     base |-> calls[c].base, scopes |-> calls[c].scopes,
                     ttl |-> calls[c].ttl, checkedAt |-> calls[c].checkedAt,
                     id |-> id, chain |-> chain]
  PROVE  Timely(s)'
<1> DEFINE call == calls[c]
<1>1. call \in Clamped /\ BaseSound(call) /\ Timely(call)
  BY StageTypes DEF ExtendChain, At, CallsSound, CallSound, CallsTimely
<1>2. UNCHANGED <<tasks, clock>> /\ clock \in Int /\ Seconds(clock) \in Int
  BY SecondsType DEF ExtendChain, TypeOK
<1>3. /\ s.pc = "chained" /\ s.parent = call.parent /\ s.base = call.base
      /\ s.ttl = call.ttl /\ s.checkedAt = call.checkedAt /\ s.chain = chain
  OBVIOUS
<1>4. /\ call.checkedAt <= clock
      /\ call.ttl <= MaxTTL
      /\ call.base # Missing =>
           call.checkedAt + call.ttl <= Ticks(call.base.expiresAt)
  BY <1>1 DEF Timely, Clamped
<1>5. chain[Len(chain)].authorizedAt = Seconds(clock)
  <2>1. CASE call.base = Missing
    <3>1. call.parent \in Humans
      BY <1>1, <2>1 DEF BaseSound
    <3>2. chain = <<Link("human", call.parent, Seconds(clock), FALSE),
                    Link("task", id, Seconds(clock), ScopeNarrowed(call))>>
      BY <3>1 DEF BuildDelegationChain
    <3>3. chain[Len(chain)] = Link("task", id, Seconds(clock), ScopeNarrowed(call))
      BY <3>2
    <3> QED
      BY <3>3 DEF Link
  <2>2. CASE call.base # Missing
    <3>1. call.parent \notin Humans
      BY <1>1, <2>2, IdentityAssumption DEF BaseSound
    <3>2. PICK old : old = call.base.chain
      OBVIOUS
    <3>3. old \in Seq(DelegationLink)
      BY <1>1, <2>2, <3>2 DEF Clamped, TaskRecord
    <3>4. PICK l : l = Link("task", id, Seconds(clock), ScopeNarrowed(call))
      OBVIOUS
    <3>5. chain = Append(old, l)
      BY <2>2, <3>1, <3>2, <3>4 DEF BuildDelegationChain
    <3>6. l \in DelegationLink
      <4>1. ScopeNarrowed(call) \in BOOLEAN /\ id \in Identities
        BY DEF ScopeNarrowed, Identities
      <4> QED
        BY <1>2, <3>4, <4>1 DEF Link, DelegationLink
    <3>7. chain[Len(chain)] = l
      BY <3>3, <3>5, <3>6, AppendLast
    <3> QED
      BY <3>4, <3>7 DEF Link
  <2> QED
    BY <2>1, <2>2
<1>6. ASSUME call.parent \in TaskIDs
      PROVE  tasks[call.parent].createdAt <= Seconds(clock)
  <2>1. Exists(call.parent)
    BY <1>1, <1>6, IdentityAssumption DEF BaseSound
  <2> QED
    BY <1>6, <2>1 DEF NoRowFromTheFuture
<1>7. Follows(s.parent, s.chain, Seconds(clock))'
  BY <1>2, <1>3, <1>5, <1>6 DEF Follows, Seconds
<1>8. (/\ s.checkedAt <= clock
       /\ s.ttl <= MaxTTL
       /\ s.base # Missing => s.checkedAt + s.ttl <= Ticks(s.base.expiresAt))'
  BY <1>2, <1>3, <1>4 DEF Ticks
<1> QED
  BY <1>3, <1>7, <1>8 DEF Timely

(* The third: the dates of the claims, at most the time since the check    *)
(* beyond what the parent's row leaves (service.go:144, jwt.go:64-75).     *)
LEMMA SignIsTimely ==
  ASSUME TypeOK, CallsSound, CallsTimely, NEW c \in Callers, Sign(c),
         NEW k, k = ClaimsOf(calls[c]),
         NEW s, s = [pc |-> "signed", parent |-> calls[c].parent, claims |-> k,
                     lag |-> clock - calls[c].checkedAt]
  PROVE  Timely(s)'
<1> DEFINE call == calls[c]
<1>1. call \in Chained /\ BaseSound(call) /\ ChainFits(call) /\ Timely(call)
  BY StageTypes DEF Sign, At, CallsSound, CallSound, CallsTimely
<1>2. PICK ttl, at : ttl = call.ttl /\ at = call.checkedAt
  OBVIOUS
<1>3. /\ UNCHANGED <<tasks, clock>> /\ clock \in Int
      /\ ttl \in Int /\ at \in Int /\ clock + ttl \in Int /\ clock - at \in Int
  BY <1>1, <1>2 DEF Sign, TypeOK, Chained
<1>4. /\ s.pc = "signed" /\ s.parent = call.parent /\ s.claims = k
      /\ s.lag = clock - at
      /\ k.chain = call.chain
      /\ k.iat = Seconds(clock) /\ k.exp = Seconds(clock + ttl)
  BY <1>2 DEF ClaimsOf
<1>5. /\ ttl <= MaxTTL
      /\ call.base # Missing => at + ttl <= Ticks(call.base.expiresAt)
      /\ Follows(call.parent, call.chain, Seconds(clock))
  BY <1>1, <1>2 DEF Timely, Chained
<1>6. Ticks(k.exp - k.iat) < MaxTTL + TicksPerSecond
  BY <1>3, <1>4, <1>5, LifetimeRounds
<1>7. ASSUME call.parent \in TaskIDs
      PROVE  k.exp <= tasks[call.parent].expiresAt + Seconds(clock - at)
  <2>1. /\ call.base # Missing
        /\ SameTask(call.base, tasks[call.parent])
    BY <1>1, <1>7, IdentityAssumption DEF BaseSound
  <2>2. PICK e : e = call.base.expiresAt
    OBVIOUS
  <2>3. e \in Int /\ tasks[call.parent].expiresAt = e
    BY <1>1, <2>1, <2>2 DEF Chained, TaskRecord, SameTask
  <2>4. PICK x : x = Ticks(e)
    OBVIOUS
  <2>5. x \in Int /\ at + ttl <= x
    BY <1>5, <2>1, <2>2, <2>3, <2>4, SecondsType
  <2>6. x + (clock - at) \in Int /\ clock + ttl <= x + (clock - at)
    BY <1>3, <2>5
  <2>7. Seconds(clock + ttl) <= Seconds(x + (clock - at))
    BY <1>3, <2>6, SecondsInOrder
  <2>8. Seconds(x + (clock - at)) = e + Seconds(clock - at)
    BY <1>3, <2>3, <2>4, SecondsLater
  <2> QED
    BY <1>4, <2>3, <2>7, <2>8
<1>8. (/\ Follows(s.parent, s.claims.chain, s.claims.iat)
       /\ s.claims.iat <= Seconds(clock)
       /\ Ticks(s.claims.exp - s.claims.iat) < MaxTTL + TicksPerSecond
       /\ s.parent \in TaskIDs =>
            s.claims.exp <= tasks[s.parent].expiresAt + Seconds(s.lag))'
  <2>1. Follows(s.parent, s.claims.chain, s.claims.iat)'
    BY <1>3, <1>4, <1>5 DEF Follows
  <2>2. (s.claims.iat <= Seconds(clock))'
    <3>1. Seconds(clock) \in Int
      BY <1>3, SecondsType
    <3> QED
      BY <1>3, <1>4, <3>1
  <2>3. (s.parent \in TaskIDs =>
           s.claims.exp <= tasks[s.parent].expiresAt + Seconds(s.lag))'
    BY <1>3, <1>4, <1>7
  <2> QED
    BY <1>4, <1>6, <2>1, <2>2, <2>3
<1> QED
  BY <1>4, <1>8 DEF Timely
LEMMA CallsTimelyStep ==
  ASSUME IInv, TimeInv, [Next]_vars
  PROVE  CallsTimely'
<1>1. /\ TypeOK /\ CallsSound /\ RowsKept
      /\ CallsTimely /\ NoRowFromTheFuture
  BY StepKeepsRows DEF IInv, TimeInv
<1>2. ASSUME NEW c \in Callers, NEW s, ToState(c, s), Timely(s)'
      PROVE  CallsTimely'
  BY <1>1, <1>2, TimelyCallsKept
<1>3. ASSUME NEW c \in Callers, CreateTask(c)
      PROVE  CallsTimely'
  <2> DEFINE call == calls[c]
  <2>1. ASSUME NEW h \in Humans, NEW req \in Requests, AdmitRoot(c, h, req)
        PROVE  CallsTimely'
    <3>1. PICK s : s = [pc |-> "admitted", parent |-> h, base |-> Missing,
                        scopes |-> AllScopes(req), ttl |-> req.ttl]
      OBVIOUS
    <3>2. Timely(s)'
      BY <3>1 DEF Timely
    <3> QED
      BY <1>2, <2>1, <3>1, <3>2 DEF AdmitRoot
  <2>2. ASSUME NEW p \in TaskIDs, NEW req \in Requests, AdmitChild(c, p, req)
        PROVE  CallsTimely'
    <3>1. PICK s : s = [pc |-> "admitted", parent |-> p, base |-> tasks[p],
                        scopes |-> AllScopes(req), ttl |-> req.ttl]
      OBVIOUS
    <3>2. Timely(s)'
      BY <3>1 DEF Timely
    <3> QED
      BY <1>2, <2>2, <3>1, <3>2 DEF AdmitChild
  <2>3. CASE ClampTTL(c)
    <3>1. PICK s : s = [pc |-> "clamped", parent |-> call.parent,
                        base |-> call.base, scopes |-> call.scopes,
                        ttl |-> GrantedTTL(call), checkedAt |-> clock]
      OBVIOUS
    <3>2. Timely(s)'
      BY <1>1, <2>3, <3>1, ClampIsTimely
    <3> QED
      BY <1>2, <2>3, <3>1, <3>2 DEF ClampTTL
  <2>4. ASSUME NEW id \in TaskIDs, ExtendChain(c, id)
        PROVE  CallsTimely'
    <3>1. PICK chain :
            chain = BuildDelegationChain(id, call.parent,
                      IF call.base = Missing THEN <<>> ELSE call.base.chain,
                      ScopeNarrowed(call), Seconds(clock))
      OBVIOUS
    <3>2. PICK s : s = [pc |-> "chained", parent |-> call.parent,
                        base |-> call.base, scopes |-> call.scopes,
                        ttl |-> call.ttl, checkedAt |-> call.checkedAt,
                        id |-> id, chain |-> chain]
      OBVIOUS
    <3>3. Timely(s)'
      BY <1>1, <2>4, <3>1, <3>2, ExtendIsTimely
    <3> QED
      BY <1>2, <2>4, <3>1, <3>2, <3>3 DEF ExtendChain
  <2>5. CASE Sign(c)
    <3>1. PICK k : k = ClaimsOf(call)
      OBVIOUS
    <3>2. PICK s : s = [pc |-> "signed", parent |-> call.parent, claims |-> k,
                        lag |-> clock - call.checkedAt]
      OBVIOUS
    <3>3. Timely(s)'
      BY <1>1, <2>5, <3>1, <3>2, SignIsTimely
    <3> QED
      BY <1>2, <2>5, <3>1, <3>2, <3>3 DEF Sign
  <2>6. CASE Persist(c)
    <3>1. PICK s : s = [pc |-> "persisted", claims |-> call.claims]
      OBVIOUS
    <3>2. Timely(s)'
      BY <3>1 DEF Timely
    <3> QED
      BY <1>2, <2>6, <3>1, <3>2 DEF Persist
  <2>7. CASE RejectExpiredParent(c) \/ Deliver(c) \/ Abandon(c)
    BY <1>2, <2>7, IdleTimely DEF RejectExpiredParent, Deliver, Abandon
  <2> QED
    BY <1>3, <2>1, <2>2, <2>3, <2>4, <2>5, <2>6, <2>7 DEF CreateTask, Proceed
<1>4. CASE UNCHANGED calls
  BY <1>1, <1>4, TimelyCallsUnmoved
<1> QED
  BY <1>3, <1>4 DEF Next, Revoke, Tick, vars

-----------------------------------------------------------------------------
(***************************************************************************)
(* What each property of dates says of one row.                            *)
(***************************************************************************)
Ordered(t) ==
  LET chain == tasks[t].chain IN
  /\ chain[Len(chain)].authorizedAt <= tasks[t].createdAt
  /\ \A i \in 2..(Len(chain) - 1) :
       tasks[chain[i].id].createdAt <= chain[i + 1].authorizedAt

Prompt(t) ==
  tasks[t].parent \in TaskIDs =>
    tasks[t].expiresAt <= tasks[tasks[t].parent].expiresAt + Seconds(lag[t])

Short(t) == Ticks(tasks[t].expiresAt - tasks[t].createdAt) < MaxTTL + TicksPerSecond

Past(t) == tasks[t].createdAt <= Seconds(clock)

RowDated(t) == Ordered(t) /\ Prompt(t) /\ Short(t) /\ Past(t)

RowsDated == \A t \in TaskIDs : Exists(t) => RowDated(t)

LEMMA RowsDatedMeaning ==
  RowsDated <=> NoRowFromTheFuture /\ DatesInOrder /\ OutlivesOnlyByPause
                  /\ LifetimeWithinLimit
  BY DEF RowsDated, RowDated, Ordered, Prompt, Short, Past, NoRowFromTheFuture,
         DatesInOrder, OutlivesOnlyByPause, LifetimeWithinLimit

(* The dates of a row that was there stay in order. *)
LEMMA OldRowDated ==
  ASSUME IInv, RowsKept, [Next]_vars, NEW t \in TaskIDs, Exists(t), RowDated(t),
         lag'[t] = lag[t]
  PROVE  RowDated(t)'
<1>1. /\ TypeOK /\ SameTask(tasks[t], tasks'[t]) /\ tasks[t] \in TaskRecord
  BY DEF IInv, RowsKept, TypeOK, Exists
<1>2. PICK chain : chain = tasks[t].chain
  OBVIOUS
<1>3. /\ tasks'[t].chain = chain /\ tasks'[t].parent = tasks[t].parent
      /\ tasks'[t].createdAt = tasks[t].createdAt
      /\ tasks'[t].expiresAt = tasks[t].expiresAt
  BY <1>1, <1>2 DEF SameTask
<1>4. Ordered(t)'
  <2> SUFFICES ASSUME NEW i \in 2..(Len(chain) - 1)
               PROVE  tasks'[chain[i].id].createdAt <= chain[i + 1].authorizedAt
    BY <1>2, <1>3 DEF RowDated, Ordered
  <2>1. chain \in Seq(DelegationLink)
    BY <1>1, <1>2 DEF TaskRecord
  <2>2. i \in 2..Len(chain)
    BY <2>1
  <2>3. chain[i].id \in TaskIDs /\ Exists(chain[i].id)
    BY <1>2, <2>2 DEF IInv, ProvenanceChain, NoEscalation, TasksOf
  <2>4. tasks'[chain[i].id].createdAt = tasks[chain[i].id].createdAt
    BY <2>3 DEF RowsKept, SameTask
  <2> QED
    BY <1>2, <2>4 DEF RowDated, Ordered
<1>5. Prompt(t)'
  <2> SUFFICES ASSUME tasks[t].parent \in TaskIDs
               PROVE  tasks'[t].expiresAt
                        <= tasks'[tasks[t].parent].expiresAt + Seconds(lag[t])
    BY <1>3 DEF Prompt, Seconds
  <2>1. Exists(tasks[t].parent)
    BY DEF IInv, ProvenanceChain
  <2>2. tasks'[tasks[t].parent].expiresAt = tasks[tasks[t].parent].expiresAt
    BY <2>1 DEF RowsKept, SameTask
  <2> QED
    BY <1>3, <2>2 DEF RowDated, Prompt
<1>6. Short(t)'
  BY <1>3 DEF RowDated, Short, Ticks
<1>7. Past(t)'
  <2>1. /\ Seconds(clock) <= Seconds(clock') /\ Seconds(clock) \in Int
        /\ Seconds(clock') \in Int
    <3>1. clock \in Int /\ clock' \in Int
      BY <1>1, ClockForward DEF TypeOK
    <3> QED
      BY <1>1, <3>1, ClockForward, SecondsType
  <2>2. tasks[t].createdAt \in Int /\ tasks[t].createdAt <= Seconds(clock)
    BY <1>1 DEF RowDated, Past, TaskRecord
  <2>3. tasks[t].createdAt <= Seconds(clock')
    BY <2>1, <2>2
  <2> QED
    BY <1>3, <2>3 DEF Past, Seconds
<1> QED
  BY <1>4, <1>5, <1>6, <1>7 DEF RowDated

(* An inserted row has the dates its call was bound to                     *)
(* (service.go:168-187).                                                   *)
LEMMA NewRowDated ==
  ASSUME IInv, IInv', TimeInv, RowsKept, NEW c \in Callers, Persist(c),
         NEW t, t = calls[c].claims.sub
  PROVE  RowDated(t)'
<1>1. PICK k, p : k = calls[c].claims /\ p = calls[c].parent
  OBVIOUS
<1>2. /\ TypeOK /\ RowsDated /\ calls[c] \in Signed
      /\ k \in TaskClaims /\ p \in Identities /\ t \in TaskIDs /\ t = k.sub
      /\ calls[c].pc = "signed"
  <2>1. TypeOK /\ RowsDated
    BY RowsDatedMeaning DEF IInv, TimeInv
  <2> QED
    BY <1>1, <2>1, StageTypes DEF Persist, Signed, TaskClaims, At
<1>3. /\ Follows(p, k.chain, k.iat)
      /\ k.iat <= Seconds(clock)
      /\ Ticks(k.exp - k.iat) < MaxTTL + TicksPerSecond
      /\ p \in TaskIDs => k.exp <= tasks[p].expiresAt + Seconds(calls[c].lag)
  BY <1>1, <1>2 DEF TimeInv, CallsTimely, Timely
<1>4. WellBorn(p, t, k.scopes, k.chain, k.maxDepth)
  BY <1>1, <1>2 DEF IInv, CallsSound, CallSound
<1>5. /\ tasks'[t].parent = p /\ tasks'[t].chain = k.chain
      /\ tasks'[t].createdAt = k.iat /\ tasks'[t].expiresAt = k.exp
      /\ lag'[t] = calls[c].lag
      /\ \A u \in TaskIDs : u # t => tasks'[u] = tasks[u]
      /\ clock' = clock
      /\ ~Exists(t)
  BY <1>1, <1>2 DEF Persist, InsertTask, TypeOK, RecordOf
<1>6. Short(t)' /\ Past(t)'
  BY <1>3, <1>5 DEF Short, Past, Ticks, Seconds
<1>7. Prompt(t)'
  <2> SUFFICES ASSUME p \in TaskIDs
               PROVE  k.exp <= tasks'[p].expiresAt + Seconds(calls[c].lag)
    BY <1>5 DEF Prompt, Seconds
  <2>1. Exists(p)
    BY <1>4, IdentityAssumption DEF WellBorn
  <2>2. tasks'[p] = tasks[p]
    BY <1>5, <2>1
  <2> QED
    BY <1>3, <2>2
<1>8. CASE p \in Humans
  <2>1. Len(k.chain) = 2
    BY <1>4, <1>8, IdentityAssumption DEF WellBorn
  <2>2. Ordered(t)'
    BY <1>3, <1>5, <2>1 DEF Ordered, Follows
  <2> QED
    BY <1>6, <1>7, <2>2 DEF RowDated
<1>9. CASE p \in TaskIDs
  <2>1. PICK old, link : old = tasks[p].chain /\ link = k.chain[Len(k.chain)]
    OBVIOUS
  <2>2. /\ Exists(p) /\ k.chain = Append(old, link) /\ k.chain # <<>>
    BY <1>4, <1>9, <2>1, IdentityAssumption DEF WellBorn
  <2>3. /\ old \in Seq(DelegationLink) /\ link \in DelegationLink
        /\ Len(old) >= 2 /\ old[Len(old)].id = p
        /\ TasksOf(old) \subseteq TaskIDs
        /\ \A a \in TasksOf(old) : Exists(a)
    <3>1. old \in Seq(DelegationLink)
      BY <1>2, <1>9, <2>1, <2>2 DEF TypeOK, Exists, TaskRecord
    <3>2. link \in DelegationLink
      <4>1. k.chain \in Seq(DelegationLink)
        BY <1>2 DEF TaskClaims
      <4> QED
        BY <2>1, <2>2, <4>1, LastLink
    <3> QED
      BY <1>9, <2>1, <2>2, <3>1, <3>2 DEF IInv, ProvenanceChain, NoEscalation
  <2>4. /\ Len(k.chain) = Len(old) + 1 /\ k.chain[Len(k.chain)] = link
        /\ \A i \in 1..Len(old) : k.chain[i] = old[i]
        /\ Len(old) \in Nat
    BY <2>2, <2>3, GrownChain
  <2>5. Ordered(p)
    BY <1>2, <1>9, <2>2 DEF RowsDated, RowDated
  <2>6. ASSUME NEW i \in 2..Len(old)
        PROVE  tasks'[k.chain[i].id].createdAt <= k.chain[i + 1].authorizedAt
    <3>1. k.chain[i] = old[i]
      BY <2>4
    <3>2. old[i].id \in TaskIDs /\ Exists(old[i].id)
      BY <2>3 DEF TasksOf
    <3>3. tasks'[old[i].id] = tasks[old[i].id]
      BY <1>5, <3>2
    <3>4. CASE i = Len(old)
      <4>1. tasks[p].createdAt <= link.authorizedAt
        BY <1>3, <1>9, <2>1 DEF Follows
      <4> QED
        BY <2>3, <2>4, <3>1, <3>3, <3>4, <4>1
    <3>5. CASE i \in 2..(Len(old) - 1)
      <4>1. tasks[old[i].id].createdAt <= old[i + 1].authorizedAt
        BY <2>1, <2>5, <3>5 DEF Ordered
      <4>2. k.chain[i + 1] = old[i + 1]
        BY <2>4, <3>5
      <4> QED
        BY <3>1, <3>3, <4>1, <4>2
    <3> QED
      BY <2>4, <3>4, <3>5
  <2>7. Ordered(t)'
    <3>1. k.chain[Len(k.chain)].authorizedAt <= k.iat
      BY <1>3 DEF Follows
    <3>2. 2..(Len(k.chain) - 1) = 2..Len(old)
      BY <2>4
    <3> QED
      BY <1>5, <2>6, <3>1, <3>2 DEF Ordered
  <2> QED
    BY <1>6, <1>7, <2>7 DEF RowDated
<1> QED
  BY <1>2, <1>8, <1>9 DEF Identities
LEMMA RowsDatedStep ==
  ASSUME IInv, IInv', TimeInv, [Next]_vars
  PROVE  RowsDated'
<1> SUFFICES ASSUME NEW t \in TaskIDs, Exists(t)'
             PROVE  RowDated(t)'
  BY DEF RowsDated
<1>1. TypeOK /\ RowsKept /\ RowsDated
  BY StepKeepsRows, RowsDatedMeaning DEF IInv, TimeInv
<1>2. ASSUME NEW c \in Callers, Persist(c)
      PROVE  RowDated(t)'
  <2>1. CASE t = calls[c].claims.sub
    BY <1>1, <1>2, <2>1, NewRowDated
  <2>2. CASE t # calls[c].claims.sub
    <3>1. tasks'[t] = tasks[t] /\ lag'[t] = lag[t]
      BY <1>1, <1>2, <2>2 DEF Persist, InsertTask, TypeOK
    <3>2. Exists(t)
      BY <3>1 DEF Exists
    <3> QED
      BY <1>1, <3>1, <3>2, OldRowDated DEF RowsDated
  <2> QED
    BY <2>1, <2>2
<1>3. ASSUME UNCHANGED lag, \A u \in TaskIDs : Exists(u)' => Exists(u)
      PROVE  RowDated(t)'
  BY <1>1, <1>3, OldRowDated DEF RowsDated
<1>4. ASSUME NEW u \in TaskIDs, Revoke(u)
      PROVE  RowDated(t)'
  <2>1. \A v \in TaskIDs : Exists(v)' => Exists(v)
    BY <1>1, <1>4 DEF Revoke, RevokeTask, Exists, TypeOK
  <2> QED
    BY <1>3, <1>4, <2>1 DEF Revoke
<1>5. ASSUME UNCHANGED <<tasks, lag>>
      PROVE  RowDated(t)'
  BY <1>3, <1>5 DEF Exists
<1> QED
  BY <1>2, <1>4, <1>5
     DEF Next, CreateTask, Proceed, vars, AdmitRoot, AdmitChild, ClampTTL,
         RejectExpiredParent, ExtendChain, Sign, Deliver, Abandon, Tick

LEMMA InitTime == Init => TimeInv
<1> SUFFICES ASSUME Init PROVE TimeInv
  OBVIOUS
<1>1. \A t \in TaskIDs : ~Exists(t)
  BY DEF Init, StoreInit, Exists
<1>2. RowsDated
  BY <1>1 DEF RowsDated
<1>3. CallsTimely
  BY DEF Init, CallsTimely, Timely, Idle
<1> QED
  BY <1>2, <1>3, RowsDatedMeaning DEF TimeInv

LEMMA TimeInvariance == Spec => []TimeInv
<1>1. IInv /\ IInv' /\ TimeInv /\ [Next]_vars => TimeInv'
  <2> SUFFICES ASSUME IInv, IInv', TimeInv, [Next]_vars
               PROVE  TimeInv'
    OBVIOUS
  <2>1. CallsTimely' /\ RowsDated'
    BY CallsTimelyStep, RowsDatedStep
  <2>2. NoRowFromTheFuture' /\ DatesInOrder' /\ OutlivesOnlyByPause'
          /\ LifetimeWithinLimit'
    BY <2>1
       DEF RowsDated, RowDated, Ordered, Prompt, Short, Past, NoRowFromTheFuture,
           DatesInOrder, OutlivesOnlyByPause, LifetimeWithinLimit
  <2> QED
    BY <2>1, <2>2 DEF TimeInv
<1> QED
  BY <1>1, InitTime, Invariance, PTL DEF Spec

(* Down a chain, authorization, issue and the next authorization follow    *)
(* each other, over any number of generations (delegation.go:22,           *)
(* service.go:144).                                                        *)
THEOREM ChainIsChronological == Spec => []DatesInOrder
<1>1. TimeInv => DatesInOrder
  BY DEF TimeInv
<1> QED
  BY <1>1, TimeInvariance, PTL

(* A child whose call was not held up between its two clock reads does not *)
(* outlive its parent; another one by that time at most                    *)
(* (service.go:115-123, 144).                                              *)
THEOREM OutlivesByPauseAlone == Spec => []OutlivesOnlyByPause
<1>1. TimeInv => OutlivesOnlyByPause
  BY DEF TimeInv
<1> QED
  BY <1>1, TimeInvariance, PTL

(* No request, however phrased, gets a lifetime a second over the limit    *)
(* (service.go:107-113).                                                   *)
THEOREM LifetimeIsCapped == Spec => []LifetimeWithinLimit
<1>1. TimeInv => LifetimeWithinLimit
  BY DEF TimeInv
<1> QED
  BY <1>1, TimeInvariance, PTL
==============================================================================
