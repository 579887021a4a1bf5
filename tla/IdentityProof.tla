---------------------------- MODULE IdentityProof ----------------------------
(***************************************************************************)
(* The safety of the identity service, for any number of concurrent calls, *)
(* tasks, scopes and any clock.  First type correctness, which every other *)
(* proof starts from.  Then the argument: a row never changes but in its   *)
(* status (RowsKept), so what a call checked on its parent still holds     *)
(* when it inserts its own row, and every row is WellBorn; the properties  *)
(* of whole chains follow one link at a time.                              *)
(***************************************************************************)
EXTENDS IdentityInvariant, ScopesProofs

(* Requests that are accepted ask for well-formed scopes only, so nothing  *)
(* malformed reaches a row or a token (service.go:66-75).                  *)
LEMMA AcceptedScopes ==
  ASSUME NEW req \in Requests, Acceptable(req)
  PROVE  AllScopes(req) \in SUBSET Scope /\ req.ttl \in Int
  BY IdentityAssumption DEF Acceptable, WellFormed

(* Every whole-second date is an integer. *)
LEMMA SecondsType ==
  ASSUME NEW n \in Int
  PROVE  Seconds(n) \in Int /\ Ticks(n) \in Int
  BY IdentityAssumption DEF Seconds, Ticks

(* A pair of elements of a set is a sequence over it. *)
LEMMA PairIsSeq ==
  ASSUME NEW S, NEW a \in S, NEW b \in S
  PROVE  <<a, b>> \in Seq(S)
  OBVIOUS

(* The chain BuildDelegationChain returns (delegation.go:16-55). *)
LEMMA ChainType ==
  ASSUME NEW id \in TaskIDs, NEW parent \in Identities,
         NEW chain \in Seq(DelegationLink), NEW narrowed \in BOOLEAN,
         NEW now \in Int
  PROVE  BuildDelegationChain(id, parent, chain, narrowed, now)
           \in Seq(DelegationLink)
<1>1. ASSUME NEW i \in Identities, NEW type \in {"human", "task"},
             NEW b \in BOOLEAN
      PROVE  Link(type, i, now, b) \in DelegationLink
  BY DEF Link, DelegationLink
<1>2. Link("task", id, now, narrowed) \in DelegationLink
  BY <1>1 DEF Identities
<1>3. CASE parent \in Humans
  <2>1. Link("human", parent, now, FALSE) \in DelegationLink
    BY <1>1
  <2>2. <<Link("human", parent, now, FALSE), Link("task", id, now, narrowed)>>
          \in Seq(DelegationLink)
    BY <1>2, <2>1, PairIsSeq
  <2> QED
    BY <1>3, <2>2 DEF BuildDelegationChain
<1>4. CASE parent \notin Humans
  BY <1>2, <1>4 DEF BuildDelegationChain
<1> QED
  BY <1>3, <1>4

(* The lifetime a call is granted is a number (service.go:107-123). *)
LEMMA GrantedTTLType ==
  ASSUME NEW call, call.ttl \in Int, call.base \in TaskRecord \cup {Missing},
         clock \in Nat
  PROVE  GrantedTTL(call) \in Int
<1>1. CappedTTL(call.ttl) \in Int
  BY IdentityAssumption DEF CappedTTL
<1>2. ASSUME call.base # Missing
      PROVE  Remaining(call.base) \in Int
  <2>1. call.base.expiresAt \in Int
    BY <1>2 DEF TaskRecord
  <2> QED
    BY <2>1, SecondsType DEF Remaining
<1> QED
  BY <1>1, <1>2 DEF GrantedTTL

-----------------------------------------------------------------------------
(* A call that moves to a state of its kind keeps the calls well typed. *)
LEMMA CallStateKept ==
  ASSUME TypeOK, NEW c \in Callers, NEW s \in CallState, ToState(c, s)
  PROVE  calls' \in [Callers -> CallState]
  BY DEF TypeOK, ToState

(* What the stage of a call says of its locals. *)
LEMMA StageTypes ==
  ASSUME TypeOK, NEW c \in Callers
  PROVE  /\ At(c, "admitted") => calls[c] \in Admitted
         /\ At(c, "clamped") => calls[c] \in Clamped
         /\ At(c, "chained") => calls[c] \in Chained
         /\ At(c, "signed") => calls[c] \in Signed
         /\ At(c, "persisted") => calls[c] \in Persisted
<1>1. calls[c] \in CallState
  BY DEF TypeOK
<1> QED
  BY <1>1 DEF CallState, Idle, Admitted, Clamped, Chained, Signed, Persisted, At

LEMMA InitType == Init => TypeOK
<1> SUFFICES ASSUME Init PROVE TypeOK
  OBVIOUS
<1>1. Idle \in CallState
  BY DEF CallState
<1> QED
  BY <1>1 DEF Init, StoreInit, TypeOK

LEMMA CreateTaskType ==
  ASSUME TypeOK, NEW c \in Callers, CreateTask(c)
  PROVE  TypeOK'
<1> DEFINE call == calls[c]
<1>1. ASSUME NEW h \in Humans, NEW req \in Requests, AdmitRoot(c, h, req)
      PROVE  TypeOK'
  <2> DEFINE s == [pc |-> "admitted", parent |-> h, base |-> Missing,
                   scopes |-> AllScopes(req), ttl |-> req.ttl]
  <2>1. s \in CallState
    BY <1>1, AcceptedScopes DEF AdmitRoot, CallState, Admitted, Identities
  <2>2. calls' \in [Callers -> CallState]
    BY <1>1, <2>1, CallStateKept DEF AdmitRoot
  <2> QED
    BY <1>1, <2>2 DEF AdmitRoot, TypeOK
<1>2. ASSUME NEW p \in TaskIDs, NEW req \in Requests, AdmitChild(c, p, req)
      PROVE  TypeOK'
  <2> DEFINE s == [pc |-> "admitted", parent |-> p, base |-> tasks[p],
                   scopes |-> AllScopes(req), ttl |-> req.ttl]
  <2>1. s \in CallState
    BY <1>2, AcceptedScopes DEF AdmitChild, CallState, Admitted, Identities, TypeOK
  <2>2. calls' \in [Callers -> CallState]
    BY <1>2, <2>1, CallStateKept DEF AdmitChild
  <2> QED
    BY <1>2, <2>2 DEF AdmitChild, TypeOK
<1>3. CASE ClampTTL(c)
  <2> DEFINE s == [pc |-> "clamped", parent |-> call.parent, base |-> call.base,
                   scopes |-> call.scopes, ttl |-> GrantedTTL(call),
                   checkedAt |-> clock]
  <2>1. call \in Admitted
    BY <1>3, StageTypes DEF ClampTTL
  <2>2. GrantedTTL(call) \in Int
    BY <2>1, GrantedTTLType DEF Admitted, TypeOK
  <2>3. s \in CallState
    BY <2>1, <2>2 DEF CallState, Admitted, Clamped, TypeOK
  <2>4. calls' \in [Callers -> CallState]
    BY <1>3, <2>3, CallStateKept DEF ClampTTL
  <2> QED
    BY <1>3, <2>4 DEF ClampTTL, TypeOK
<1>4. CASE RejectExpiredParent(c)
  <2>1. calls' \in [Callers -> CallState]
    BY <1>4, CallStateKept DEF RejectExpiredParent, CallState
  <2> QED
    BY <1>4, <2>1 DEF RejectExpiredParent, TypeOK
<1>5. ASSUME NEW id \in TaskIDs, ExtendChain(c, id)
      PROVE  TypeOK'
  <2> DEFINE chain == BuildDelegationChain(id, call.parent,
                        IF call.base = Missing THEN <<>> ELSE call.base.chain,
                        ScopeNarrowed(call), Seconds(clock))
             s == [pc |-> "chained", parent |-> call.parent, base |-> call.base,
                   scopes |-> call.scopes, ttl |-> call.ttl,
                   checkedAt |-> call.checkedAt, id |-> id, chain |-> chain]
  <2>1. call \in Clamped
    BY <1>5, StageTypes DEF ExtendChain
  <2>2. (IF call.base = Missing THEN <<>> ELSE call.base.chain)
          \in Seq(DelegationLink)
    BY <2>1 DEF Clamped, TaskRecord
  <2>3. ScopeNarrowed(call) \in BOOLEAN /\ Seconds(clock) \in Int
    BY SecondsType DEF ScopeNarrowed, TypeOK
  <2>4. chain \in Seq(DelegationLink)
    BY <2>1, <2>2, <2>3, ChainType DEF Clamped
  <2>5. s \in CallState
    BY <2>1, <2>4 DEF CallState, Clamped, Chained
  <2>6. calls' \in [Callers -> CallState]
    BY <1>5, <2>5, CallStateKept DEF ExtendChain
  <2> QED
    BY <1>5, <2>6 DEF ExtendChain, TypeOK
<1>6. CASE Sign(c)
  <2> DEFINE s == [pc |-> "signed", parent |-> call.parent,
                   claims |-> ClaimsOf(call), lag |-> clock - call.checkedAt]
  <2>1. call \in Chained
    BY <1>6, StageTypes DEF Sign
  <2>2. DepthFor(call.base) \in Int
    BY <2>1, IdentityAssumption DEF DepthFor, Chained, TaskRecord
  <2>3. Seconds(clock) \in Int /\ Seconds(clock + call.ttl) \in Int
          /\ Seconds(call.ttl) \in Int
    <3>1. clock \in Int /\ call.ttl \in Int /\ clock + call.ttl \in Int
      BY <2>1 DEF Chained, TypeOK
    <3> QED
      BY <3>1, SecondsType
  <2>4. ClaimsOf(call) \in TaskClaims
    BY <2>1, <2>2, <2>3 DEF ClaimsOf, TaskClaims, Chained
  <2>5. s \in CallState
    BY <2>1, <2>4 DEF CallState, Chained, Signed, TypeOK
  <2>6. calls' \in [Callers -> CallState]
    BY <1>6, <2>5, CallStateKept DEF Sign
  <2> QED
    BY <1>6, <2>6 DEF Sign, TypeOK
<1>7. CASE Persist(c)
  <2>1. call \in Signed
    BY <1>7, StageTypes DEF Persist
  <2>2. RecordOf(call.parent, call.claims) \in TaskRecord
    BY <2>1 DEF RecordOf, TaskRecord, TaskStatus, Signed, TaskClaims
  <2>3. tasks' \in [TaskIDs -> TaskRecord \cup {Missing}]
    BY <1>7, <2>1, <2>2 DEF Persist, InsertTask, TypeOK
  <2>4. [pc |-> "persisted", claims |-> call.claims] \in CallState
    BY <2>1 DEF CallState, Signed, Persisted
  <2>5. calls' \in [Callers -> CallState]
    BY <1>7, <2>4, CallStateKept DEF Persist
  <2>6. lag' \in [TaskIDs -> Int]
    BY <1>7, <2>1 DEF Persist, Signed, TypeOK
  <2> QED
    BY <1>7, <2>3, <2>5, <2>6 DEF Persist, InsertTask, TypeOK
<1>8. CASE Deliver(c)
  <2>1. call \in Persisted
    BY <1>8, StageTypes DEF Deliver
  <2>2. issued' \subseteq TaskClaims
    BY <1>8, <2>1 DEF Deliver, Persisted, TypeOK
  <2>3. calls' \in [Callers -> CallState]
    BY <1>8, CallStateKept DEF Deliver, CallState
  <2> QED
    BY <1>8, <2>2, <2>3 DEF Deliver, TypeOK
<1>9. CASE Abandon(c)
  <2>1. calls' \in [Callers -> CallState]
    BY <1>9, CallStateKept DEF Abandon, CallState
  <2> QED
    BY <1>9, <2>1 DEF Abandon, TypeOK
<1> QED
  BY <1>1, <1>2, <1>3, <1>4, <1>5, <1>6, <1>7, <1>8, <1>9 DEF CreateTask, Proceed

LEMMA NextType == TypeOK /\ [Next]_vars => TypeOK'
<1> SUFFICES ASSUME TypeOK, [Next]_vars PROVE TypeOK'
  OBVIOUS
<1>1. ASSUME NEW c \in Callers, CreateTask(c) PROVE TypeOK'
  BY <1>1, CreateTaskType
<1>2. ASSUME NEW t \in TaskIDs, Revoke(t) PROVE TypeOK'
  <2>1. tasks[t] \in TaskRecord
    BY <1>2 DEF Revoke, RevokeTask, Exists, TypeOK
  <2>2. [tasks[t] EXCEPT !.status = "revoked"] \in TaskRecord
    BY <2>1 DEF TaskRecord, TaskStatus
  <2>3. tasks' \in [TaskIDs -> TaskRecord \cup {Missing}]
    BY <1>2, <2>2 DEF Revoke, RevokeTask, TypeOK
  <2> QED
    BY <1>2, <2>3 DEF Revoke, RevokeTask, TypeOK
<1>3. CASE Tick
  BY <1>3 DEF Tick, TypeOK
<1>4. CASE UNCHANGED vars
  BY <1>4 DEF vars, TypeOK
<1> QED
  BY <1>1, <1>2, <1>3, <1>4 DEF Next

(* The variables of the service always hold values of their kind: no       *)
(* malformed scope and no call without its parent's row ever gets past     *)
(* admission (service.go:55-196).                                          *)
THEOREM TypeCorrect == Spec => []TypeOK
<1>1. Init => TypeOK
  BY InitType
<1>2. TypeOK /\ [Next]_vars => TypeOK'
  BY NextType
<1> QED
  BY <1>1, <1>2, PTL DEF Spec

-----------------------------------------------------------------------------
(* The last element of a sequence that was appended to. *)
LEMMA AppendLast ==
  ASSUME NEW S, NEW s \in Seq(S), NEW e \in S
  PROVE  /\ Len(Append(s, e)) = Len(s) + 1
         /\ Append(s, e)[Len(Append(s, e))] = e
         /\ Append(s, e) # <<>>
  OBVIOUS

(* Between two states every row stays, the same but for its status. *)
RowsKept ==
  \A t \in TaskIDs : Exists(t) => Exists(t)' /\ SameTask(tasks[t], tasks'[t])

(* No handler deletes a row or rewrites it (sqlite.go:59-104, 228-265). *)
LEMMA StepKeepsRows ==
  ASSUME TypeOK, [Next]_vars
  PROVE  RowsKept
<1> SUFFICES ASSUME NEW t \in TaskIDs, Exists(t)
             PROVE  Exists(t)' /\ SameTask(tasks[t], tasks'[t])
  BY DEF RowsKept
<1>1. CASE UNCHANGED tasks
  BY <1>1 DEF Exists, SameTask
<1>2. ASSUME NEW c \in Callers, Persist(c)
      PROVE  Exists(t)' /\ SameTask(tasks[t], tasks'[t])
  <2>1. tasks'[t] = tasks[t]
    BY <1>2 DEF Persist, InsertTask, Exists, TypeOK
  <2> QED
    BY <2>1 DEF Exists, SameTask
<1>3. ASSUME NEW u \in TaskIDs, Revoke(u)
      PROVE  Exists(t)' /\ SameTask(tasks[t], tasks'[t])
  <2>1. tasks[t] \in TaskRecord
    BY DEF TypeOK, Exists
  <2>2. tasks'[t] = tasks[t] \/ tasks'[t] = [tasks[t] EXCEPT !.status = "revoked"]
    BY <1>3 DEF Revoke, RevokeTask, TypeOK
  <2>3. SameTask(tasks[t], tasks'[t])
    BY <2>1, <2>2 DEF SameTask, TaskRecord
  <2>4. tasks'[t] # Missing
    <3>1. CASE u = t
      <4>1. [tasks[t] EXCEPT !.status = "revoked"] \in TaskRecord
        BY <2>1 DEF TaskRecord, TaskStatus
      <4>2. tasks'[t] = [tasks[t] EXCEPT !.status = "revoked"]
        BY <1>3, <3>1 DEF Revoke, RevokeTask, TypeOK
      <4> QED
        BY <4>1, <4>2, RecordAssumption
    <3>2. CASE u # t
      BY <1>3, <3>2 DEF Revoke, RevokeTask, TypeOK, Exists
    <3> QED
      BY <3>1, <3>2
  <2> QED
    BY <2>3, <2>4 DEF Exists
<1> QED
  BY <1>1, <1>2, <1>3
     DEF Next, CreateTask, Proceed, vars, AdmitRoot, AdmitChild, ClampTTL,
         RejectExpiredParent, ExtendChain, Sign, Deliver, Abandon, Tick

(***************************************************************************)
(* What holds of a call goes on holding while others act.                  *)
(***************************************************************************)
LEMMA WellBornKept ==
  ASSUME TypeOK, RowsKept,
         NEW parent \in Identities, NEW id, NEW scopes, NEW chain, NEW depth,
         WellBorn(parent, id, scopes, chain, depth)
  PROVE  WellBorn(parent, id, scopes, chain, depth)'
<1>1. CASE parent \in Humans
  BY <1>1, IdentityAssumption DEF WellBorn
<1>2. CASE parent \in TaskIDs
  <2>1. parent \notin Humans
    BY <1>2, IdentityAssumption
  <2>2. Exists(parent)' /\ SameTask(tasks[parent], tasks'[parent])
    BY <1>2, <2>1 DEF WellBorn, RowsKept
  <2> QED
    BY <2>1, <2>2 DEF WellBorn, SameTask
<1> QED
  BY <1>1, <1>2 DEF Identities

LEMMA BaseSoundKept ==
  ASSUME RowsKept, NEW call, BaseSound(call)
  PROVE  BaseSound(call)'
<1>1. CASE call.parent \in Humans /\ call.base = Missing
  BY <1>1 DEF BaseSound
<1>2. CASE ~(call.parent \in Humans /\ call.base = Missing)
  <2>1. /\ call.parent \in TaskIDs
        /\ Exists(call.parent)
        /\ call.base # Missing
        /\ SameTask(call.base, tasks[call.parent])
        /\ call.base.maxDepth > 0
        /\ ValidateScopes(call.scopes, call.base.scopes)
    BY <1>2 DEF BaseSound
  <2>2. Exists(call.parent)' /\ SameTask(tasks[call.parent], tasks'[call.parent])
    BY <2>1 DEF RowsKept
  <2>3. SameTask(call.base, tasks'[call.parent])
    BY <2>1, <2>2 DEF SameTask
  <2> QED
    BY <2>1, <2>2, <2>3 DEF BaseSound
<1> QED
  BY <1>1, <1>2

LEMMA OnRecordKept ==
  ASSUME RowsKept, NEW k \in TaskClaims, OnRecord(k)
  PROVE  OnRecord(k)'
<1>1. k.sub \in TaskIDs
  BY DEF TaskClaims
<1>2. Exists(k.sub)' /\ SameTask(tasks[k.sub], tasks'[k.sub])
  BY <1>1 DEF RowsKept, OnRecord
<1> QED
  BY <1>2 DEF OnRecord, SameTask

LEMMA CallKept ==
  ASSUME TypeOK, RowsKept, NEW call \in CallState, CallSound(call)
  PROVE  CallSound(call)'
<1>1. call.pc \in {"admitted", "clamped", "chained"} => BaseSound(call)'
  BY BaseSoundKept DEF CallSound
<1>2. call.pc = "chained" => ChainFits(call)'
  BY DEF CallSound, ChainFits
<1>3. ASSUME call.pc = "signed"
      PROVE  WellBorn(call.parent, call.claims.sub, call.claims.scopes,
                      call.claims.chain, call.claims.maxDepth)'
  <2>1. call.parent \in Identities
    BY <1>3 DEF CallState, Idle, Admitted, Clamped, Chained, Signed, Persisted
  <2> QED
    BY <1>3, <2>1, WellBornKept DEF CallSound
<1>4. ASSUME call.pc = "persisted"
      PROVE  OnRecord(call.claims)'
  <2>1. call.claims \in TaskClaims
    BY <1>4 DEF CallState, Idle, Admitted, Clamped, Chained, Signed, Persisted
  <2> QED
    BY <1>4, <2>1, OnRecordKept DEF CallSound
<1> QED
  BY <1>1, <1>2, <1>3, <1>4 DEF CallSound

(* The step of one call leaves the others sound. *)
LEMMA CallsKept ==
  ASSUME TypeOK, RowsKept, CallsSound, NEW c \in Callers, NEW s,
         ToState(c, s), CallSound(s)'
  PROVE  CallsSound'
<1> SUFFICES ASSUME NEW d \in Callers
             PROVE  CallSound(calls[d])'
  BY DEF CallsSound
<1>1. CASE d = c
  BY <1>1 DEF ToState, TypeOK
<1>2. CASE d # c
  <2>1. calls'[d] = calls[d]
    BY <1>2 DEF ToState, TypeOK
  <2>2. calls[d] \in CallState /\ CallSound(calls[d])
    BY DEF TypeOK, CallsSound
  <2> QED
    BY <2>1, <2>2, CallKept
<1> QED
  BY <1>1, <1>2

LEMMA CallsUnmoved ==
  ASSUME TypeOK, RowsKept, CallsSound, UNCHANGED calls
  PROVE  CallsSound'
<1> SUFFICES ASSUME NEW d \in Callers
             PROVE  CallSound(calls[d])'
  BY DEF CallsSound
<1>1. calls[d] \in CallState /\ CallSound(calls[d])
  BY DEF TypeOK, CallsSound
<1> QED
  BY <1>1, CallKept

-----------------------------------------------------------------------------
LEMMA IdleSound == CallSound(Idle) /\ CallSound(Idle)'
  BY DEF CallSound, Idle

(* Each stage of CreateTask hands the next one what it established. *)
LEMMA CreateTaskKeepsCalls ==
  ASSUME TypeOK, RowsKept, CallsSound, NEW c \in Callers, CreateTask(c)
  PROVE  CallsSound'
<1> DEFINE call == calls[c]
<1>1. ASSUME NEW h \in Humans, NEW req \in Requests, AdmitRoot(c, h, req)
      PROVE  CallsSound'
  <2> DEFINE s == [pc |-> "admitted", parent |-> h, base |-> Missing,
                   scopes |-> AllScopes(req), ttl |-> req.ttl]
  <2>1. CallSound(s)'
    BY <1>1 DEF AdmitRoot, CallSound, BaseSound
  <2>2. ToState(c, s)
    BY <1>1 DEF AdmitRoot
  <2> QED
    BY <2>1, <2>2, CallsKept
<1>2. ASSUME NEW p \in TaskIDs, NEW req \in Requests, AdmitChild(c, p, req)
      PROVE  CallsSound'
  <2>1. PICK s : s = [pc |-> "admitted", parent |-> p, base |-> tasks[p],
                      scopes |-> AllScopes(req), ttl |-> req.ttl]
    OBVIOUS
  <2>2. BaseSound(s)
    BY <1>2, <2>1 DEF AdmitChild, BaseSound, MayDelegate, Exists, SameTask
  <2>3. CallSound(s)'
    BY <2>1, <2>2, BaseSoundKept DEF CallSound
  <2> QED
    BY <1>2, <2>1, <2>3, CallsKept DEF AdmitChild
<1>3. CASE ClampTTL(c)
  <2>1. PICK s : s = [pc |-> "clamped", parent |-> call.parent,
                      base |-> call.base, scopes |-> call.scopes,
                      ttl |-> GrantedTTL(call), checkedAt |-> clock]
    OBVIOUS
  <2>2. BaseSound(call)
    BY <1>3 DEF ClampTTL, At, CallsSound, CallSound
  <2>3. BaseSound(s)
    BY <2>1, <2>2 DEF BaseSound
  <2>4. CallSound(s)'
    BY <2>1, <2>3, BaseSoundKept DEF CallSound
  <2> QED
    BY <1>3, <2>1, <2>4, CallsKept DEF ClampTTL
<1>4. CASE RejectExpiredParent(c)
  BY <1>4, IdleSound, CallsKept DEF RejectExpiredParent
<1>5. ASSUME NEW id \in TaskIDs, ExtendChain(c, id)
      PROVE  CallsSound'
  <2>1. PICK chain :
          chain = BuildDelegationChain(id, call.parent,
                    IF call.base = Missing THEN <<>> ELSE call.base.chain,
                    ScopeNarrowed(call), Seconds(clock))
    OBVIOUS
  <2>2. PICK s : s = [pc |-> "chained", parent |-> call.parent,
                      base |-> call.base, scopes |-> call.scopes,
                      ttl |-> call.ttl, checkedAt |-> call.checkedAt,
                      id |-> id, chain |-> chain]
    OBVIOUS
  <2>3. call \in Clamped /\ BaseSound(call)
    BY <1>5, StageTypes DEF ExtendChain, At, CallsSound, CallSound
  <2>4. BaseSound(s)
    BY <2>2, <2>3 DEF BaseSound
  <2>5. ChainFits(s)
    <3>1. CASE call.base = Missing
      <4>1. call.parent \in Humans
        BY <2>3, <3>1 DEF BaseSound
      <4> QED
        BY <2>1, <2>2, <3>1, <4>1 DEF ChainFits, BuildDelegationChain, Link
    <3>2. CASE call.base # Missing
      <4>1. call.parent \notin Humans
        BY <2>3, <3>2, IdentityAssumption DEF BaseSound
      <4>2. call.base.chain \in Seq(DelegationLink)
        BY <2>3, <3>2 DEF Clamped, TaskRecord
      <4>3. PICK l : /\ l = Link("task", id, Seconds(clock), ScopeNarrowed(call))
                     /\ chain = Append(call.base.chain, l)
        BY <2>1, <3>2, <4>1 DEF BuildDelegationChain
      <4>4. l.id = id
        BY <4>3 DEF Link
      <4>5. l \in DelegationLink
        <5>1. ScopeNarrowed(call) \in BOOLEAN /\ Seconds(clock) \in Int /\ id \in Identities
          BY SecondsType DEF ScopeNarrowed, TypeOK, Identities
        <5> QED
          BY <4>3, <5>1 DEF Link, DelegationLink
      <4>6. Len(chain) = Len(call.base.chain) + 1 /\ chain[Len(chain)] = l
              /\ chain # <<>>
        <5>1. PICK old : old = call.base.chain
          OBVIOUS
        <5>2. old \in Seq(DelegationLink) /\ chain = Append(old, l)
          BY <4>2, <4>3, <5>1
        <5>3. /\ Len(Append(old, l)) = Len(old) + 1
              /\ Append(old, l)[Len(Append(old, l))] = l
              /\ Append(old, l) # <<>>
          BY <4>5, <5>2, AppendLast
        <5> QED
          BY <5>1, <5>2, <5>3
      <4>7. l.scopeNarrowed \/ call.scopes = call.base.scopes
        <5>1. PICK b \in BOOLEAN : b = ScopeNarrowed(call)
          BY DEF ScopeNarrowed
        <5>2. l = [type |-> "task", id |-> id, authorizedAt |-> Seconds(clock),
                   scopeNarrowed |-> b]
          BY <4>3, <5>1 DEF Link
        <5>3. l.scopeNarrowed = b
          BY <5>2
        <5>4. b \/ call.scopes = call.base.scopes
          BY <3>2, <5>1 DEF ScopeNarrowed, scopeSetsEqual
        <5> QED
          BY <5>3, <5>4
      <4>8. /\ s.chain = chain /\ s.id = id /\ s.base = call.base
            /\ s.scopes = call.scopes
        BY <2>2
      <4>9. s.chain[Len(s.chain)] = l
        BY <4>6, <4>8
      <4> QED
        BY <3>2, <4>3, <4>4, <4>6, <4>7, <4>8, <4>9 DEF ChainFits
    <3> QED
      BY <3>1, <3>2
  <2>6. CallSound(s)'
    <3>1. BaseSound(s)'
      BY <2>4, BaseSoundKept
    <3>2. ChainFits(s)'
      BY <2>5 DEF ChainFits
    <3> QED
      BY <2>2, <3>1, <3>2 DEF CallSound
  <2> QED
    BY <1>5, <2>1, <2>2, <2>6, CallsKept DEF ExtendChain
<1>6. CASE Sign(c)
  <2>1. PICK k : k = ClaimsOf(call)
    OBVIOUS
  <2>2. PICK s : s = [pc |-> "signed", parent |-> call.parent, claims |-> k,
                      lag |-> clock - call.checkedAt]
    OBVIOUS
  <2>3. call \in Chained /\ BaseSound(call) /\ ChainFits(call)
    BY <1>6, StageTypes DEF Sign, At, CallsSound, CallSound
  <2>4. /\ k.sub = call.id /\ k.scopes = call.scopes
        /\ k.chain = call.chain /\ k.maxDepth = DepthFor(call.base)
    BY <2>1 DEF ClaimsOf
  <2>5. WellBorn(call.parent, call.id, call.scopes, call.chain, DepthFor(call.base))
    <3>1. CASE call.base = Missing
      BY <2>3, <3>1 DEF BaseSound, ChainFits, WellBorn, DepthFor
    <3>2. CASE call.base # Missing
      BY <2>3, <3>2 DEF BaseSound, ChainFits, WellBorn, DepthFor, SameTask
    <3> QED
      BY <3>1, <3>2
  <2>6. s.parent \in Identities
    BY <2>2, <2>3 DEF Chained
  <2>7. WellBorn(s.parent, k.sub, k.scopes, k.chain, k.maxDepth)
    BY <2>2, <2>4, <2>5
  <2>8. WellBorn(s.parent, k.sub, k.scopes, k.chain, k.maxDepth)'
    BY <2>6, <2>7, WellBornKept
  <2>9. CallSound(s)'
    BY <2>2, <2>8 DEF CallSound
  <2> QED
    BY <1>6, <2>1, <2>2, <2>9, CallsKept DEF Sign
<1>7. CASE Persist(c)
  <2>1. PICK k : k = call.claims
    OBVIOUS
  <2>2. PICK s : s = [pc |-> "persisted", claims |-> k]
    OBVIOUS
  <2>3. k \in TaskClaims /\ call.parent \in Identities
    BY <1>7, <2>1, StageTypes DEF Persist, Signed
  <2>4. tasks'[k.sub] = RecordOf(call.parent, k)
    BY <1>7, <2>1, <2>3 DEF Persist, InsertTask, TaskClaims, TypeOK
  <2>5. RecordOf(call.parent, k) \in TaskRecord
    BY <2>3 DEF RecordOf, TaskRecord, TaskStatus, TaskClaims
  <2>6. OnRecord(k)'
    BY <2>4, <2>5, RecordAssumption DEF OnRecord, Exists, RecordOf
  <2>7. CallSound(s)'
    BY <2>2, <2>6 DEF CallSound
  <2> QED
    BY <1>7, <2>1, <2>2, <2>7, CallsKept DEF Persist
<1>8. CASE Deliver(c)
  BY <1>8, IdleSound, CallsKept DEF Deliver
<1>9. CASE Abandon(c)
  BY <1>9, IdleSound, CallsKept DEF Abandon
<1> QED
  BY <1>1, <1>2, <1>3, <1>4, <1>5, <1>6, <1>7, <1>8, <1>9 DEF CreateTask, Proceed

-----------------------------------------------------------------------------
(***************************************************************************)
(* What each property says of one row.                                     *)
(***************************************************************************)
Born(t) ==
  WellBorn(tasks[t].parent, t, tasks[t].scopes, tasks[t].chain, tasks[t].maxDepth)

Contained(t) ==
  \A a \in TasksOf(tasks[t].chain) :
    Exists(a) /\ ValidateScopes(tasks[t].scopes, tasks[a].scopes)

Rooted(t) ==
  LET r == tasks[t] IN
  /\ Len(r.chain) >= 2
  /\ r.chain[1].type = "human" /\ r.chain[1].id \in Humans
  /\ TasksOf(r.chain) \subseteq TaskIDs
  /\ r.chain[Len(r.chain)].id = t
  /\ r.chain[Len(r.chain) - 1].id = r.parent
  /\ \A i, j \in 1..Len(r.chain) : r.chain[i].id = r.chain[j].id => i = j
  /\ r.parent \in TaskIDs =>
       /\ Exists(r.parent)
       /\ r.chain = Append(tasks[r.parent].chain, r.chain[Len(r.chain)])

Budgeted(t) ==
  /\ tasks[t].maxDepth + Len(tasks[t].chain) = MaxDelegationDepth + 2
  /\ tasks[t].parent \in TaskIDs => tasks[t].maxDepth >= 0

RowSafe(t) == Born(t) /\ Contained(t) /\ Rooted(t) /\ Budgeted(t)

RowsSafe == \A t \in TaskIDs : Exists(t) => RowSafe(t)

LEMMA RowsSafeMeaning ==
  RowsSafe <=> RowsWellBorn /\ NoEscalation /\ ProvenanceChain /\ DepthBudget
  BY DEF RowsSafe, RowSafe, Born, Contained, Rooted, Budgeted,
         RowsWellBorn, NoEscalation, ProvenanceChain, DepthBudget

(* A row that was there stays safe, whatever happens to the others. *)
LEMMA OldRowSafe ==
  ASSUME TypeOK, RowsKept, NEW t \in TaskIDs, Exists(t), RowSafe(t)
  PROVE  RowSafe(t)'
<1>1. SameTask(tasks[t], tasks'[t]) /\ tasks[t] \in TaskRecord
  BY DEF RowsKept, TypeOK, Exists
<1>2. Born(t)'
  <2>1. PICK r : r = tasks[t]
    OBVIOUS
  <2>2. WellBorn(r.parent, t, r.scopes, r.chain, r.maxDepth)
    BY <2>1 DEF RowSafe, Born
  <2>3. r.parent \in Identities
    BY <1>1, <2>1 DEF TaskRecord
  <2>4. WellBorn(r.parent, t, r.scopes, r.chain, r.maxDepth)'
    BY <2>2, <2>3, WellBornKept
  <2> QED
    BY <1>1, <2>1, <2>4 DEF Born, SameTask
<1>3. Contained(t)'
  <2> SUFFICES ASSUME NEW a \in TasksOf(tasks[t].chain)
               PROVE  Exists(a)' /\ ValidateScopes(tasks'[t].scopes, tasks'[a].scopes)
    BY <1>1 DEF Contained, SameTask, TasksOf
  <2>1. a \in TaskIDs /\ Exists(a)
          /\ ValidateScopes(tasks[t].scopes, tasks[a].scopes)
    BY DEF RowSafe, Contained, Rooted
  <2> QED
    BY <1>1, <2>1 DEF RowsKept, SameTask
<1>4. Rooted(t)'
  <2>1. PICK p : p = tasks[t].parent
    OBVIOUS
  <2>2. tasks'[t].chain = tasks[t].chain /\ tasks'[t].parent = p
    BY <1>1, <2>1 DEF SameTask
  <2>3. Rooted(t)
    BY DEF RowSafe
  <2>4. ASSUME p \in TaskIDs
        PROVE  /\ Exists(p)'
               /\ tasks[t].chain = Append(tasks'[p].chain,
                                         tasks[t].chain[Len(tasks[t].chain)])
    <3>1. Exists(p) /\ tasks[t].chain = Append(tasks[p].chain,
                                              tasks[t].chain[Len(tasks[t].chain)])
      BY <2>1, <2>3, <2>4 DEF Rooted
    <3>2. Exists(p)' /\ tasks'[p].chain = tasks[p].chain
      BY <2>4, <3>1 DEF RowsKept, SameTask
    <3> QED
      BY <3>1, <3>2
  <2> QED
    BY <2>1, <2>2, <2>3, <2>4 DEF Rooted, TasksOf
<1>5. Budgeted(t)'
  BY <1>1 DEF RowSafe, Budgeted, SameTask
<1> QED
  BY <1>2, <1>3, <1>4, <1>5 DEF RowSafe

(* The links of a chain grown by one. *)
LEMMA GrownChain ==
  ASSUME NEW S, NEW old \in Seq(S), NEW link \in S, NEW chain,
         chain = Append(old, link)
  PROVE  /\ Len(chain) = Len(old) + 1
         /\ chain[Len(chain)] = link
         /\ \A i \in 1..Len(old) : chain[i] = old[i]
  OBVIOUS

(* The row an insert adds is safe: its call was (service.go:168-187). *)
LEMMA NewRowSafe ==
  ASSUME TypeOK, RowsKept, RowsSafe, CallsSound, NEW c \in Callers, Persist(c),
         NEW t, t = calls[c].claims.sub
  PROVE  RowSafe(t)'
<1>1. PICK k, p : k = calls[c].claims /\ p = calls[c].parent
  OBVIOUS
<1>2. k \in TaskClaims /\ p \in Identities /\ t \in TaskIDs /\ t = k.sub
  BY <1>1, StageTypes DEF Persist, Signed, TaskClaims
<1>3. WellBorn(p, t, k.scopes, k.chain, k.maxDepth)
  BY <1>1, <1>2 DEF Persist, At, CallsSound, CallSound
<1>4. /\ ~Exists(t)
      /\ tasks'[t] = RecordOf(p, k)
      /\ \A u \in TaskIDs : u # t => tasks'[u] = tasks[u]
  BY <1>1, <1>2 DEF Persist, InsertTask, TypeOK
<1>5. /\ tasks'[t].parent = p /\ tasks'[t].scopes = k.scopes
      /\ tasks'[t].chain = k.chain /\ tasks'[t].maxDepth = k.maxDepth
  BY <1>4 DEF RecordOf
<1>6. Exists(t)'
  <2>1. RecordOf(p, k) \in TaskRecord
    BY <1>2 DEF RecordOf, TaskRecord, TaskStatus, TaskClaims
  <2> QED
    BY <1>4, <2>1, RecordAssumption DEF Exists
<1>7. Born(t)'
  <2>1. WellBorn(p, t, k.scopes, k.chain, k.maxDepth)'
    BY <1>2, <1>3, WellBornKept
  <2> QED
    BY <1>5, <2>1 DEF Born
<1>8. /\ k.chain \in Seq(DelegationLink)
      /\ k.scopes \in SUBSET Scope
      /\ k.chain # <<>>
      /\ k.chain[Len(k.chain)] \in DelegationLink
      /\ k.chain[Len(k.chain)].id = t
  BY <1>2, <1>3 DEF TaskClaims, WellBorn
<1>9. t \notin Humans
  BY <1>2, IdentityAssumption
<1>10. ValidateScopes(k.scopes, k.scopes)
  BY <1>8, ValidateReflexive
<1>11. CASE p \in Humans
  <2>1. Len(k.chain) = 2 /\ k.chain[1].id = p /\ k.chain[1].type = "human"
          /\ k.maxDepth = MaxDelegationDepth
    BY <1>3, <1>11, IdentityAssumption DEF WellBorn
  <2>2. TasksOf(k.chain) = {t}
    BY <1>8, <2>1 DEF TasksOf
  <2>3. p \notin TaskIDs
    BY <1>11, IdentityAssumption
  <2>4. Contained(t)'
    BY <1>5, <1>6, <1>10, <2>2 DEF Contained, TasksOf
  <2>5. Rooted(t)'
    <3>1. \A i, j \in 1..Len(k.chain) : k.chain[i].id = k.chain[j].id => i = j
      BY <1>8, <1>9, <1>11, <2>1
    <3>2. TasksOf(k.chain) \subseteq TaskIDs
      BY <1>2, <2>2
    <3>3. k.chain[Len(k.chain) - 1].id = p
      BY <2>1
    <3> QED
      BY <1>5, <1>8, <1>11, <2>1, <2>3, <3>1, <3>2, <3>3 DEF Rooted, TasksOf
  <2>6. Budgeted(t)'
    BY <1>5, <2>1, <2>3, IdentityAssumption DEF Budgeted
  <2> QED
    BY <1>7, <2>4, <2>5, <2>6 DEF RowSafe
<1>12. CASE p \in TaskIDs
  <2> DEFINE old == tasks[p].chain
             link == k.chain[Len(k.chain)]
  <2>1. /\ Exists(p)
        /\ tasks[p].maxDepth > 0
        /\ k.maxDepth = tasks[p].maxDepth - 1
        /\ ValidateScopes(k.scopes, tasks[p].scopes)
        /\ k.chain = Append(old, link)
    BY <1>3, <1>12, IdentityAssumption DEF WellBorn
  <2>2. /\ RowSafe(p)
        /\ tasks[p] \in TaskRecord
        /\ old \in Seq(DelegationLink)
    BY <1>12, <2>1 DEF RowsSafe, TypeOK, Exists, TaskRecord
  <2>3. /\ Len(k.chain) = Len(old) + 1
        /\ \A i \in 1..Len(old) : k.chain[i] = old[i]
    BY <1>8, <2>1, <2>2, GrownChain
  <2>4. Rooted(p) /\ Contained(p) /\ Budgeted(p)
    BY <2>2 DEF RowSafe
  <2>5. Len(old) \in Nat /\ Len(old) >= 2
    BY <2>2, <2>4 DEF Rooted
  <2>6. TasksOf(k.chain) = TasksOf(old) \cup {t}
    <3>1. 2..Len(k.chain) = (2..Len(old)) \cup {Len(k.chain)}
      BY <2>3, <2>5
    <3>2. \A i \in 2..Len(old) : k.chain[i] = old[i]
      BY <2>3, <2>5
    <3> QED
      BY <1>8, <3>1, <3>2 DEF TasksOf
  <2>7. \A a \in TasksOf(old) : a \in TaskIDs /\ Exists(a) /\ a # t
    BY <1>4, <2>4 DEF Contained, Rooted
  <2>8. tasks'[p] = tasks[p] /\ p # t
    BY <1>4, <1>12, <2>1
  <2>9. Contained(t)'
    <3> SUFFICES ASSUME NEW a \in TasksOf(k.chain)
                 PROVE  Exists(a)' /\ ValidateScopes(k.scopes, tasks'[a].scopes)
      BY <1>5 DEF Contained, TasksOf
    <3>1. CASE a = t
      BY <1>5, <1>6, <1>10, <3>1
    <3>2. CASE a \in TasksOf(old)
      <4>1. Exists(a)' /\ tasks'[a] = tasks[a]
        BY <1>4, <2>7, <3>2 DEF Exists
      <4>2. ValidateScopes(tasks[p].scopes, tasks[a].scopes)
        BY <2>4, <3>2 DEF Contained
      <4> QED
        BY <2>1, <4>1, <4>2, ValidateTransitive
    <3> QED
      BY <2>6, <3>1, <3>2
  <2>10. Rooted(t)'
    <3>1. k.chain[1].type = "human" /\ k.chain[1].id \in Humans
      BY <2>3, <2>4, <2>5 DEF Rooted
    <3>2. TasksOf(k.chain) \subseteq TaskIDs
      BY <1>2, <2>6, <2>7
    <3>3. k.chain[Len(k.chain) - 1].id = p
      <4>1. old[Len(old)].id = p
        BY <2>4 DEF Rooted
      <4> QED
        BY <2>3, <2>5, <4>1
    <3>4. \A i \in 1..Len(old) : k.chain[i].id # t
      <4> SUFFICES ASSUME NEW i \in 1..Len(old)
                   PROVE  old[i].id # t
        BY <2>3
      <4>1. CASE i = 1
        BY <1>9, <2>4, <4>1 DEF Rooted
      <4>2. CASE i \in 2..Len(old)
        BY <2>7, <4>2 DEF TasksOf
      <4> QED
        BY <2>5, <4>1, <4>2
    <3>5. \A i, j \in 1..Len(k.chain) : k.chain[i].id = k.chain[j].id => i = j
      <4>1. \A i, j \in 1..Len(old) : old[i].id = old[j].id => i = j
        BY <2>4 DEF Rooted
      <4> SUFFICES ASSUME NEW i \in 1..Len(k.chain), NEW j \in 1..Len(k.chain),
                          k.chain[i].id = k.chain[j].id
                   PROVE  i = j
        OBVIOUS
      <4>2. i \in 1..Len(old) \/ i = Len(k.chain)
        BY <2>3, <2>5
      <4>3. j \in 1..Len(old) \/ j = Len(k.chain)
        BY <2>3, <2>5
      <4>4. CASE i \in 1..Len(old) /\ j \in 1..Len(old)
        BY <2>3, <4>1, <4>4
      <4> QED
        BY <1>8, <3>4, <4>2, <4>3, <4>4
    <3>6. Exists(p)' /\ k.chain = Append(tasks'[p].chain, k.chain[Len(k.chain)])
      BY <2>1, <2>8 DEF Exists
    <3> QED
      BY <1>5, <1>8, <2>3, <2>5, <3>1, <3>2, <3>3, <3>5, <3>6 DEF Rooted, TasksOf
  <2>11. Budgeted(t)'
    <3>1. tasks[p].maxDepth \in Int
      BY <2>2 DEF TaskRecord
    <3>2. tasks[p].maxDepth + Len(old) = MaxDelegationDepth + 2
      BY <2>4 DEF Budgeted
    <3>3. PICK m, n : m = tasks[p].maxDepth /\ n = Len(old)
      OBVIOUS
    <3>4. m \in Int /\ n \in Nat /\ m > 0 /\ m + n = MaxDelegationDepth + 2
      BY <2>1, <2>5, <3>1, <3>2, <3>3
    <3>5. tasks'[t].maxDepth = m - 1
      BY <1>5, <2>1, <3>3
    <3>6. Len(tasks'[t].chain) = n + 1
      BY <1>5, <2>3, <3>3
    <3> QED
      BY <3>4, <3>5, <3>6, IdentityAssumption DEF Budgeted
  <2> QED
    BY <1>7, <2>9, <2>10, <2>11 DEF RowSafe
<1> QED
  BY <1>2, <1>11, <1>12 DEF Identities

-----------------------------------------------------------------------------
(***************************************************************************)
(* The inductive step, one part of the invariant at a time.                *)
(***************************************************************************)

(* Only an insert makes a row (sqlite.go:81). *)
LEMMA RowsStep ==
  ASSUME TypeOK, RowsSafe, CallsSound, [Next]_vars
  PROVE  RowsSafe'
<1> SUFFICES ASSUME NEW t \in TaskIDs, Exists(t)'
             PROVE  RowSafe(t)'
  BY DEF RowsSafe
<1>1. RowsKept
  BY StepKeepsRows
<1>2. CASE Exists(t)
  BY <1>1, <1>2, OldRowSafe DEF RowsSafe
<1>3. CASE ~Exists(t)
  <2>1. PICK c \in Callers : Persist(c) /\ t = calls[c].claims.sub
    <3>1. ASSUME UNCHANGED tasks
          PROVE  FALSE
      BY <1>3, <3>1 DEF Exists
    <3>2. ASSUME NEW c \in Callers, Persist(c)
          PROVE  t = calls[c].claims.sub
      BY <1>3, <3>2 DEF Persist, InsertTask, Exists, TypeOK
    <3>3. ASSUME NEW u \in TaskIDs, Revoke(u)
          PROVE  FALSE
      BY <1>3, <3>3 DEF Revoke, RevokeTask, Exists, TypeOK
    <3> QED
      BY <3>1, <3>2, <3>3
         DEF Next, CreateTask, Proceed, vars, AdmitRoot, AdmitChild, ClampTTL,
             RejectExpiredParent, ExtendChain, Sign, Deliver, Abandon, Tick
  <2> QED
    BY <1>1, <2>1, NewRowSafe
<1> QED
  BY <1>2, <1>3

LEMMA CallsStep ==
  ASSUME TypeOK, CallsSound, [Next]_vars
  PROVE  CallsSound'
<1>1. RowsKept
  BY StepKeepsRows
<1>2. ASSUME NEW c \in Callers, CreateTask(c)
      PROVE  CallsSound'
  BY <1>1, <1>2, CreateTaskKeepsCalls
<1>3. CASE UNCHANGED calls
  BY <1>1, <1>3, CallsUnmoved
<1> QED
  BY <1>2, <1>3 DEF Next, Revoke, Tick, vars

(* The scopes a request was accepted with are the ones that are signed     *)
(* (service.go:57-75, 153).                                                *)
LEMMA RequestedStep ==
  ASSUME TypeOK, ScopesRequested, [Next]_vars
  PROVE  ScopesRequested'
<1> DEFINE Sound(s) ==
             /\ s.pc \in {"admitted", "clamped", "chained"} => Requested(s.scopes)
             /\ s.pc = "signed" => Requested(s.claims.scopes)
<1>1. ASSUME NEW c \in Callers, NEW s, ToState(c, s), Sound(s)
      PROVE  ScopesRequested'
  BY <1>1 DEF ScopesRequested, ToState, TypeOK
<1>2. ASSUME NEW c \in Callers, CreateTask(c)
      PROVE  ScopesRequested'
  <2> DEFINE call == calls[c]
  <2>1. ASSUME NEW h \in Humans, NEW req \in Requests, AdmitRoot(c, h, req)
        PROVE  ScopesRequested'
    <3>1. Requested(AllScopes(req))
      BY <2>1 DEF AdmitRoot, Requested
    <3> QED
      BY <1>1, <2>1, <3>1 DEF AdmitRoot
  <2>2. ASSUME NEW p \in TaskIDs, NEW req \in Requests, AdmitChild(c, p, req)
        PROVE  ScopesRequested'
    <3>1. Requested(AllScopes(req))
      BY <2>2 DEF AdmitChild, Requested
    <3>2. PICK s : s = [pc |-> "admitted", parent |-> p, base |-> tasks[p],
                        scopes |-> AllScopes(req), ttl |-> req.ttl]
      OBVIOUS
    <3> QED
      BY <1>1, <2>2, <3>1, <3>2 DEF AdmitChild
  <2>3. CASE ClampTTL(c)
    <3>1. PICK s : s = [pc |-> "clamped", parent |-> call.parent,
                        base |-> call.base, scopes |-> call.scopes,
                        ttl |-> GrantedTTL(call), checkedAt |-> clock]
      OBVIOUS
    <3>2. Requested(s.scopes)
      BY <2>3, <3>1 DEF ClampTTL, At, ScopesRequested
    <3> QED
      BY <1>1, <2>3, <3>1, <3>2 DEF ClampTTL
  <2>4. ASSUME NEW id \in TaskIDs, ExtendChain(c, id)
        PROVE  ScopesRequested'
    <3>1. PICK chain :
            chain = BuildDelegationChain(id, call.parent,
                      IF call.base = Missing THEN <<>> ELSE call.base.chain,
                      ScopeNarrowed(call), Seconds(clock))
      OBVIOUS
    <3>2. PICK s : s = [pc |-> "chained", parent |-> call.parent,
                        base |-> call.base, scopes |-> call.scopes,
                        ttl |-> call.ttl, checkedAt |-> call.checkedAt,
                        id |-> id, chain |-> chain]
      OBVIOUS
    <3>3. Requested(s.scopes)
      BY <2>4, <3>2 DEF ExtendChain, At, ScopesRequested
    <3> QED
      BY <1>1, <2>4, <3>1, <3>2, <3>3 DEF ExtendChain
  <2>5. CASE Sign(c)
    <3>1. PICK k : k = ClaimsOf(call)
      OBVIOUS
    <3>2. PICK s : s = [pc |-> "signed", parent |-> call.parent, claims |-> k,
                        lag |-> clock - call.checkedAt]
      OBVIOUS
    <3>3. Requested(k.scopes)
      BY <2>5, <3>1 DEF Sign, At, ScopesRequested, ClaimsOf
    <3> QED
      BY <1>1, <2>5, <3>1, <3>2, <3>3 DEF Sign
  <2>6. CASE Persist(c)
    <3>1. PICK s : s = [pc |-> "persisted", claims |-> call.claims]
      OBVIOUS
    <3> QED
      BY <1>1, <2>6, <3>1 DEF Persist
  <2>7. CASE RejectExpiredParent(c) \/ Deliver(c) \/ Abandon(c)
    BY <1>1, <2>7 DEF RejectExpiredParent, Deliver, Abandon, Idle
  <2> QED
    BY <1>2, <2>1, <2>2, <2>3, <2>4, <2>5, <2>6, <2>7 DEF CreateTask, Proceed
<1>3. CASE UNCHANGED calls
  BY <1>3 DEF ScopesRequested
<1> QED
  BY <1>2, <1>3 DEF Next, Revoke, Tick, vars

(* A credential leaves the service after its row is in (service.go:185). *)
LEMMA IssuedStep ==
  ASSUME TypeOK, CallsSound, CredentialOnRecord, [Next]_vars
  PROVE  CredentialOnRecord'
<1> SUFFICES ASSUME NEW k \in issued'
             PROVE  OnRecord(k)'
  BY DEF CredentialOnRecord
<1>1. RowsKept
  BY StepKeepsRows
<1>2. k \in TaskClaims /\ OnRecord(k)
  <2>1. CASE k \in issued
    BY <2>1 DEF CredentialOnRecord, TypeOK
  <2>2. CASE k \notin issued
    <3>1. PICK c \in Callers : Deliver(c) /\ k = calls[c].claims
      BY <2>2
         DEF Next, CreateTask, Proceed, vars, AdmitRoot, AdmitChild, ClampTTL,
             RejectExpiredParent, ExtendChain, Sign, Persist, Deliver, Abandon,
             Revoke, Tick
    <3>2. k \in TaskClaims
      BY <3>1, StageTypes DEF Deliver, Persisted
    <3> QED
      BY <3>1, <3>2 DEF Deliver, At, CallsSound, CallSound
  <2> QED
    BY <2>1, <2>2
<1> QED
  BY <1>1, <1>2, OnRecordKept

(* Row and index change together (sqlite.go:228-265). *)
LEMMA IndexStep ==
  ASSUME TypeOK, StatusMatchesIndex, [Next]_vars
  PROVE  StatusMatchesIndex'
<1>1. CASE UNCHANGED <<tasks, revocations>>
  BY <1>1 DEF StatusMatchesIndex, IsRevoked, Exists
<1>2. ASSUME NEW c \in Callers, Persist(c)
      PROVE  StatusMatchesIndex'
  <2>1. PICK t : t = calls[c].claims.sub
    OBVIOUS
  <2>2. t \in TaskIDs
    BY <1>2, <2>1, StageTypes DEF Persist, Signed, TaskClaims
  <2>3. /\ ~Exists(t) /\ revocations' = revocations
        /\ tasks'[t].status = "active"
        /\ \A u \in TaskIDs : u # t => tasks'[u] = tasks[u]
    BY <1>2, <2>1, <2>2 DEF Persist, InsertTask, RecordOf, TypeOK
  <2>4. t \notin revocations
    BY <2>2, <2>3 DEF StatusMatchesIndex, IsRevoked
  <2> QED
    BY <2>3, <2>4 DEF StatusMatchesIndex, IsRevoked, Exists
<1>3. ASSUME NEW t \in TaskIDs, Revoke(t)
      PROVE  StatusMatchesIndex'
  <2>1. tasks[t] \in TaskRecord
    BY <1>3 DEF Revoke, RevokeTask, Exists, TypeOK
  <2>2. /\ tasks'[t] = [tasks[t] EXCEPT !.status = "revoked"]
        /\ revocations' = revocations \cup {t}
        /\ \A u \in TaskIDs : u # t => tasks'[u] = tasks[u]
    BY <1>3 DEF Revoke, RevokeTask, TypeOK
  <2>3. tasks'[t] \in TaskRecord /\ tasks'[t].status = "revoked"
    BY <2>1, <2>2 DEF TaskRecord, TaskStatus
  <2>4. tasks'[t] # Missing
    BY <2>3, RecordAssumption
  <2> QED
    BY <2>2, <2>3, <2>4 DEF StatusMatchesIndex, IsRevoked, Exists
<1> QED
  BY <1>1, <1>2, <1>3
     DEF Next, CreateTask, Proceed, vars, AdmitRoot, AdmitChild, ClampTTL,
         RejectExpiredParent, ExtendChain, Sign, Deliver, Abandon, Tick

LEMMA InitInv == Init => IInv
<1> SUFFICES ASSUME Init PROVE IInv
  OBVIOUS
<1>1. TypeOK
  BY InitType
<1>2. \A t \in TaskIDs : ~Exists(t)
  BY DEF Init, StoreInit, Exists
<1>3. RowsWellBorn /\ NoEscalation /\ ProvenanceChain /\ DepthBudget
  BY <1>2 DEF RowsWellBorn, NoEscalation, ProvenanceChain, DepthBudget
<1>4. CallsSound /\ ScopesRequested
  BY IdleSound DEF Init, CallsSound, ScopesRequested, Idle
<1>5. CredentialOnRecord /\ StatusMatchesIndex
  BY <1>2 DEF Init, StoreInit, CredentialOnRecord, StatusMatchesIndex, IsRevoked
<1> QED
  BY <1>1, <1>3, <1>4, <1>5 DEF IInv

LEMMA NextInv == IInv /\ [Next]_vars => IInv'
<1> SUFFICES ASSUME IInv, [Next]_vars PROVE IInv'
  OBVIOUS
<1>1. /\ TypeOK /\ RowsSafe /\ CallsSound /\ ScopesRequested
      /\ CredentialOnRecord /\ StatusMatchesIndex
  BY RowsSafeMeaning DEF IInv
<1>2. TypeOK'
  BY <1>1, NextType
<1>3. RowsSafe'
  BY <1>1, RowsStep
<1>4. RowsWellBorn' /\ NoEscalation' /\ ProvenanceChain' /\ DepthBudget'
  BY <1>3 DEF RowsSafe, RowSafe, Born, Contained, Rooted, Budgeted,
              RowsWellBorn, NoEscalation, ProvenanceChain, DepthBudget
<1>5. CallsSound' /\ ScopesRequested' /\ CredentialOnRecord' /\ StatusMatchesIndex'
  BY <1>1, CallsStep, RequestedStep, IssuedStep, IndexStep
<1> QED
  BY <1>2, <1>4, <1>5 DEF IInv

LEMMA Invariance == Spec => []IInv
<1>1. Init => IInv
  BY InitInv
<1>2. IInv /\ [Next]_vars => IInv'
  BY NextInv
<1> QED
  BY <1>1, <1>2, PTL DEF Spec

(* No chain of delegations, however long and however its calls interleave, *)
(* gives a task a scope that a task above it lacks (service.go:97).        *)
THEOREM NeverEscalates == Spec => []NoEscalation
  BY Invariance, PTL DEF IInv

(* Every row's chain is its parent's with itself added, from a human root, *)
(* with nobody in it twice (delegation.go:16-55).                          *)
THEOREM AlwaysFromAHuman == Spec => []ProvenanceChain
  BY Invariance, PTL DEF IInv

(* A chain is never longer than the configured depth allows                *)
(* (service.go:93-102).                                                    *)
THEOREM DepthNeverOverdrawn == Spec => []DepthBudget
  BY Invariance, PTL DEF IInv

(* Nobody holds a credential that is not on record under the same claims,  *)
(* hence none that could not be revoked (service.go:185-195).              *)
THEOREM AlwaysRevocable == Spec => []CredentialOnRecord
  BY Invariance, PTL DEF IInv

(* A link says that its task has less than its parent whenever it has      *)
(* (service.go:133-136).                                                   *)
THEOREM NarrowingIsFlagged == Spec => []UnflaggedLinkKeepsAuthority
<1>1. IInv => UnflaggedLinkKeepsAuthority
  <2> SUFFICES ASSUME IInv, NEW t \in TaskIDs, Exists(t), tasks[t].parent \in TaskIDs,
                      ~tasks[t].chain[Len(tasks[t].chain)].scopeNarrowed
               PROVE  Authority(tasks[t].scopes)
                        = Authority(tasks[tasks[t].parent].scopes)
    BY DEF UnflaggedLinkKeepsAuthority
  <2>1. tasks[t].parent \notin Humans
    BY IdentityAssumption
  <2>2. tasks[t].scopes = tasks[tasks[t].parent].scopes
    BY <2>1 DEF IInv, RowsWellBorn, WellBorn
  <2> QED
    BY <2>2
<1> QED
  BY <1>1, Invariance, PTL

(* The status delegation looks at and the index validation looks at agree  *)
(* in every state (sqlite.go:228-265).                                     *)
THEOREM IndexAgrees == Spec => []StatusMatchesIndex
  BY Invariance, PTL DEF IInv
==============================================================================
