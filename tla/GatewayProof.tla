----------------------------- MODULE GatewayProof -----------------------------
(***************************************************************************)
(* The gateway runs the identity service, so that every theorem about the  *)
(* service holds of it; on top of IInv its own invariant GInv is inductive *)
(* and gives what the tool calls and the audit trail promise.              *)
(***************************************************************************)
EXTENDS GatewayInvariant, DelegationProof

(***************************************************************************)
(* Types.                                                                  *)
(***************************************************************************)
LEMMA RequestType ==
  ASSUME GatewayTypeOK, NEW r \in ToolCalls, ~In(r, "waiting")
  PROVE  mcp[r] \in ToolCall
  BY DEF GatewayTypeOK, In, Waiting

LEMMA AdvanceType ==
  ASSUME GatewayTypeOK, NEW r \in ToolCalls, ~In(r, "waiting"),
         NEW stage \in Stage, Advance(r, stage)
  PROVE  mcp' \in [ToolCalls -> {Waiting} \cup ToolCall]
<1>1. mcp[r] \in ToolCall
  BY RequestType
<1>2. [mcp[r] EXCEPT !.pc = stage] \in ToolCall
  BY <1>1 DEF ToolCall
<1> QED
  BY <1>2 DEF Advance, GatewayTypeOK

LEMMA CallEventType ==
  ASSUME GatewayTypeOK, NEW r \in ToolCalls, ~In(r, "waiting"),
         NEW kind \in {"scope.denied", "tool.invoked"}, NEW result \in Outcome
  PROVE  CallEvent(kind, r, result) \in Event
<1>1. mcp[r].claims \in TaskClaims
  BY RequestType DEF ToolCall
<1>2. mcp[r].claims.sub \in TaskIDs /\ mcp[r].claims.chain \in Seq(DelegationLink)
  BY <1>1 DEF TaskClaims
<1> QED
  BY <1>2 DEF CallEvent, Event

(* A request a handler has in hand is not a waiting one. *)
LEMMA HandledTypes ==
  ASSUME TypeOK, GatewayTypeOK, NEW r \in ToolCalls, HandleMCP(r)
  PROVE  /\ mcp' \in [ToolCalls -> {Waiting} \cup ToolCall]
         /\ effects' \subseteq ToolCalls
         /\ events' \subseteq Event
<1>1. ASSUME NEW k \in issued, NEW tool \in ToolNames, Arrive(r, k, tool)
      PROVE  mcp' \in [ToolCalls -> {Waiting} \cup ToolCall]
  <2>1. k \in TaskClaims
    BY DEF TypeOK
  <2>2. IsRevoked(k.sub) \in BOOLEAN /\ Expired(k) \in BOOLEAN
    BY DEF IsRevoked, Expired
  <2>3. [pc |-> "received", claims |-> k, tool |-> tool, outcome |-> "none",
         revokedBefore |-> IsRevoked(k.sub), expiredBefore |-> Expired(k),
         diverted |-> FALSE] \in ToolCall
    BY <2>1, <2>2 DEF ToolCall, Stage, Outcome
  <2> QED
    BY <1>1, <2>3 DEF Arrive, GatewayTypeOK
<1>2. ASSUME NEW outcome \in Outcome \ {"none"}, NEW diverted \in BOOLEAN,
             Return(r, outcome, diverted)
      PROVE  mcp' \in [ToolCalls -> {Waiting} \cup ToolCall]
  <2>1. mcp[r] \in ToolCall
    BY <1>2, RequestType DEF Return, In
  <2>2. [mcp[r] EXCEPT !.pc = "returned", !.outcome = outcome, !.diverted = diverted]
          \in ToolCall
    BY <2>1 DEF ToolCall, Stage
  <2> QED
    BY <1>2, <2>2 DEF Return, GatewayTypeOK
<1>3. ASSUME VerifyToken(r) \/ CheckRevocation(r) \/ CheckScope(r) \/ EmitDenied(r)
               \/ EmitInvoked(r) \/ Kill(r)
      PROVE  mcp' \in [ToolCalls -> {Waiting} \cup ToolCall]
  <2>1. ~In(r, "waiting")
    BY <1>3 DEF VerifyToken, CheckRevocation, CheckScope, EmitDenied, EmitInvoked,
                Kill, In
  <2>2. PICK stage \in Stage : Advance(r, stage)
    BY <1>3 DEF VerifyToken, CheckRevocation, CheckScope, EmitDenied, EmitInvoked,
                Kill, Stage
  <2> QED
    BY <2>1, <2>2, AdvanceType
<1>4. CASE TakeEffect(r)
  BY <1>4 DEF TakeEffect, GatewayTypeOK
<1>5. CASE EmitDenied(r)
  <2>1. CallEvent("scope.denied", r, "none") \in Event
    BY <1>5, CallEventType DEF EmitDenied, In, Outcome
  <2> QED
    BY <1>3, <1>5, <2>1 DEF EmitDenied, Emit, GatewayTypeOK
<1>6. CASE EmitInvoked(r)
  <2>1. ~In(r, "waiting")
    BY <1>6 DEF EmitInvoked, In
  <2>2. mcp[r].outcome \in Outcome
    BY <2>1, RequestType DEF ToolCall
  <2>3. CallEvent("tool.invoked", r, mcp[r].outcome) \in Event
    BY <2>1, <2>2, CallEventType
  <2> QED
    BY <1>3, <1>6, <2>3 DEF EmitInvoked, Emit, GatewayTypeOK
<1> QED
  BY <1>1, <1>2, <1>3, <1>4, <1>5, <1>6
     DEF HandleMCP, Arrive, VerifyToken, CheckRevocation, CheckScope, Return, Kill,
         GatewayTypeOK

LEMMA RevokeTypes ==
  ASSUME TypeOK, GatewayTypeOK, NEW v \in Revokers, HandleRevoke(v)
  PROVE  deletes' \in [Revokers -> RevokeState] /\ events' \subseteq Event
<1>1. deletes[v] \in RevokeState /\ Idle \in RevokeState
  BY DEF GatewayTypeOK, RevokeState
<1>2. ASSUME NEW t \in TaskIDs, LookUp(v, t)
      PROVE  deletes' \in [Revokers -> RevokeState] /\ events' \subseteq Event
  <2>1. tasks[t].chain \in Seq(DelegationLink)
    <3>1. tasks[t] \in TaskRecord
      BY <1>2 DEF LookUp, Exists, TypeOK
    <3> QED
      BY <3>1 DEF TaskRecord
  <2>2. Found(t, tasks[t].chain) \in RevokeState
    BY <2>1 DEF Found, RevokeState
  <2> QED
    BY <1>2, <2>2 DEF LookUp, GatewayTypeOK
<1>3. CASE CommitRevocation(v)
  <2>1. [deletes[v] EXCEPT !.pc = "revoked"] \in RevokeState
    BY <1>1, <1>3 DEF CommitRevocation, RevokeState, Idle
  <2> QED
    BY <1>3, <2>1 DEF CommitRevocation, GatewayTypeOK
<1>4. CASE EmitRevoked(v)
  <2>1. TaskEvent("credential.revoked", deletes[v].task, deletes[v].chain) \in Event
    BY <1>1, <1>4 DEF EmitRevoked, RevokeState, Idle, TaskEvent, Event
  <2> QED
    BY <1>1, <1>4, <2>1 DEF EmitRevoked, Emit, GatewayTypeOK
<1>5. CASE GiveUp(v)
  BY <1>1, <1>5 DEF GiveUp, GatewayTypeOK
<1> QED
  BY <1>2, <1>3, <1>4, <1>5 DEF HandleRevoke

LEMMA CreateTypes ==
  ASSUME TypeOK, GatewayTypeOK, NEW c \in Callers, HandleCreate(c)
  PROVE  recorded' \subseteq ApiCallers /\ events' \subseteq Event
<1>1. CASE EmitCreated(c)
  <2>1. PICK k : k = calls[c].claims
    OBVIOUS
  <2>2. k \in TaskClaims
    BY <1>1, <2>1, StageTypes DEF EmitCreated, Persisted
  <2>3. TaskEvent("task.created", k.sub, k.chain) \in Event
    BY <2>2 DEF TaskEvent, Event, TaskClaims
  <2> QED
    BY <1>1, <2>1, <2>3 DEF EmitCreated, Emit, GatewayTypeOK
<1> QED
  BY <1>1 DEF HandleCreate, CreateProceeds, CreateReturns, CreateEnds, GatewayTypeOK

LEMMA GatewayTypeStep ==
  ASSUME TypeOK, GatewayTypeOK, [GatewayNext]_gatewayVars
  PROVE  GatewayTypeOK'
<1>1. ASSUME NEW r \in ToolCalls, HandleMCP(r)
      PROVE  GatewayTypeOK'
  <2>1. UNCHANGED <<deletes, recorded>>
    BY <1>1 DEF HandleMCP, Arrive, VerifyToken, CheckRevocation, CheckScope,
                EmitDenied, TakeEffect, Return, EmitInvoked, Kill
  <2> QED
    BY <1>1, <2>1, HandledTypes DEF GatewayTypeOK
<1>2. ASSUME NEW v \in Revokers, HandleRevoke(v)
      PROVE  GatewayTypeOK'
  <2>1. UNCHANGED <<mcp, effects, recorded>>
    BY <1>2 DEF HandleRevoke, LookUp, CommitRevocation, EmitRevoked, GiveUp
  <2> QED
    BY <1>2, <2>1, RevokeTypes DEF GatewayTypeOK
<1>3. ASSUME NEW c \in Callers, HandleCreate(c)
      PROVE  GatewayTypeOK'
  <2>1. UNCHANGED <<mcp, effects, deletes>>
    BY <1>3 DEF HandleCreate, CreateProceeds, EmitCreated, CreateReturns, CreateEnds
  <2> QED
    BY <1>3, <2>1, CreateTypes DEF GatewayTypeOK
<1>4. CASE Elsewhere
  BY <1>4 DEF Elsewhere, GatewayTypeOK
<1>5. CASE UNCHANGED gatewayVars
  BY <1>5 DEF gatewayVars, GatewayTypeOK
<1> QED
  BY <1>1, <1>2, <1>3, <1>4, <1>5 DEF GatewayNext

(***************************************************************************)
(* A step of the gateway is a step of the service or leaves it alone       *)
(* (server.go only reads the service, taskapi.go goes through it).         *)
(***************************************************************************)
LEMMA ServiceStep ==
  ASSUME GatewayTypeOK, [GatewayNext]_gatewayVars
  PROVE  [Next]_vars
<1>1. CASE UNCHANGED gatewayVars
  BY <1>1 DEF gatewayVars
<1>2. ASSUME NEW c \in Callers, HandleCreate(c)
      PROVE  [Next]_vars
  BY <1>2 DEF HandleCreate, CreateProceeds, EmitCreated, CreateReturns, CreateEnds,
              CreateTask, Next
<1>3. ASSUME NEW r \in ToolCalls, HandleMCP(r)
      PROVE  [Next]_vars
  BY <1>3 DEF HandleMCP, Arrive, VerifyToken, CheckRevocation, CheckScope,
              EmitDenied, TakeEffect, Return, EmitInvoked, Kill
<1>4. ASSUME NEW v \in Revokers, HandleRevoke(v)
      PROVE  [Next]_vars
  <2>1. ASSUME CommitRevocation(v)
        PROVE  Next
    <3>1. deletes[v].task \in TaskIDs
      BY <2>1 DEF CommitRevocation, GatewayTypeOK, RevokeState, Idle
    <3> QED
      BY <2>1, <3>1 DEF CommitRevocation, Next
  <2> QED
    BY <1>4, <2>1 DEF HandleRevoke, LookUp, EmitRevoked, GiveUp
<1>5. CASE Elsewhere
  BY <1>5 DEF Elsewhere, Next
<1> QED
  BY <1>1, <1>2, <1>3, <1>4, <1>5 DEF GatewayNext

(* What a step of the service never takes back. *)
LEMMA ServiceMonotone ==
  ASSUME TypeOK, [Next]_vars
  PROVE  /\ RowsKept
         /\ revocations \subseteq revocations'
         /\ issued \subseteq issued'
         /\ clock' >= clock
<1>1. RowsKept
  BY StepKeepsRows
<1>2. /\ revocations \subseteq revocations'
      /\ issued \subseteq issued'
      /\ clock' = clock \/ clock' = clock + 1
  BY DEF Next, CreateTask, Proceed, vars, AdmitRoot, AdmitChild, ClampTTL,
         RejectExpiredParent, ExtendChain, Sign, Persist, InsertTask, Deliver,
         Abandon, Revoke, RevokeTask, Tick
<1>3. clock \in Int
  BY DEF TypeOK
<1> QED
  BY <1>1, <1>2, <1>3

(***************************************************************************)
(* Requests, one at a time.                                                *)
(***************************************************************************)
RequestInv(r) ==
  /\ ~In(r, "waiting") => RequestSound(r)
  /\ r \in effects => ~In(r, "waiting") /\ Passed(r)

(* Expiry and revocation are final (jwt.go:143, sqlite.go:252-257). *)
LEMMA StaleStaysStale ==
  ASSUME TypeOK, [Next]_vars, NEW k \in TaskClaims
  PROVE  /\ Expired(k) => Expired(k)'
         /\ IsRevoked(k.sub) => IsRevoked(k.sub)'
         /\ k \in issued => k \in issued'
<1>1. clock \in Int /\ clock' >= clock /\ revocations \subseteq revocations'
      /\ issued \subseteq issued'
  BY ServiceMonotone DEF TypeOK
<1>2. clock' \in Int
  BY NextType DEF TypeOK
<1>3. PICK e : e = Ticks(k.exp)
  OBVIOUS
<1>4. e \in Int
  BY <1>3, IdentityAssumption DEF Ticks, TaskClaims
<1>5. Expired(k) => Expired(k)'
  BY <1>1, <1>2, <1>3, <1>4 DEF Expired
<1> QED
  BY <1>1, <1>5 DEF IsRevoked

(* A request nobody handles stays sound. *)
LEMMA RequestKept ==
  ASSUME TypeOK, GatewayTypeOK, [Next]_vars, NEW r \in ToolCalls, RequestInv(r),
         mcp'[r] = mcp[r], r \in effects' <=> r \in effects
  PROVE  RequestInv(r)'
<1>1. CASE In(r, "waiting")
  BY <1>1 DEF RequestInv, In
<1>2. CASE ~In(r, "waiting")
  <2>1. mcp[r].claims \in TaskClaims
    BY <1>2, RequestType DEF ToolCall
  <2>2. PICK k \in TaskClaims : k = mcp[r].claims
    BY <2>1
  <2>3. /\ Expired(k) => Expired(k)'
        /\ IsRevoked(k.sub) => IsRevoked(k.sub)'
        /\ k \in issued => k \in issued'
    BY StaleStaysStale
  <2>4. RequestSound(r)
    BY <1>2 DEF RequestInv
  <2>5. Passed(r)' <=> Passed(r)
    BY DEF Passed, In
  <2>6. RequestSound(r)'
    BY <2>2, <2>3, <2>4, <2>5 DEF RequestSound
  <2> QED
    BY <1>2, <2>5, <2>6 DEF RequestInv, In
<1> QED
  BY <1>1, <1>2

(* Each handler step of server.go:76-196 hands the next one what it checked. *)
LEMMA HandledRequest ==
  ASSUME TypeOK, GatewayTypeOK, NEW r \in ToolCalls, RequestInv(r), HandleMCP(r)
  PROVE  RequestInv(r)'
<1>1. UNCHANGED vars
  BY DEF HandleMCP, Arrive, VerifyToken, CheckRevocation, CheckScope,
         EmitDenied, TakeEffect, Return, EmitInvoked, Kill
<1>2. UNCHANGED <<revocations, clock, issued>>
  BY <1>1 DEF vars
<1>3. PICK m : m = mcp[r]
  OBVIOUS
<1>4. ASSUME NEW k \in issued, NEW tool \in ToolNames, Arrive(r, k, tool)
      PROVE  RequestInv(r)'
  <2>1. PICK b \in BOOLEAN, x \in BOOLEAN :
          (b <=> IsRevoked(k.sub)) /\ (x <=> Expired(k))
    BY DEF IsRevoked, Expired
  <2>2. b = IsRevoked(k.sub) /\ x = Expired(k)
    BY <2>1 DEF IsRevoked, Expired
  <2>3. mcp'[r] = [pc |-> "received", claims |-> k, tool |-> tool, outcome |-> "none",
                   revokedBefore |-> b, expiredBefore |-> x, diverted |-> FALSE]
    BY <1>4, <2>2 DEF Arrive, GatewayTypeOK
  <2>4. r \notin effects' /\ effects' = effects
    BY <1>4 DEF Arrive, RequestInv
  <2>5. /\ mcp'[r].claims = k /\ mcp'[r].pc = "received" /\ mcp'[r].outcome = "none"
        /\ mcp'[r].revokedBefore = b /\ mcp'[r].expiredBefore = x
    BY <2>3
  <2>6. Expired(k)' = Expired(k) /\ IsRevoked(k.sub)' = IsRevoked(k.sub)
    BY <1>2 DEF Expired, IsRevoked
  <2>7. ~Passed(r)'
    BY <2>5 DEF Passed, In
  <2>8. RequestSound(r)'
    BY <1>2, <2>1, <2>5, <2>6, <2>7 DEF RequestSound
  <2> QED
    BY <2>4, <2>8 DEF RequestInv
<1>5. ASSUME ~In(r, "waiting")
      PROVE  m \in ToolCall /\ RequestSound(r)
  BY <1>3, <1>5, RequestType DEF RequestInv
<1>6. CASE VerifyToken(r)
  <2>1. ~In(r, "waiting")
    BY <1>6 DEF VerifyToken, In
  <2>2. PICK stage : stage = IF Expired(m.claims) THEN "refused" ELSE "verified"
    OBVIOUS
  <2>3. mcp'[r] = [m EXCEPT !.pc = stage] /\ effects' = effects
    BY <1>3, <1>6, <2>2 DEF VerifyToken, Advance, GatewayTypeOK
  <2>4. r \notin effects
    BY <1>6 DEF VerifyToken, RequestInv, Passed, In
  <2>5. m \in ToolCall /\ RequestSound(r)
    BY <1>5, <2>1
  <2>6. RequestSound(r)'
    BY <1>2, <1>3, <1>6, <2>2, <2>3, <2>5
       DEF RequestSound, Passed, In, IsRevoked, Expired, ToolCall, VerifyToken
  <2> QED
    BY <2>3, <2>4, <2>6 DEF RequestInv, In
<1>7. CASE CheckRevocation(r)
  <2>1. ~In(r, "waiting")
    BY <1>7 DEF CheckRevocation, In
  <2>2. PICK stage \in {"authenticated", "refused"} :
          Advance(r, stage) /\ (stage = "authenticated" => ~IsRevoked(m.claims.sub))
    BY <1>3, <1>7 DEF CheckRevocation
  <2>3. mcp'[r] = [m EXCEPT !.pc = stage] /\ effects' = effects
    BY <1>3, <1>7, <2>2 DEF CheckRevocation, Advance, GatewayTypeOK
  <2>4. r \notin effects
    BY <1>7 DEF CheckRevocation, RequestInv, Passed, In
  <2>5. m \in ToolCall /\ RequestSound(r)
    BY <1>5, <2>1
  <2>6. RequestSound(r)'
    BY <1>2, <1>3, <1>7, <2>2, <2>3, <2>5
       DEF RequestSound, Passed, In, IsRevoked, Expired, ToolCall, CheckRevocation
  <2> QED
    BY <2>2, <2>3, <2>4, <2>6 DEF RequestInv, In
<1>8. CASE CheckScope(r)
  <2>1. ~In(r, "waiting")
    BY <1>8 DEF CheckScope, In
  <2>2. PICK stage : stage = IF hasScope(m.claims.scopes, RequiredScope(m.tool))
                               THEN "calling" ELSE "denied"
    OBVIOUS
  <2>3. mcp'[r] = [m EXCEPT !.pc = stage] /\ effects' = effects
    BY <1>3, <1>8, <2>2 DEF CheckScope, Advance, GatewayTypeOK
  <2>4. r \notin effects
    BY <1>8 DEF CheckScope, RequestInv, Passed, In
  <2>5. m \in ToolCall /\ RequestSound(r)
    BY <1>5, <2>1
  <2>6. m.outcome = "none"
    BY <1>3, <1>8, <2>5 DEF RequestSound, CheckScope, In
  <2>7. RequestSound(r)'
    BY <1>2, <1>3, <1>8, <2>2, <2>3, <2>5, <2>6
       DEF RequestSound, Passed, In, IsRevoked, Expired, ToolCall, CheckScope
  <2> QED
    BY <2>2, <2>3, <2>4, <2>7 DEF RequestInv, In
<1>9. CASE EmitDenied(r)
  <2>1. ~In(r, "waiting")
    BY <1>9 DEF EmitDenied, In
  <2>2. mcp'[r] = [m EXCEPT !.pc = "answered"] /\ effects' = effects
    BY <1>3, <1>9 DEF EmitDenied, Advance, GatewayTypeOK
  <2>3. r \notin effects
    BY <1>9 DEF EmitDenied, RequestInv, Passed, In
  <2>4. m \in ToolCall /\ RequestSound(r) /\ m.pc = "denied"
    BY <1>3, <1>5, <1>9, <2>1 DEF EmitDenied, In
  <2>5. RequestSound(r)'
    BY <1>2, <1>3, <2>2, <2>4
       DEF RequestSound, Passed, In, IsRevoked, Expired, ToolCall
  <2> QED
    BY <2>2, <2>3, <2>5 DEF RequestInv, In
<1>10. CASE TakeEffect(r)
  <2>1. Sent(r) /\ mcp' = mcp /\ effects' = effects \cup {r}
    BY <1>10 DEF TakeEffect
  <2>2. ~In(r, "waiting") /\ Passed(r)
    BY <2>1 DEF Sent, Passed, In
  <2>3. RequestSound(r)
    BY <1>5, <2>2
  <2>4. RequestSound(r)'
    BY <1>2, <2>1, <2>3 DEF RequestSound, Passed, In, IsRevoked, Expired
  <2> QED
    BY <2>1, <2>2, <2>4 DEF RequestInv, Passed, In
<1>11. ASSUME NEW outcome \in Outcome \ {"none"}, NEW diverted \in BOOLEAN,
              Return(r, outcome, diverted)
       PROVE  RequestInv(r)'
  <2>1. ~In(r, "waiting")
    BY <1>11 DEF Return, In
  <2>2. m \in ToolCall /\ RequestSound(r) /\ m.pc = "calling"
    BY <1>3, <1>5, <1>11, <2>1 DEF Return, In
  <2>3. /\ mcp'[r] = [m EXCEPT !.pc = "returned", !.outcome = outcome, !.diverted = diverted]
        /\ effects' = effects
    BY <1>3, <1>11 DEF Return, GatewayTypeOK
  <2>4. outcome # "none" /\ (outcome = "success" => r \in effects \/ diverted)
    BY <1>11 DEF Return
  <2>5. RequestSound(r)'
    BY <1>2, <1>3, <2>2, <2>3, <2>4
       DEF RequestSound, Passed, In, IsRevoked, Expired, ToolCall
  <2>6. ~In(r, "waiting")' /\ Passed(r)'
    BY <2>2, <2>3 DEF Passed, In, ToolCall
  <2> QED
    BY <2>5, <2>6 DEF RequestInv
<1>12. CASE EmitInvoked(r)
  <2>1. ~In(r, "waiting")
    BY <1>12 DEF EmitInvoked, In
  <2>2. m \in ToolCall /\ RequestSound(r) /\ m.pc = "returned"
    BY <1>3, <1>5, <1>12, <2>1 DEF EmitInvoked, In
  <2>3. mcp'[r] = [m EXCEPT !.pc = "answered"] /\ effects' = effects
    BY <1>3, <1>12 DEF EmitInvoked, Advance, GatewayTypeOK
  <2>4. RequestSound(r)'
    BY <1>2, <1>3, <2>2, <2>3
       DEF RequestSound, Passed, In, IsRevoked, Expired, ToolCall
  <2>5. ~In(r, "waiting")' /\ Passed(r)'
    BY <1>3, <2>2, <2>3 DEF Passed, In, ToolCall, RequestSound
  <2> QED
    BY <2>4, <2>5 DEF RequestInv
<1>13. CASE Kill(r)
  <2>1. ~In(r, "waiting")
    BY <1>13 DEF Kill, In
  <2>2. m \in ToolCall /\ RequestSound(r)
    BY <1>5, <2>1
  <2>3. PICK stage : stage = IF m.pc \in {"calling", "returned"} THEN "lost" ELSE "dead"
    OBVIOUS
  <2>4. mcp'[r] = [m EXCEPT !.pc = stage] /\ effects' = effects
    BY <1>3, <1>13, <2>3 DEF Kill, Advance, GatewayTypeOK
  <2>5. m.pc \notin {"waiting", "answered", "refused", "dead", "lost"}
    BY <1>3, <1>13 DEF Kill
  <2>6. RequestSound(r)'
    BY <1>2, <1>3, <2>2, <2>3, <2>4, <2>5
       DEF RequestSound, Passed, In, IsRevoked, Expired, ToolCall
  <2>7. ~In(r, "waiting")' /\ (r \in effects => Passed(r)')
    BY <1>3, <2>2, <2>3, <2>4, <2>5 DEF Passed, In, ToolCall, RequestInv
  <2> QED
    BY <2>4, <2>6, <2>7 DEF RequestInv
<1> QED
  BY <1>4, <1>6, <1>7, <1>8, <1>9, <1>10, <1>11, <1>12, <1>13 DEF HandleMCP

(* All the requests: a step is one request's, or none's. *)
LEMMA RequestsStep ==
  ASSUME TypeOK, GatewayTypeOK, [GatewayNext]_gatewayVars,
         \A r \in ToolCalls : RequestInv(r)
  PROVE  \A r \in ToolCalls : RequestInv(r)'
<1> SUFFICES ASSUME NEW r \in ToolCalls
             PROVE  RequestInv(r)'
  OBVIOUS
<1>1. [Next]_vars
  BY ServiceStep
<1>2. CASE HandleMCP(r)
  BY <1>2, HandledRequest
<1>3. CASE ~HandleMCP(r)
  <2>1. CASE UNCHANGED <<mcp, effects>>
    BY <1>1, <2>1, RequestKept
  <2>2. ASSUME NEW q \in ToolCalls, HandleMCP(q)
        PROVE  RequestInv(r)'
    <3>1. q # r
      BY <1>3, <2>2
    <3>2. mcp'[r] = mcp[r] /\ (r \in effects' <=> r \in effects)
      BY <2>2, <3>1
         DEF HandleMCP, Arrive, VerifyToken, CheckRevocation, CheckScope, EmitDenied,
             TakeEffect, Return, EmitInvoked, Kill, Advance, GatewayTypeOK
    <3> QED
      BY <1>1, <3>2, RequestKept
  <2> QED
    BY <2>1, <2>2
       DEF GatewayNext, gatewayVars, HandleCreate, CreateProceeds, EmitCreated,
           CreateReturns, CreateEnds, HandleRevoke, LookUp, CommitRevocation,
           EmitRevoked, GiveUp, Elsewhere
<1> QED
  BY <1>2, <1>3

(***************************************************************************)
(* Revocations through the API (taskapi.go:143-190).                       *)
(***************************************************************************)
DeleteSound(v) ==
  LET d == deletes[v] IN
  /\ d.pc # "idle" => Exists(d.task) /\ d.chain = tasks[d.task].chain
  /\ d.pc = "revoked" => IsRevoked(d.task)

LEMMA DeletesStep ==
  ASSUME TypeOK, GatewayTypeOK, DeletesSound, [GatewayNext]_gatewayVars
  PROVE  DeletesSound'
<1> SUFFICES ASSUME NEW v \in Revokers
             PROVE  DeleteSound(v)'
  BY DEF DeletesSound, DeleteSound
<1>1. [Next]_vars /\ deletes[v] \in RevokeState /\ DeleteSound(v)
  BY ServiceStep DEF GatewayTypeOK, DeletesSound, DeleteSound
<1>2. RowsKept /\ revocations \subseteq revocations'
  BY <1>1, ServiceMonotone
<1>3. PICK d : d = deletes[v]
  OBVIOUS
<1>4. d.pc # "idle" => d.task \in TaskIDs /\ d.pc \in {"found", "revoked"}
  BY <1>1, <1>3 DEF RevokeState, Idle
<1>5. ASSUME d.pc # "idle"
      PROVE  /\ Exists(d.task)' /\ d.chain = tasks'[d.task].chain
             /\ IsRevoked(d.task) => IsRevoked(d.task)'
  BY <1>1, <1>2, <1>3, <1>4, <1>5 DEF DeleteSound, RowsKept, SameTask, IsRevoked
<1>6. CASE deletes'[v] = deletes[v]
  BY <1>1, <1>3, <1>5, <1>6 DEF DeleteSound
<1>7. CASE deletes'[v] = Idle
  BY <1>7 DEF DeleteSound, Idle
<1>8. ASSUME NEW t \in TaskIDs, LookUp(v, t)
      PROVE  DeleteSound(v)'
  <2>1. deletes'[v] = Found(t, tasks[t].chain) /\ tasks' = tasks /\ Exists(t)
    BY <1>8 DEF LookUp, GatewayTypeOK, vars
  <2> QED
    BY <2>1 DEF Found, DeleteSound, Exists
<1>9. CASE CommitRevocation(v)
  <2>1. d.pc = "found" /\ Revoke(d.task) /\ deletes'[v] = [d EXCEPT !.pc = "revoked"]
    BY <1>3, <1>9 DEF CommitRevocation, GatewayTypeOK
  <2>2. d \in [pc : {"found", "revoked"}, task : TaskIDs, chain : Seq(DelegationLink)]
    BY <1>1, <1>3, <2>1 DEF RevokeState, Idle
  <2>3. deletes'[v].task = d.task /\ deletes'[v].chain = d.chain
    BY <2>1, <2>2
  <2>4. d.task \in revocations'
    BY <2>1 DEF Revoke, RevokeTask
  <2> QED
    BY <1>5, <2>1, <2>3, <2>4 DEF DeleteSound, IsRevoked
<1>10. deletes'[v] = deletes[v] \/ deletes'[v] = Idle \/ HandleRevoke(v)
  <2>1. ASSUME NEW u \in Revokers, HandleRevoke(u), u # v
        PROVE  deletes'[v] = deletes[v]
    BY <2>1 DEF HandleRevoke, LookUp, CommitRevocation, EmitRevoked, GiveUp, GatewayTypeOK
  <2>2. ASSUME NEW r \in ToolCalls, HandleMCP(r)
        PROVE  deletes' = deletes
    BY <2>2 DEF HandleMCP, Arrive, VerifyToken, CheckRevocation, CheckScope, EmitDenied,
                TakeEffect, Return, EmitInvoked, Kill
  <2>3. ASSUME NEW c \in Callers, HandleCreate(c)
        PROVE  deletes' = deletes
    BY <2>3 DEF HandleCreate, CreateProceeds, EmitCreated, CreateReturns, CreateEnds
  <2>4. Elsewhere \/ UNCHANGED gatewayVars => deletes' = deletes
    BY DEF Elsewhere, gatewayVars
  <2> QED
    BY <2>1, <2>2, <2>3, <2>4 DEF GatewayNext
<1>11. ASSUME EmitRevoked(v) \/ GiveUp(v)
       PROVE  deletes'[v] = Idle
  BY <1>11 DEF EmitRevoked, GiveUp, GatewayTypeOK
<1> QED
  BY <1>6, <1>7, <1>8, <1>9, <1>10, <1>11 DEF HandleRevoke

(***************************************************************************)
(* The audit trail (logger.go:23-36 and its four callers).                 *)
(***************************************************************************)
EventSound(e) ==
  /\ e.task \in TaskIDs /\ Exists(e.task) /\ e.chain = tasks[e.task].chain
  /\ e.kind = "tool.invoked" => e.call \in ToolCalls /\ In(e.call, "answered")
  /\ e.kind = "tool.invoked" /\ e.result = "success" =>
       e.call \in effects \/ mcp[e.call].diverted
  /\ e.kind = "scope.denied" =>
       /\ e.call \in ToolCalls /\ e.call \notin effects
       /\ In(e.call, "answered") /\ mcp[e.call].outcome = "none"
  /\ e.kind = "credential.revoked" => IsRevoked(e.task)

Emitted(e) ==
  \/ \E r \in ToolCalls : EmitDenied(r) /\ e = CallEvent("scope.denied", r, "none")
  \/ \E r \in ToolCalls :
       EmitInvoked(r) /\ e = CallEvent("tool.invoked", r, mcp[r].outcome)
  \/ \E v \in Revokers :
       EmitRevoked(v)
         /\ e = TaskEvent("credential.revoked", deletes[v].task, deletes[v].chain)
  \/ \E c \in Callers :
       EmitCreated(c)
         /\ e = TaskEvent("task.created", calls[c].claims.sub, calls[c].claims.chain)

LEMMA EventsGrow ==
  ASSUME [GatewayNext]_gatewayVars, NEW e \in events'
  PROVE  e \in events \/ Emitted(e)
  BY DEF Emitted, Emit, GatewayNext, gatewayVars, HandleCreate, CreateProceeds,
         EmitCreated, CreateReturns, CreateEnds, HandleMCP, Arrive, VerifyToken,
         CheckRevocation, CheckScope, EmitDenied, TakeEffect, Return, EmitInvoked,
         Kill, Elsewhere, HandleRevoke, LookUp, CommitRevocation, EmitRevoked, GiveUp

(* An answered request stays answered; an effect stays. *)
LEMMA AnswerIsFinal ==
  ASSUME GatewayTypeOK, [GatewayNext]_gatewayVars
  PROVE  /\ effects \subseteq effects'
         /\ \A r \in ToolCalls : In(r, "answered") => mcp'[r] = mcp[r]
<1>1. effects \subseteq effects'
  BY DEF GatewayNext, gatewayVars, HandleCreate, CreateProceeds,
         EmitCreated, CreateReturns, CreateEnds, HandleMCP, Arrive, VerifyToken,
         CheckRevocation, CheckScope, EmitDenied, TakeEffect, Return, EmitInvoked,
         Kill, Elsewhere, HandleRevoke, LookUp, CommitRevocation, EmitRevoked, GiveUp
<1>2. ASSUME NEW r \in ToolCalls, In(r, "answered")
      PROVE  mcp'[r] = mcp[r]
  BY <1>2
     DEF In, Advance, GatewayTypeOK, GatewayNext, gatewayVars, HandleCreate,
         CreateProceeds, EmitCreated, CreateReturns, CreateEnds, HandleMCP, Arrive,
         VerifyToken, CheckRevocation, CheckScope, EmitDenied, TakeEffect, Return,
         EmitInvoked, Kill, Elsewhere, HandleRevoke, LookUp, CommitRevocation,
         EmitRevoked, GiveUp
<1> QED
  BY <1>1, <1>2

(* An event that is true stays true. *)
LEMMA EventKept ==
  ASSUME TypeOK, GatewayTypeOK, [GatewayNext]_gatewayVars,
         \A r \in ToolCalls : RequestInv(r)', NEW e, EventSound(e)
  PROVE  EventSound(e)'
<1>1. RowsKept /\ revocations \subseteq revocations'
  BY ServiceStep, ServiceMonotone
<1>2. Exists(e.task)' /\ e.chain = tasks'[e.task].chain
  BY <1>1 DEF EventSound, RowsKept, SameTask
<1>3. effects \subseteq effects'
  BY AnswerIsFinal
<1>4. ASSUME e.kind = "scope.denied"
      PROVE  /\ In(e.call, "answered")' /\ mcp'[e.call].outcome = "none"
             /\ e.call \notin effects'
  <2>1. PICK r \in ToolCalls : r = e.call
    BY <1>4 DEF EventSound
  <2>2. mcp'[r].pc = "answered" /\ mcp'[r].outcome = "none"
    BY <1>4, <2>1, AnswerIsFinal DEF EventSound, In
  <2>3. ~Passed(r)'
    BY <2>2 DEF Passed, In
  <2>4. r \notin effects'
    BY <2>3 DEF RequestInv
  <2> QED
    BY <2>1, <2>2, <2>4 DEF In
<1>5. ASSUME e.kind = "tool.invoked"
      PROVE  mcp'[e.call] = mcp[e.call]
  BY <1>5, AnswerIsFinal DEF EventSound
<1> QED
  BY <1>1, <1>2, <1>3, <1>4, <1>5 DEF EventSound, IsRevoked, In

(* A new event is true when it is written. *)
LEMMA NewEventSound ==
  ASSUME IInv, GatewayTypeOK, DeletesSound, \A r \in ToolCalls : RequestInv(r),
         \A r \in ToolCalls : RequestInv(r)', NEW e, Emitted(e)
  PROVE  EventSound(e)'
<1>1. ASSUME NEW r \in ToolCalls, ~In(r, "waiting")
      PROVE  LET k == mcp[r].claims
             IN  k.sub \in TaskIDs /\ Exists(k.sub) /\ k.chain = tasks[k.sub].chain
  <2>1. PICK k : k = mcp[r].claims
    OBVIOUS
  <2>2. k \in issued
    BY <1>1, <2>1 DEF RequestInv, RequestSound
  <2>3. k \in TaskClaims /\ OnRecord(k)
    BY <2>2 DEF IInv, TypeOK, CredentialOnRecord
  <2> QED
    BY <2>1, <2>3 DEF OnRecord, TaskClaims
<1>2. ASSUME NEW r \in ToolCalls, EmitDenied(r), e = CallEvent("scope.denied", r, "none")
      PROVE  EventSound(e)'
  <2>1. ~In(r, "waiting") /\ UNCHANGED vars /\ effects' = effects
    BY <1>2 DEF EmitDenied, In
  <2>2. /\ e.kind = "scope.denied" /\ e.call = r /\ e.task = mcp[r].claims.sub
        /\ e.chain = mcp[r].claims.chain
    BY <1>2 DEF CallEvent
  <2>3. e.task \in TaskIDs /\ Exists(e.task)' /\ e.chain = tasks'[e.task].chain
    BY <1>1, <2>1, <2>2 DEF Exists, vars
  <2>4. PICK m \in ToolCall : m = mcp[r]
    BY <2>1, RequestType
  <2>5. m.outcome = "none" /\ mcp'[r] = [m EXCEPT !.pc = "answered"]
    BY <1>2, <2>1, <2>4
       DEF RequestInv, RequestSound, EmitDenied, In, Advance, GatewayTypeOK
  <2>6. mcp'[r].pc = "answered" /\ mcp'[r].outcome = "none"
    BY <2>4, <2>5 DEF ToolCall
  <2>7. r \notin effects'
    BY <2>6 DEF RequestInv, Passed, In
  <2> QED
    BY <2>2, <2>3, <2>6, <2>7 DEF EventSound, In
<1>3. ASSUME NEW r \in ToolCalls, EmitInvoked(r),
             e = CallEvent("tool.invoked", r, mcp[r].outcome)
      PROVE  EventSound(e)'
  <2>1. ~In(r, "waiting") /\ UNCHANGED vars /\ effects' = effects
    BY <1>3 DEF EmitInvoked, In
  <2>2. /\ e.kind = "tool.invoked" /\ e.call = r /\ e.task = mcp[r].claims.sub
        /\ e.chain = mcp[r].claims.chain /\ e.result = mcp[r].outcome
    BY <1>3 DEF CallEvent
  <2>3. e.task \in TaskIDs /\ Exists(e.task)' /\ e.chain = tasks'[e.task].chain
    BY <1>1, <2>1, <2>2 DEF Exists, vars
  <2>4. mcp[r].outcome = "success" => r \in effects' \/ mcp[r].diverted
    BY <2>1 DEF RequestInv, RequestSound
  <2>5. PICK m \in ToolCall : m = mcp[r]
    BY <2>1, RequestType
  <2>6. mcp'[r] = [m EXCEPT !.pc = "answered"]
    BY <1>3, <2>5 DEF EmitInvoked, Advance, GatewayTypeOK
  <2>7. mcp'[r].pc = "answered" /\ mcp'[r].diverted = mcp[r].diverted
    BY <2>5, <2>6 DEF ToolCall
  <2> QED
    BY <2>2, <2>3, <2>4, <2>7 DEF EventSound, In
<1>4. ASSUME NEW v \in Revokers, EmitRevoked(v),
             e = TaskEvent("credential.revoked", deletes[v].task, deletes[v].chain)
      PROVE  EventSound(e)'
  <2>1. PICK d \in RevokeState : d = deletes[v]
    BY DEF GatewayTypeOK
  <2>2. d.pc = "revoked" /\ UNCHANGED vars
    BY <1>4, <2>1 DEF EmitRevoked
  <2>3. d.task \in TaskIDs
    BY <2>1, <2>2 DEF RevokeState, Idle
  <2>4. Exists(d.task) /\ d.chain = tasks[d.task].chain /\ IsRevoked(d.task)
    BY <2>1, <2>2 DEF DeletesSound
  <2>5. e.kind = "credential.revoked" /\ e.task = d.task /\ e.chain = d.chain
    BY <1>4, <2>1 DEF TaskEvent
  <2> QED
    BY <2>2, <2>3, <2>4, <2>5 DEF EventSound, Exists, IsRevoked, vars
<1>5. ASSUME NEW c \in Callers, EmitCreated(c),
             e = TaskEvent("task.created", calls[c].claims.sub, calls[c].claims.chain)
      PROVE  EventSound(e)'
  <2>1. PICK k : k = calls[c].claims
    OBVIOUS
  <2>2. k \in TaskClaims /\ OnRecord(k) /\ UNCHANGED vars
    BY <1>5, <2>1, StageTypes
       DEF EmitCreated, Persisted, IInv, CallsSound, CallSound, At
  <2>3. e.kind = "task.created" /\ e.task = k.sub /\ e.chain = k.chain
    BY <1>5, <2>1 DEF TaskEvent
  <2> QED
    BY <2>2, <2>3 DEF EventSound, OnRecord, Exists, TaskClaims, vars
<1> QED
  BY <1>2, <1>3, <1>4, <1>5 DEF Emitted

(***************************************************************************)
(* GInv, request by request and event by event.                            *)
(***************************************************************************)
LEMMA GInvMeaning ==
  ASSUME GatewayTypeOK
  PROVE  GInv <=> /\ \A r \in ToolCalls : RequestInv(r)
                  /\ DeletesSound
                  /\ \A e \in events : EventSound(e)
<1>1. RequestsSound /\ EffectsPassed <=> \A r \in ToolCalls : RequestInv(r)
  BY DEF RequestsSound, EffectsPassed, RequestInv, GatewayTypeOK
<1>2. ASSUME NEW e \in events
      PROVE  /\ e.task \in TaskIDs
             /\ e.kind \in {"scope.denied", "tool.invoked"} => e.call \in ToolCalls
  BY DEF GatewayTypeOK, Event
<1>3. DenialsFinal /\ InvocationsFinal /\ AuditTellsTheTruth /\ AuditCarriesProvenance
        <=> \A e \in events : EventSound(e)
  BY <1>2 DEF DenialsFinal, InvocationsFinal, AuditTellsTheTruth, AuditCarriesProvenance,
              EventSound
<1> QED
  BY <1>1, <1>3 DEF GInv

LEMMA GatewayInitInv == GatewayInit => IInv /\ GInv
<1> SUFFICES ASSUME GatewayInit PROVE IInv /\ GInv
  OBVIOUS
<1>1. IInv
  BY InitInv DEF GatewayInit
<1>2. GatewayTypeOK
  BY DEF GatewayInit, GatewayTypeOK, RevokeState
<1>3. \A r \in ToolCalls : RequestInv(r)
  BY DEF GatewayInit, RequestInv, In, Waiting
<1>4. DeletesSound
  BY DEF GatewayInit, DeletesSound, Idle
<1>5. \A e \in events : EventSound(e)
  BY DEF GatewayInit
<1> QED
  BY <1>1, <1>2, <1>3, <1>4, <1>5, GInvMeaning

LEMMA GatewayNextInv ==
  IInv /\ GInv /\ [GatewayNext]_gatewayVars => IInv' /\ GInv'
<1> SUFFICES ASSUME IInv, GInv, [GatewayNext]_gatewayVars
             PROVE  IInv' /\ GInv'
  OBVIOUS
<1>1. TypeOK /\ GatewayTypeOK /\ DeletesSound
  BY DEF IInv, GInv
<1>2. (\A r \in ToolCalls : RequestInv(r)) /\ (\A e \in events : EventSound(e))
  BY <1>1, GInvMeaning
<1>3. IInv'
  BY <1>1, ServiceStep, NextInv
<1>4. GatewayTypeOK' /\ DeletesSound'
  BY <1>1, GatewayTypeStep, DeletesStep
<1>5. \A r \in ToolCalls : RequestInv(r)'
  BY <1>1, <1>2, RequestsStep
<1>6. ASSUME NEW e \in events'
      PROVE  EventSound(e)'
  <2>1. e \in events \/ Emitted(e)
    BY EventsGrow
  <2> QED
    BY <1>1, <1>2, <1>5, <2>1, EventKept, NewEventSound
<1>7. GInv'
  <2>1. RequestsSound' /\ EffectsPassed'
    BY <1>4, <1>5 DEF RequestsSound, EffectsPassed, RequestInv, GatewayTypeOK
  <2>2. \A e \in events' :
          e.kind \in {"scope.denied", "tool.invoked"} => e.call \in ToolCalls
    BY <1>4 DEF GatewayTypeOK, Event
  <2>3. DenialsFinal' /\ InvocationsFinal' /\ AuditTellsTheTruth' /\ AuditCarriesProvenance'
    BY <1>6, <2>2
       DEF DenialsFinal, InvocationsFinal, AuditTellsTheTruth, AuditCarriesProvenance,
           EventSound
  <2> QED
    BY <1>4, <2>1, <2>3 DEF GInv
<1> QED
  BY <1>3, <1>7

LEMMA GatewayInvariance == GatewaySpec => [](IInv /\ GInv)
  BY GatewayInitInv, GatewayNextInv, PTL DEF GatewaySpec

-----------------------------------------------------------------------------
(* Every theorem about the identity service holds of the running gateway:  *)
(* whatever its handlers do (server.go, taskapi.go), the service under     *)
(* them behaves as its specification says.                                 *)
THEOREM GatewayRunsService == GatewaySpec => Spec
<1>1. GatewayInit => Init
  BY DEF GatewayInit
<1>2. IInv /\ GInv /\ [GatewayNext]_gatewayVars => [Next]_vars
  BY ServiceStep DEF GInv
<1> QED
  BY <1>1, <1>2, GatewayInvariance, PTL DEF GatewaySpec, Spec

(* To an observer all of the running system, its tool calls, its API and   *)
(* its audit trail included, is atomic delegation of operations.           *)
THEOREM GatewayImplementsDelegation == GatewaySpec => ImplementsDelegation
  BY GatewayRunsService, ServiceImplementsDelegation

(* Discovery and dispatch agree on every tool that has a scope and that    *)
(* one adapter alone offers, no later adapter having that one's name: it   *)
(* is listed for exactly the scopes with which it can be called            *)
(* (router.go:19-30, 33-39, 52-63; server.go:154).                         *)
THEOREM DiscoveryAgrees ==
  ASSUME NEW i \in 1..Len(Adapters), NEW tool, Offers(i, tool),
         \A j \in 1..Len(Adapters) : Offers(j, tool) => j = i,
         \A j \in 1..Len(Adapters) : j > i => Adapters[j].name # Adapters[i].name,
         Adapters[i].scopes[tool] # NoScope,
         NEW scopes
  PROVE  tool \in ToolsForScopes(scopes) <=> hasScope(scopes, RequiredScope(tool))
<1>1. i \in Kept
  BY DEF Kept
<1>2. tool \in ToolNames
  BY DEF ToolNames, Offers
<1>3. Resolve(tool) = i
  <2>1. Offers(i, tool) /\ \A j \in 1..Len(Adapters) : j > i => ~Offers(j, tool)
    OBVIOUS
  <2> QED
    BY <2>1 DEF Resolve
<1>4. tool \in ToolsForScopes(scopes) <=>
        \E j \in Kept : Offers(j, tool) /\ (\/ Adapters[j].scopes[tool] = NoScope
                                          \/ hasScope(scopes, Adapters[j].scopes[tool]))
  BY <1>2 DEF ToolsForScopes
<1> QED
  BY <1>1, <1>3, <1>4 DEF Kept, RequiredScope

(* The variables of the handlers keep their types (server.go, taskapi.go). *)
THEOREM GatewayTypeCorrect == GatewaySpec => []GatewayTypeOK
<1>1. IInv /\ GInv => GatewayTypeOK
  BY DEF GInv
<1> QED
  BY <1>1, GatewayInvariance, PTL

(* No request made with a revoked or expired credential has any effect     *)
(* (service.go:199-216 before server.go:167).                              *)
THEOREM StaleNeverActs == GatewaySpec => []StaleCredentialIsPowerless
<1>1. IInv /\ GInv => StaleCredentialIsPowerless
  BY DEF GInv, EffectsPassed, RequestsSound, RequestSound, Passed, In,
         StaleCredentialIsPowerless, GatewayTypeOK
<1> QED
  BY <1>1, GatewayInvariance, PTL

(* Whatever an upstream carries out, every task on the line from the human *)
(* was itself allowed to do: the token's scope check (server.go:154) and   *)
(* the narrowing checks made when each task of the line was created        *)
(* (service.go:97) compose.                                                *)
THEOREM EffectsAreAuthorized == GatewaySpec => []EffectWithinAuthority
<1>1. ASSUME IInv, GInv, NEW r \in effects
      PROVE  /\ mcp[r].claims.chain[1].id \in Humans
             /\ \A a \in TasksOf(mcp[r].claims.chain) :
                  Exists(a) /\ hasScope(tasks[a].scopes, RequiredScope(mcp[r].tool))
  <2>1. PICK k, q : k = mcp[r].claims /\ q = RequiredScope(mcp[r].tool)
    OBVIOUS
  <2>2. r \in ToolCalls /\ ~In(r, "waiting") /\ Passed(r)
    BY <1>1 DEF GInv, EffectsPassed, GatewayTypeOK
  <2>3. k \in issued /\ hasScope(k.scopes, q)
    BY <1>1, <2>1, <2>2 DEF GInv, RequestsSound, RequestSound
  <2>4. k.sub \in TaskIDs /\ OnRecord(k)
    BY <1>1, <2>3 DEF IInv, TypeOK, TaskClaims, CredentialOnRecord
  <2>5. /\ Exists(k.sub) /\ tasks[k.sub].chain = k.chain
        /\ tasks[k.sub].scopes = k.scopes
    BY <2>4 DEF OnRecord
  <2>6. k.chain[1].id \in Humans
    BY <1>1, <2>4, <2>5 DEF IInv, ProvenanceChain
  <2>7. ASSUME NEW a \in TasksOf(k.chain)
        PROVE  Exists(a) /\ hasScope(tasks[a].scopes, q)
    <3>1. Exists(a) /\ ValidateScopes(k.scopes, tasks[a].scopes)
      BY <1>1, <2>4, <2>5 DEF IInv, NoEscalation
    <3>2. PICK s \in k.scopes : Narrows(q, s)
      BY <2>3 DEF hasScope
    <3>3. PICK p \in tasks[a].scopes : Narrows(s, p)
      BY <3>1 DEF ValidateScopes
    <3>4. Narrows(q, p)
      BY <3>2, <3>3, NarrowsTransitive
    <3> QED
      BY <3>1, <3>4 DEF hasScope
  <2> QED
    BY <2>1, <2>6, <2>7
<1>2. IInv /\ GInv => EffectWithinAuthority
  BY <1>1 DEF EffectWithinAuthority
<1> QED
  BY <1>2, GatewayInvariance, PTL

(* The audit trail never lies, however late an event is written, but of a  *)
(* success where a redirect had led the upstream call elsewhere            *)
(* (server.go:156-193, taskapi.go:94, 181).                                *)
THEOREM AuditNeverLies == GatewaySpec => []AuditTellsTheTruth
<1>1. IInv /\ GInv => AuditTellsTheTruth
  BY DEF GInv
<1> QED
  BY <1>1, GatewayInvariance, PTL

(* Every event names the line of delegation that is on record, whichever   *)
(* copy the emitter had (server.go:156-193, taskapi.go:94, 181).           *)
THEOREM AuditNamesTheLine == GatewaySpec => []AuditCarriesProvenance
<1>1. IInv /\ GInv => AuditCarriesProvenance
  BY DEF GInv
<1> QED
  BY <1>1, GatewayInvariance, PTL
===============================================================================
