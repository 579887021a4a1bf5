------------------------------- MODULE Gateway -------------------------------
(***************************************************************************)
(* The running system: MCP tool calls (pkg/proxy/server.go) and the task   *)
(* API (pkg/proxy/taskapi.go) on top of the identity service, with the     *)
(* audit trail they write (pkg/audit/logger.go) and the upstream services  *)
(* their calls act on.                                                     *)
(*                                                                         *)
(* Each tools/call request, each API request and each command line process *)
(* is an actor of its own.  A request reads the clock, the revocation      *)
(* index, the upstream's answer and the audit table at four moments; calls *)
(* to create and to revoke tasks, and time, go on in between.              *)
(***************************************************************************)
EXTENDS IdentityService, Router

CONSTANTS ToolCalls,    \* tools/call requests, each made once
          Revokers,     \* DELETE /api/v1/tasks/{id} requests in flight
          ApiCallers    \* the CreateTask calls that come through the API; the
                        \* others are the command line's

VARIABLES mcp,        \* [ToolCalls -> the state of the request]
          effects,    \* the requests an upstream service has carried out
          deletes,    \* [Revokers -> the state of the API request]
          recorded,   \* the API creations past their Emit
          events      \* the audit_events table

gatewayVars == <<vars, mcp, effects, deletes, recorded, events>>

ASSUME GatewayAssumption == ApiCallers \subseteq Callers

-----------------------------------------------------------------------------
(***************************************************************************)
(* The audit trail.  An event names what it is about, its chain is what    *)
(* the emitter had in hand.  Emit's error is dropped by every caller, so   *)
(* the row may be missing: the store was busy, or the client had gone and  *)
(* cancelled the context the insert runs under.                            *)
(***************************************************************************)
TaskEvent(kind, task, chain) == [kind |-> kind, task |-> task, chain |-> chain]

(* Mutant: two arguments swapped. *)
SwappedCallEvent(kind, r, result) ==
  [kind |-> result, task |-> mcp[r].claims.sub, chain |-> mcp[r].claims.chain,
   call |-> r, result |-> kind]

CallEvent(kind, r, result) ==
  [kind |-> kind, task |-> mcp[r].claims.sub, chain |-> mcp[r].claims.chain,
   call |-> r, result |-> result]

Emit(e) == events' = events \cup {e} \/ UNCHANGED events

-----------------------------------------------------------------------------
(***************************************************************************)
(* tools/call.  claims is what VerifyToken returned and the rest of the    *)
(* handler works from.  revokedBefore and expiredBefore are history: how   *)
(* the credential stood when the request arrived; diverted, also history,  *)
(* that a redirect led the upstream call, undone, to an answer about       *)
(* something else (Adapters has the detail).  A request whose body does    *)
(* not parse, or whose tool is unknown, ends where it is.                  *)
(***************************************************************************)
Waiting == [pc |-> "waiting"]

Stage == {"received", "verified", "authenticated", "denied", "calling",
          "returned", "answered", "refused", "dead", "lost"}

Outcome == {"none", "success", "upstream_error", "error"}

ToolCall == [pc : Stage, claims : TaskClaims, tool : ToolNames, outcome : Outcome,
             revokedBefore : BOOLEAN, expiredBefore : BOOLEAN, diverted : BOOLEAN]

In(r, stage) == mcp[r].pc = stage

Advance(r, stage) == mcp' = [mcp EXCEPT ![r].pc = stage]

Expired(claims) == clock >= Ticks(claims.exp)

Arrive(r, claims, tool) ==
  /\ In(r, "waiting")
  /\ mcp' = [mcp EXCEPT ![r] =
       [pc |-> "received", claims |-> claims, tool |-> tool, outcome |-> "none",
        revokedBefore |-> IsRevoked(claims.sub), expiredBefore |-> Expired(claims),
        diverted |-> FALSE]]
  /\ UNCHANGED <<vars, effects, deletes, recorded, events>>

(* VerifyToken: signature and issuer are those of every issued credential, *)
(* so the clock decides.                                                   *)
VerifyToken(r) ==
  /\ In(r, "received")
  /\ Advance(r, IF Expired(mcp[r].claims) THEN "refused" ELSE "verified")
  /\ UNCHANGED <<vars, effects, deletes, recorded, events>>

(* Mutant: a lookup that fails counts as not revoked. *)
CheckFailsOpen(r) ==
  /\ In(r, "verified")
  /\ Advance(r, "authenticated")
  /\ UNCHANGED <<vars, effects, deletes, recorded, events>>

(* The revocation lookup; a lookup that fails refuses the request too. *)
CheckRevocation(r) ==
  /\ In(r, "verified")
  /\ \/ ~IsRevoked(mcp[r].claims.sub) /\ Advance(r, "authenticated")
     \/ Advance(r, "refused")
  /\ UNCHANGED <<vars, effects, deletes, recorded, events>>

(* The scope check, on the token and the router: neither ever changes. *)
CheckScope(r) ==
  /\ In(r, "authenticated")
  /\ Advance(r, IF hasScope(mcp[r].claims.scopes, RequiredScope(mcp[r].tool))
                  THEN "calling" ELSE "denied")
  /\ UNCHANGED <<vars, effects, deletes, recorded, events>>

EmitDenied(r) ==
  /\ In(r, "denied")
  /\ Emit(CallEvent("scope.denied", r, "none"))
  /\ Advance(r, "answered")
  /\ UNCHANGED <<vars, effects, deletes, recorded>>

(* The upstream may carry out a request while the call is open, and also   *)
(* after the call failed, an intermediary had stopped waiting, or its      *)
(* process went, but not once success was reported.                        *)
Sent(r) ==
  \/ mcp[r].pc \in {"calling", "lost"} /\ mcp[r].outcome = "none"
  \/ mcp[r].pc \in {"returned", "answered", "lost"} /\ mcp[r].outcome \in {"error", "upstream_error"}

TakeEffect(r) ==
  /\ r \notin effects
  /\ Sent(r)
  /\ effects' = effects \cup {r}
  /\ UNCHANGED <<vars, mcp, deletes, recorded, events>>

(* Invoke returns.  A status below 400 says the upstream did it, unless it *)
(* is a 3xx or that of the GET which http.Client made of a redirected      *)
(* request; a higher one, or an error, says nothing.                       *)
Return(r, outcome, diverted) ==
  /\ In(r, "calling")
  /\ diverted => outcome = "success" /\ r \notin effects
  /\ outcome = "success" => r \in effects \/ diverted
  /\ mcp' = [mcp EXCEPT ![r].pc = "returned", ![r].outcome = outcome,
                        ![r].diverted = diverted]
  /\ UNCHANGED <<vars, effects, deletes, recorded, events>>

EmitInvoked(r) ==
  /\ In(r, "returned")
  /\ Emit(CallEvent("tool.invoked", r, mcp[r].outcome))
  /\ Advance(r, "answered")
  /\ UNCHANGED <<vars, effects, deletes, recorded>>

(* The handler ends without finishing: a crash, or a shutdown that ran out *)
(* of time.  "lost" is the end of one that had made its upstream call.     *)
Kill(r) ==
  /\ mcp[r].pc \notin {"waiting", "answered", "refused", "dead", "lost"}
  /\ Advance(r, IF mcp[r].pc \in {"calling", "returned"} THEN "lost" ELSE "dead")
  /\ UNCHANGED <<vars, effects, deletes, recorded, events>>

HandleMCP(r) ==
  \/ \E claims \in issued, tool \in ToolNames : Arrive(r, claims, tool)
  \/ VerifyToken(r)
  \/ CheckRevocation(r)
  \/ CheckScope(r)
  \/ EmitDenied(r)
  \/ TakeEffect(r)
  \/ \E outcome \in Outcome \ {"none"}, diverted \in BOOLEAN : Return(r, outcome, diverted)
  \/ EmitInvoked(r)
  \/ Kill(r)
-----------------------------------------------------------------------------
(***************************************************************************)
(* The identity service's steps, as the gateway makes them.  A creation    *)
(* through the API writes its event between the insert and the reply; one  *)
(* from the command line, and a revocation from there, write none.         *)
(***************************************************************************)
EmitCreated(c) ==
  /\ At(c, "persisted")
  /\ c \in ApiCallers \ recorded
  /\ Emit(TaskEvent("task.created", calls[c].claims.sub, calls[c].claims.chain))
  /\ recorded' = recorded \cup {c}
  /\ UNCHANGED <<vars, mcp, effects, deletes>>

CreateProceeds(c) ==
  /\ Proceed(c)
  /\ UNCHANGED <<mcp, effects, deletes, recorded, events>>

CreateReturns(c) ==
  /\ c \in ApiCallers => c \in recorded
  /\ Deliver(c)
  /\ recorded' = recorded \ {c}
  /\ UNCHANGED <<mcp, effects, deletes, events>>

CreateEnds(c) ==
  /\ Abandon(c)
  /\ recorded' = recorded \ {c}
  /\ UNCHANGED <<mcp, effects, deletes, events>>

HandleCreate(c) ==
  \/ CreateProceeds(c)
  \/ EmitCreated(c)
  \/ CreateReturns(c)
  \/ CreateEnds(c)

(* Mutant: the row's chain is not kept for the event. *)
FoundBare(t, chain) == [pc |-> "found", task |-> t, chain |-> <<>>]

Found(t, chain) == [pc |-> "found", task |-> t, chain |-> chain]

(* DELETE /api/v1/tasks/{id}: look the task up, revoke it, write the event. *)
LookUp(v, t) ==
  /\ deletes[v].pc = "idle"
  /\ Exists(t)
  /\ deletes' = [deletes EXCEPT ![v] = Found(t, tasks[t].chain)]
  /\ UNCHANGED <<vars, mcp, effects, recorded, events>>

(* Mutant: the store's error is ignored. *)
CommitUnchecked(v) ==
  /\ deletes[v].pc = "found"
  /\ Revoke(deletes[v].task) \/ UNCHANGED vars
  /\ deletes' = [deletes EXCEPT ![v].pc = "revoked"]
  /\ UNCHANGED <<mcp, effects, recorded, events>>

CommitRevocation(v) ==
  /\ deletes[v].pc = "found"
  /\ Revoke(deletes[v].task)
  /\ deletes' = [deletes EXCEPT ![v].pc = "revoked"]
  /\ UNCHANGED <<mcp, effects, recorded, events>>

EmitRevoked(v) ==
  /\ deletes[v].pc = "revoked"
  /\ Emit(TaskEvent("credential.revoked", deletes[v].task, deletes[v].chain))
  /\ deletes' = [deletes EXCEPT ![v] = Idle]
  /\ UNCHANGED <<vars, mcp, effects, recorded>>

(* The store fails, the client hangs up, the process dies. *)
GiveUp(v) ==
  /\ deletes[v].pc # "idle"
  /\ deletes' = [deletes EXCEPT ![v] = Idle]
  /\ UNCHANGED <<vars, mcp, effects, recorded, events>>

HandleRevoke(v) ==
  \/ \E t \in TaskIDs : LookUp(v, t)
  \/ CommitRevocation(v)
  \/ EmitRevoked(v)
  \/ GiveUp(v)

(* agentid task revoke, and time. *)
Elsewhere ==
  /\ Tick \/ \E t \in TaskIDs : Revoke(t)
  /\ UNCHANGED <<mcp, effects, deletes, recorded, events>>

GatewayInit ==
  /\ Init
  /\ mcp = [r \in ToolCalls |-> Waiting]
  /\ effects = {}
  /\ deletes = [v \in Revokers |-> Idle]
  /\ recorded = {}
  /\ events = {}

GatewayNext ==
  \/ \E c \in Callers : HandleCreate(c)
  \/ \E r \in ToolCalls : HandleMCP(r)
  \/ \E v \in Revokers : HandleRevoke(v)
  \/ Elsewhere

GatewaySpec == GatewayInit /\ [][GatewayNext]_gatewayVars

-----------------------------------------------------------------------------
(***************************************************************************)
(* Properties.                                                             *)
(***************************************************************************)

RevokeState ==
  {Idle} \cup [pc : {"found", "revoked"}, task : TaskIDs, chain : Seq(DelegationLink)]

Event ==
  [kind : {"task.created", "credential.revoked"}, task : TaskIDs,
   chain : Seq(DelegationLink)]
    \cup [kind : {"scope.denied", "tool.invoked"}, task : TaskIDs,
          chain : Seq(DelegationLink), call : ToolCalls, result : Outcome]

(* Every variable holds values of its kind: the locals of the handlers in  *)
(* server.go and taskapi.go by stage, and the audit rows they write.       *)
GatewayTypeOK ==
  /\ mcp \in [ToolCalls -> {Waiting} \cup ToolCall]
  /\ effects \subseteq ToolCalls
  /\ deletes \in [Revokers -> RevokeState]
  /\ recorded \subseteq ApiCallers
  /\ events \subseteq Event

(* A credential that was revoked, or had expired, when a request with it   *)
(* arrived has no effect on any upstream, however late the upstream acts   *)
(* (server.go:86; the checks read the clock and the index at two moments,  *)
(* and a request that passed them before is not called back).              *)
StaleCredentialIsPowerless ==
  \A r \in effects : ~mcp[r].revokedBefore /\ ~mcp[r].expiredBefore

(* What an upstream carries out, every task on the way from the human to   *)
(* the caller was itself allowed to do (server.go:154 looks at the token   *)
(* alone; service.go:97 at the parent alone).                              *)
EffectWithinAuthority ==
  \A r \in effects :
    LET claims == mcp[r].claims IN
    /\ claims.chain[1].id \in Humans
    /\ \A a \in TasksOf(claims.chain) :
         Exists(a) /\ hasScope(tasks[a].scopes, RequiredScope(mcp[r].tool))

(* The audit trail reports nothing that did not happen: a denied call      *)
(* never takes effect, a revocation is in force, and an invocation on      *)
(* record as a success took effect, unless a redirect had led it elsewhere *)
(* (server.go:156, 182-193, taskapi.go:181).                               *)
AuditTellsTheTruth ==
  \A e \in events :
    /\ e.kind = "tool.invoked" /\ e.result = "success" =>
         e.call \in effects \/ mcp[e.call].diverted
    /\ e.kind = "scope.denied" => e.call \notin effects
    /\ e.kind = "credential.revoked" => IsRevoked(e.task)

(* Every event carries the provenance of the task it names, as on record,  *)
(* whichever copy of the chain its emitter had: the token's, the new       *)
(* credential's or the row's (server.go:156-193, taskapi.go:94, 181).      *)
AuditCarriesProvenance ==
  \A e \in events : Exists(e.task) /\ e.chain = tasks[e.task].chain

-----------------------------------------------------------------------------
(***************************************************************************)
(* What the documentation says and the code does not do.                   *)
(***************************************************************************)

(* pkg/proxy/router.go:49-51: "agents only see the tools they're           *)
(* authorized to call".                                                    *)
ShownToolsAreCallable ==
  \A k \in issued : \A tool \in ToolsForScopes(k.scopes) :
    hasScope(k.scopes, RequiredScope(tool))
==============================================================================
