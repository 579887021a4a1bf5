--------------------------- MODULE GatewayInvariant ---------------------------
(***************************************************************************)
(* The inductive invariant behind the gateway's properties, next to IInv   *)
(* of the identity service below it: what a handler learned at one step is *)
(* still so at the next, because a row keeps its chain, a revocation and   *)
(* an expiry are final, and an effect is not undone.                       *)
(***************************************************************************)
EXTENDS Gateway

(* The scope check let the request through. *)
Passed(r) ==
  \/ mcp[r].pc \in {"calling", "returned", "lost"}
  \/ In(r, "answered") /\ mcp[r].outcome # "none"

RequestSound(r) ==
  LET m == mcp[r] IN
  /\ m.claims \in issued
  /\ m.expiredBefore => Expired(m.claims)
  /\ m.revokedBefore => IsRevoked(m.claims.sub)
  /\ m.pc \notin {"received", "refused", "dead"} => ~m.expiredBefore
  /\ m.pc \notin {"received", "verified", "refused", "dead"} => ~m.revokedBefore
  /\ Passed(r) => hasScope(m.claims.scopes, RequiredScope(m.tool))
  /\ m.pc \in {"received", "verified", "authenticated", "denied"} => m.outcome = "none"
  /\ m.pc = "returned" => m.outcome # "none"
  /\ m.outcome = "success" => r \in effects \/ m.diverted

RequestsSound == \A r \in ToolCalls : ~In(r, "waiting") => RequestSound(r)

EffectsPassed == \A r \in effects : ~In(r, "waiting") /\ Passed(r)

InvocationsFinal ==
  \A e \in events : e.kind = "tool.invoked" => In(e.call, "answered")

DeletesSound ==
  \A v \in Revokers :
    LET d == deletes[v] IN
    /\ d.pc # "idle" => Exists(d.task) /\ d.chain = tasks[d.task].chain
    /\ d.pc = "revoked" => IsRevoked(d.task)

DenialsFinal ==
  \A e \in events :
    e.kind = "scope.denied" => In(e.call, "answered") /\ mcp[e.call].outcome = "none"

GInv ==
  /\ GatewayTypeOK
  /\ RequestsSound
  /\ EffectsPassed
  /\ DeletesSound
  /\ DenialsFinal
  /\ InvocationsFinal
  /\ AuditTellsTheTruth
  /\ AuditCarriesProvenance
===============================================================================
