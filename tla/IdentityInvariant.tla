-------------------------- MODULE IdentityInvariant --------------------------
(***************************************************************************)
(* The inductive invariant behind the safety of the identity service.  The *)
(* properties alone are not inductive: they speak of rows, and a row is    *)
(* the work of a call that checked its parent steps earlier.  What carries *)
(* the checks from the read to the insert is that a row, once there, never *)
(* changes but in its status.                                              *)
(***************************************************************************)
EXTENDS IdentityRefinement

(* Two states of one row. *)
SameTask(r, s) ==
  /\ r.parent = s.parent /\ r.scopes = s.scopes
  /\ r.chain = s.chain /\ r.maxDepth = s.maxDepth
  /\ r.createdAt = s.createdAt /\ r.expiresAt = s.expiresAt

(* What CreateTask's checks established about a call on its parent. *)
BaseSound(call) ==
  \/ call.parent \in Humans /\ call.base = Missing
  \/ /\ call.parent \in TaskIDs
     /\ Exists(call.parent)
     /\ call.base # Missing
     /\ SameTask(call.base, tasks[call.parent])
     /\ call.base.maxDepth > 0
     /\ ValidateScopes(call.scopes, call.base.scopes)

(* The relation of a task to its parent, of a row and of signed claims. *)
WellBorn(parent, id, scopes, chain, depth) ==
  /\ chain # <<>>
  /\ chain[Len(chain)].id = id
  /\ \/ /\ parent \in Humans
        /\ Len(chain) = 2
        /\ chain[1].id = parent
        /\ chain[1].type = "human"
        /\ depth = MaxDelegationDepth
     \/ /\ parent \in TaskIDs
        /\ Exists(parent)
        /\ tasks[parent].maxDepth > 0
        /\ depth = tasks[parent].maxDepth - 1
        /\ ValidateScopes(scopes, tasks[parent].scopes)
        /\ chain = Append(tasks[parent].chain, chain[Len(chain)])
        /\ chain[Len(chain)].scopeNarrowed \/ scopes = tasks[parent].scopes

RowsWellBorn ==
  \A t \in TaskIDs : Exists(t) =>
    WellBorn(tasks[t].parent, t, tasks[t].scopes, tasks[t].chain, tasks[t].maxDepth)

ChainFits(call) ==
  call.chain # <<>> /\ call.chain[Len(call.chain)].id = call.id
    /\ IF call.base = Missing
         THEN /\ Len(call.chain) = 2
              /\ call.chain[1].id = call.parent
              /\ call.chain[1].type = "human"
         ELSE /\ call.chain = Append(call.base.chain, call.chain[Len(call.chain)])
              /\ \/ call.chain[Len(call.chain)].scopeNarrowed
                 \/ call.scopes = call.base.scopes

CallSound(call) ==
  /\ call.pc \in {"admitted", "clamped", "chained"} => BaseSound(call)
  /\ call.pc = "chained" => ChainFits(call)
  /\ call.pc = "signed" =>
       WellBorn(call.parent, call.claims.sub, call.claims.scopes,
                call.claims.chain, call.claims.maxDepth)
  /\ call.pc = "persisted" => OnRecord(call.claims)

CallsSound == \A c \in Callers : CallSound(calls[c])

(* The scopes a call carries are those of a request it accepted. *)
Requested(scopes) ==
  \E req \in Requests : Acceptable(req) /\ scopes = AllScopes(req)

ScopesRequested ==
  \A c \in Callers :
    /\ calls[c].pc \in {"admitted", "clamped", "chained"} => Requested(calls[c].scopes)
    /\ calls[c].pc = "signed" => Requested(calls[c].claims.scopes)

IInv ==
  /\ TypeOK
  /\ RowsWellBorn
  /\ CallsSound
  /\ ScopesRequested
  /\ CredentialOnRecord
  /\ NoEscalation
  /\ ProvenanceChain
  /\ DepthBudget
  /\ StatusMatchesIndex

-----------------------------------------------------------------------------
(***************************************************************************)
(* The dates.  CreateTask reads the clock three times, and what bounds the *)
(* dates of a row is what each read left in the call: how long after the   *)
(* check the claims were signed is the only slack there is.                *)
(***************************************************************************)

(* The last link of a chain is no older than the parent's row and no       *)
(* younger than date.                                                      *)
Follows(parent, chain, date) ==
  /\ chain[Len(chain)].authorizedAt <= date
  /\ parent \in TaskIDs => tasks[parent].createdAt <= chain[Len(chain)].authorizedAt

Timely(call) ==
  /\ call.pc \in {"clamped", "chained"} =>
       /\ call.checkedAt <= clock
       /\ call.ttl <= MaxTTL
       /\ call.base # Missing =>
            call.checkedAt + call.ttl <= Ticks(call.base.expiresAt)
  /\ call.pc = "chained" => Follows(call.parent, call.chain, Seconds(clock))
  /\ call.pc = "signed" =>
       /\ Follows(call.parent, call.claims.chain, call.claims.iat)
       /\ call.claims.iat <= Seconds(clock)
       /\ Ticks(call.claims.exp - call.claims.iat) < MaxTTL + TicksPerSecond
       /\ call.parent \in TaskIDs =>
            call.claims.exp <= tasks[call.parent].expiresAt + Seconds(call.lag)

CallsTimely == \A c \in Callers : Timely(calls[c])

NoRowFromTheFuture ==
  \A t \in TaskIDs : Exists(t) => tasks[t].createdAt <= Seconds(clock)

TimeInv ==
  /\ NoRowFromTheFuture
  /\ CallsTimely
  /\ DatesInOrder
  /\ OutlivesOnlyByPause
  /\ LifetimeWithinLimit
==============================================================================
