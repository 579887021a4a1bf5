--------------------------- MODULE IdentityService ---------------------------
(***************************************************************************)
(* The identity service (pkg/identity/service.go) over the task tables.    *)
(*                                                                         *)
(* CreateTask is not atomic.  It reads the parent row, reads the wall      *)
(* clock to cap the lifetime, reads it again for the delegation link, a    *)
(* third time for the claims it signs, and only then inserts the row;      *)
(* other calls, revocations and time go on between any two of these.       *)
(* Callers are the request goroutines of the gateway and the command line  *)
(* processes that share the database file.                                 *)
(*                                                                         *)
(* Time is a tick counter with TicksPerSecond ticks to the second: JWT     *)
(* dates, row timestamps and delegation links keep whole seconds, while    *)
(* lifetimes are computed on the finer clock.  Purpose and metadata are    *)
(* carried through unread and left out.                                    *)
(***************************************************************************)
EXTENDS Integers, Sequences, Scopes, Bundles, TaskStore

CONSTANTS Callers,             \* concurrent CreateTask calls
          Humans,              \* "human:<email>" parents
          Requests,            \* [scopes, bundles, ttl] a caller may send
          MaxTTL,              \* ServiceConfig.MaxTTL, in ticks
          MaxDelegationDepth,  \* ServiceConfig.MaxDelegationDepth
          TicksPerSecond,
          MaxClock             \* bound of the exploration

VARIABLES clock,   \* the wall clock, in ticks
          calls,   \* [Callers -> the state of its CreateTask call]
          issued,  \* the claims of every credential a caller received
          lag      \* history: ticks between a call's lifetime check and signature

vars == <<tasks, revocations, clock, calls, issued, lag>>

ASSUME IdentityAssumption ==
  /\ Humans \cap TaskIDs = {}
  /\ Requests \subseteq [scopes : SUBSET ScopeString, bundles : SUBSET BundleNames,
                         ttl : Int]
  /\ \A n \in Defined : BundleConfigs[n].scopes \subseteq ScopeString
  /\ MaxTTL \in Int
  /\ MaxDelegationDepth \in Int
  /\ TicksPerSecond \in Nat \ {0}
  /\ MaxClock \in Nat

Seconds(ticks) == ticks \div TicksPerSecond
Ticks(seconds) == seconds * TicksPerSecond

Identities == Humans \cup TaskIDs

DelegationLink == [type : {"human", "task"}, id : Identities, authorizedAt : Int,
                   scopeNarrowed : BOOLEAN]

TaskClaims == [sub : TaskIDs, scopes : SUBSET Scope, chain : Seq(DelegationLink),
               maxDepth : Int, iat : Int, exp : Int, maxTTLSeconds : Int]

TaskRecord == [parent : Identities, scopes : SUBSET Scope, status : TaskStatus,
               chain : Seq(DelegationLink), maxDepth : Int,
               createdAt : Int, expiresAt : Int]

ASSUME RecordAssumption == Missing \notin TaskRecord

-----------------------------------------------------------------------------
(***************************************************************************)
(* The locals of a call, by how far it has come.  base is the parent's row *)
(* as the call read it, Missing for a root task.                           *)
(***************************************************************************)
Idle == [pc |-> "idle"]

Admitted == [pc : {"admitted"}, parent : Identities, base : TaskRecord \cup {Missing},
             scopes : SUBSET Scope, ttl : Int]

Clamped == [pc : {"clamped"}, parent : Identities, base : TaskRecord \cup {Missing},
            scopes : SUBSET Scope, ttl : Int, checkedAt : Int]

Chained == [pc : {"chained"}, parent : Identities, base : TaskRecord \cup {Missing},
            scopes : SUBSET Scope, ttl : Int, checkedAt : Int,
            id : TaskIDs, chain : Seq(DelegationLink)]

Signed == [pc : {"signed"}, parent : Identities, claims : TaskClaims, lag : Int]

Persisted == [pc : {"persisted"}, claims : TaskClaims]

CallState ==
  {Idle} \cup Admitted \cup Clamped \cup Chained \cup Signed \cup Persisted

At(c, pc) == calls[c].pc = pc

ToState(c, s) == calls' = [calls EXCEPT ![c] = s]

(* The id a call in progress has drawn. *)
DrawnIDs ==
  {calls[c].id : c \in {d \in Callers : At(d, "chained")}}
    \cup {calls[c].claims.sub : c \in {d \in Callers : At(d, "signed")}}

-----------------------------------------------------------------------------
(***************************************************************************)
(* CreateTask.  A call that is refused before it changes anything (a bad   *)
(* request, a parent that is missing, not active or out of depth, a scope  *)
(* the parent does not cover) returns an error and leaves every variable   *)
(* as it was: the step is a stutter and has no action of its own.          *)
(***************************************************************************)

(* Bundles resolved, merged with the scopes asked for, deduplicated. *)
AllScopes(req) == req.scopes \cup ResolveBundles(req.bundles)

(* Mutant: nothing is parsed before it is stored. *)
AcceptableUnparsed(req) == ~ResolveFails(req.bundles)

Acceptable(req) ==
  /\ ~ResolveFails(req.bundles)
  /\ \A s \in AllScopes(req) : WellFormed(s)

AdmitRoot(c, h, req) ==
  /\ At(c, "idle")
  /\ Acceptable(req)
  /\ ToState(c, [pc |-> "admitted", parent |-> h, base |-> Missing,
                 scopes |-> AllScopes(req), ttl |-> req.ttl])
  /\ UNCHANGED <<tasks, revocations, clock, issued, lag>>

(* Mutants: one of CreateTask's three checks on the parent dropped. *)
MayDelegateRevoked(row, scopes) ==
  row.maxDepth > 0 /\ ValidateScopes(scopes, row.scopes)

MayDelegateExhausted(row, scopes) ==
  row.status = "active" /\ ValidateScopes(scopes, row.scopes)

MayDelegateUnscoped(row, scopes) ==
  row.status = "active" /\ row.maxDepth > 0

MayDelegate(row, scopes) ==
  /\ row.status = "active"
  /\ row.maxDepth > 0
  /\ ValidateScopes(scopes, row.scopes)

AdmitChild(c, p, req) ==
  /\ At(c, "idle")
  /\ Acceptable(req)
  /\ Exists(p)
  /\ MayDelegate(tasks[p], AllScopes(req))
  /\ ToState(c, [pc |-> "admitted", parent |-> p, base |-> tasks[p],
                 scopes |-> AllScopes(req), ttl |-> req.ttl])
  /\ UNCHANGED <<tasks, revocations, clock, issued, lag>>

(* Mutant: the limit is the default only. *)
DefaultedTTL(ttl) == IF ttl <= 0 THEN MaxTTL ELSE ttl

(* The lifetime the service's own limit leaves. *)
CappedTTL(ttl) == IF ttl <= 0 \/ ttl > MaxTTL THEN MaxTTL ELSE ttl

(* Mutant: a second of leeway. *)
RemainingWithLeeway(base) == Ticks(base.expiresAt + 1) - clock

(* time.Until(parentTask.ExpiresAt), on the row's whole-second expiry. *)
Remaining(base) == Ticks(base.expiresAt) - clock

(* Mutant: the parent's lifetime is checked and not applied. *)
UnclampedTTL(call) == CappedTTL(call.ttl)

GrantedTTL(call) ==
  IF call.base # Missing /\ CappedTTL(call.ttl) > Remaining(call.base)
    THEN Remaining(call.base)
    ELSE CappedTTL(call.ttl)

(* Step 3 of CreateTask: the first clock read, only made for a child. *)
ClampTTL(c) ==
  LET call == calls[c] IN
  /\ At(c, "admitted")
  /\ call.base # Missing => Remaining(call.base) > 0
  /\ ToState(c, [pc |-> "clamped", parent |-> call.parent, base |-> call.base,
                 scopes |-> call.scopes, ttl |-> GrantedTTL(call),
                 checkedAt |-> clock])
  /\ UNCHANGED <<tasks, revocations, clock, issued, lag>>

(* "parent task has expired" *)
RejectExpiredParent(c) ==
  /\ At(c, "admitted")
  /\ calls[c].base # Missing
  /\ Remaining(calls[c].base) <= 0
  /\ ToState(c, Idle)
  /\ UNCHANGED <<tasks, revocations, clock, issued, lag>>

Link(type, id, now, narrowed) ==
  [type |-> type, id |-> id, authorizedAt |-> now, scopeNarrowed |-> narrowed]

(* Mutant: the new link lands on the parent's own (an aliased slice). *)
OverwrittenChain(id, parent, parentChain, narrowed, now) ==
  IF parent \in Humans
    THEN <<Link("human", parent, now, FALSE), Link("task", id, now, narrowed)>>
    ELSE [parentChain EXCEPT ![Len(parentChain)] = Link("task", id, now, narrowed)]

(* The error for an empty parent chain cannot occur: see ProvenanceChain. *)
BuildDelegationChain(id, parent, parentChain, narrowed, now) ==
  IF parent \in Humans
    THEN <<Link("human", parent, now, FALSE), Link("task", id, now, narrowed)>>
    ELSE Append(parentChain, Link("task", id, now, narrowed))

(* Mutant: the flag keeps its initial value. *)
NeverNarrowed(call) == FALSE

ScopeNarrowed(call) ==
  call.base # Missing /\ ~scopeSetsEqual(call.scopes, call.base.scopes)

(* uuid.NewV7: an id no row and no other call has. *)
Fresh(id) == ~Exists(id) /\ id \notin DrawnIDs

(* Steps 4 and 5: draw the id and build the chain, on a second clock read. *)
ExtendChain(c, id) ==
  LET call == calls[c] IN
  /\ At(c, "clamped")
  /\ Fresh(id)
  /\ ToState(c, [pc |-> "chained", parent |-> call.parent, base |-> call.base,
                 scopes |-> call.scopes, ttl |-> call.ttl,
                 checkedAt |-> call.checkedAt, id |-> id,
                 chain |-> BuildDelegationChain(id, call.parent,
                             IF call.base = Missing THEN <<>> ELSE call.base.chain,
                             ScopeNarrowed(call), Seconds(clock))])
  /\ UNCHANGED <<tasks, revocations, clock, issued, lag>>

(* Mutant: a child inherits its parent's depth. *)
InheritedDepth(base) == IF base = Missing THEN MaxDelegationDepth ELSE base.maxDepth

DepthFor(base) ==
  IF base = Missing THEN MaxDelegationDepth ELSE base.maxDepth - 1

(* Mutant: the claims are dated by the first clock read. *)
ClaimsAtCheck(call) ==
  [sub |-> call.id, scopes |-> call.scopes, chain |-> call.chain,
   maxDepth |-> DepthFor(call.base), iat |-> Seconds(call.checkedAt),
   exp |-> Seconds(call.checkedAt + call.ttl), maxTTLSeconds |-> Seconds(call.ttl)]

ClaimsOf(call) ==
  [sub |-> call.id, scopes |-> call.scopes, chain |-> call.chain,
   maxDepth |-> DepthFor(call.base), iat |-> Seconds(clock),
   exp |-> Seconds(clock + call.ttl), maxTTLSeconds |-> Seconds(call.ttl)]

(* Step 6: the third clock read; the claims are fixed and signed. *)
Sign(c) ==
  /\ At(c, "chained")
  /\ ToState(c, [pc |-> "signed", parent |-> calls[c].parent,
                 claims |-> ClaimsOf(calls[c]), lag |-> clock - calls[c].checkedAt])
  /\ UNCHANGED <<tasks, revocations, clock, issued, lag>>

RecordOf(parent, claims) ==
  [parent |-> parent, scopes |-> claims.scopes, status |-> "active",
   chain |-> claims.chain, maxDepth |-> claims.maxDepth,
   createdAt |-> claims.iat, expiresAt |-> claims.exp]

(* Mutant: a failed insert goes unnoticed. *)
PersistUnchecked(c) ==
  LET call == calls[c] IN
  /\ At(c, "signed")
  /\ \/ InsertTask(call.claims.sub, RecordOf(call.parent, call.claims))
     \/ UNCHANGED storeVars
  /\ ToState(c, [pc |-> "persisted", claims |-> call.claims])
  /\ lag' = [lag EXCEPT ![call.claims.sub] = call.lag]
  /\ UNCHANGED <<clock, issued>>

(* Step 7: the row is inserted; nothing of what was checked is checked again. *)
Persist(c) ==
  LET call == calls[c] IN
  /\ At(c, "signed")
  /\ InsertTask(call.claims.sub, RecordOf(call.parent, call.claims))
  /\ ToState(c, [pc |-> "persisted", claims |-> call.claims])
  /\ lag' = [lag EXCEPT ![call.claims.sub] = call.lag]
  /\ UNCHANGED <<clock, issued>>

(* CreateTask returns and the caller receives the credential. *)
Deliver(c) ==
  /\ At(c, "persisted")
  /\ issued' = issued \cup {calls[c].claims}
  /\ ToState(c, Idle)
  /\ UNCHANGED <<tasks, revocations, clock, lag>>

(* The call ends early wherever it is: the store fails, the client hangs   *)
(* up, the process dies.  A crash of the gateway abandons all of its calls *)
(* and keeps the tables.                                                   *)
Abandon(c) ==
  /\ ~At(c, "idle")
  /\ ToState(c, Idle)
  /\ UNCHANGED <<tasks, revocations, clock, issued, lag>>

-----------------------------------------------------------------------------
(* RevokeTask on any known task, again on one already revoked too. *)
Revoke(t) ==
  /\ RevokeTask(t)
  /\ UNCHANGED <<clock, calls, issued, lag>>

Tick ==
  /\ clock < MaxClock
  /\ clock' = clock + 1
  /\ UNCHANGED <<tasks, revocations, calls, issued, lag>>

Init ==
  /\ StoreInit
  /\ clock = 0
  /\ calls = [c \in Callers |-> Idle]
  /\ issued = {}
  /\ lag = [t \in TaskIDs |-> 0]

(* CreateTask up to its return. *)
Proceed(c) ==
  \/ \E h \in Humans, req \in Requests : AdmitRoot(c, h, req)
  \/ \E p \in TaskIDs, req \in Requests : AdmitChild(c, p, req)
  \/ ClampTTL(c)
  \/ RejectExpiredParent(c)
  \/ \E id \in TaskIDs : ExtendChain(c, id)
  \/ Sign(c)
  \/ Persist(c)

CreateTask(c) ==
  \/ Proceed(c)
  \/ Deliver(c)
  \/ Abandon(c)

Next ==
  \/ \E c \in Callers : CreateTask(c)
  \/ \E t \in TaskIDs : Revoke(t)
  \/ Tick

Spec == Init /\ [][Next]_vars

-----------------------------------------------------------------------------
(***************************************************************************)
(* Properties.                                                             *)
(***************************************************************************)

(* Every variable holds values of its kind: the service.go and store.go    *)
(* structures, and the locals of a call in one of its stages.              *)
TypeOK ==
  /\ tasks \in [TaskIDs -> TaskRecord \cup {Missing}]
  /\ revocations \subseteq TaskIDs
  /\ clock \in Nat
  /\ calls \in [Callers -> CallState]
  /\ issued \subseteq TaskClaims
  /\ lag \in [TaskIDs -> Int]

(* The tasks a delegation chain goes through. *)
TasksOf(chain) == {chain[i].id : i \in 2..Len(chain)}

(* No task holds an authority that a task above it, however far, lacks:    *)
(* each of its scopes narrows a scope of every task in its chain           *)
(* (ValidateScopes at service.go:97 looks at the parent alone, once,       *)
(* before the row is written).                                             *)
NoEscalation ==
  \A t \in TaskIDs : Exists(t) =>
    \A a \in TasksOf(tasks[t].chain) :
      Exists(a) /\ ValidateScopes(tasks[t].scopes, tasks[a].scopes)

(* A task's chain runs from a human root through the parent's chain to the *)
(* task itself and visits nobody twice, so that the provenance an audit    *)
(* event carries is the real one (delegation.go:16-55, copied from a row   *)
(* read long before the insert).  A root task has two links, the human's   *)
(* and its own, as in delegation.go:19-37 and its test, and not the one of *)
(* spec/task-identity-claims.md:152.                                       *)
ProvenanceChain ==
  \A t \in TaskIDs : Exists(t) =>
    LET r == tasks[t] IN
    /\ Len(r.chain) >= 2
    /\ r.chain[1].type = "human" /\ r.chain[1].id \in Humans
    /\ TasksOf(r.chain) \subseteq TaskIDs
    /\ r.chain[Len(r.chain)].id = t
    /\ r.chain[Len(r.chain) - 1].id = r.parent
    /\ \A i, j \in 1..Len(r.chain) : r.chain[i].id = r.chain[j].id => i = j
    /\ r.parent \in TaskIDs =>
         /\ Exists(r.parent)
         /\ r.chain = Append(tasks[r.parent].chain, r.chain[Len(r.chain)])

(* The depth a task may still delegate and the links above it always add   *)
(* up to the configured limit, so that no sequence of delegations grows a  *)
(* chain beyond MaxDelegationDepth tasks below the root one                *)
(* (service.go:93-102).                                                    *)
DepthBudget ==
  \A t \in TaskIDs : Exists(t) =>
    /\ tasks[t].maxDepth + Len(tasks[t].chain) = MaxDelegationDepth + 2
    /\ tasks[t].parent \in TaskIDs => tasks[t].maxDepth >= 0

(* The row of a credential says what the credential says. *)
OnRecord(k) ==
  /\ Exists(k.sub)
  /\ LET r == tasks[k.sub] IN
     /\ r.scopes = k.scopes /\ r.chain = k.chain /\ r.maxDepth = k.maxDepth
     /\ r.createdAt = k.iat /\ r.expiresAt = k.exp

(* Every credential a caller holds is on record under the same claims, so  *)
(* that it can be looked up and revoked: validation reads only the         *)
(* revocation index, and RevokeTask refuses an id without a row            *)
(* (service.go:185-195, 199-216).                                          *)
CredentialOnRecord == \A k \in issued : OnRecord(k)

(* The row's status, which delegation checks, and the revocation index,    *)
(* which validation checks, never disagree (sqlite.go:228-265).            *)
StatusMatchesIndex ==
  \A t \in TaskIDs : IsRevoked(t) <=> Exists(t) /\ tasks[t].status = "revoked"

(* A link that is not flagged as narrowed carries the very authority of    *)
(* the link above it (service.go:133-136).                                 *)
UnflaggedLinkKeepsAuthority ==
  \A t \in TaskIDs :
    Exists(t) /\ tasks[t].parent \in TaskIDs
      /\ ~tasks[t].chain[Len(tasks[t].chain)].scopeNarrowed
    => Authority(tasks[t].scopes) = Authority(tasks[tasks[t].parent].scopes)

(* The dates along a chain are in causal order: a task was authorized no   *)
(* later than it was issued, and issued no later than it authorized the    *)
(* next one (three clock reads in CreateTask, at delegation.go:22 and      *)
(* service.go:116 and 144).                                                *)
DatesInOrder ==
  \A t \in TaskIDs : Exists(t) =>
    LET chain == tasks[t].chain IN
    /\ chain[Len(chain)].authorizedAt <= tasks[t].createdAt
    /\ \A i \in 2..(Len(chain) - 1) :
         tasks[chain[i].id].createdAt <= chain[i + 1].authorizedAt

(* A child outlives its parent by no more than the whole seconds its call  *)
(* was held up between the lifetime check and the signature                *)
(* (service.go:116 and 144): not at all when the call was prompt.          *)
OutlivesOnlyByPause ==
  \A t \in TaskIDs : Exists(t) /\ tasks[t].parent \in TaskIDs =>
    tasks[t].expiresAt <= tasks[tasks[t].parent].expiresAt + Seconds(lag[t])

(* No credential lives longer than the configured limit, to the second     *)
(* rounding can add (service.go:107-113).                                  *)
LifetimeWithinLimit ==
  \A t \in TaskIDs : Exists(t) =>
    Ticks(tasks[t].expiresAt - tasks[t].createdAt) < MaxTTL + TicksPerSecond

(* The calls in progress that have passed CreateTask's checks on p. *)
PendingChildren(p) ==
  {c \in Callers :
     calls[c].pc \in {"admitted", "clamped", "chained", "signed"}
       /\ calls[c].parent = p}

Children(p) == {t \in TaskIDs : Exists(t) /\ tasks[t].parent = p}

(* Revocation ends delegation, up to the calls that had already read the   *)
(* parent: once p is revoked no call starts on it again, and each of those *)
(* under way yields at most one child (service.go:86-92 against 185).      *)
RevocationEndsDelegation ==
  [][\A p \in revocations :
       /\ PendingChildren(p)' \subseteq PendingChildren(p)
       /\ Children(p)' # Children(p) => PendingChildren(p)' # PendingChildren(p)]_vars

(* The calls that found p not expired. *)
TimelyChildren(p) == {c \in PendingChildren(p) : ~At(c, "admitted")}

(* So does expiry, up to the calls past the lifetime check                 *)
(* (service.go:115-119).                                                   *)
ExpiryEndsDelegation ==
  [][\A p \in TaskIDs : Exists(p) /\ clock >= Ticks(tasks[p].expiresAt) =>
       /\ TimelyChildren(p)' \subseteq TimelyChildren(p)
       /\ Children(p)' # Children(p) => TimelyChildren(p)' # TimelyChildren(p)]_vars
==============================================================================
