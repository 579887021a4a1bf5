# TLA+ models of AgentID

AgentID issues short-lived credentials ("task identities") to agents. A human,
or a task on behalf of a human, creates a task with a list of
`tool:resource:action` scopes; the agent presents the task's JWT to an MCP
proxy, which checks it, calls an upstream service and writes an audit row.
What has to be right is the delegation tree: no task may ever do what a task
above it could not, its provenance must lead to a human, and revocation and
expiry must mean something, while requests, command line processes, crashes and
the clock go on in any order.

The models follow the Go source, not its documentation. Where the two disagree,
*Disagreements* says so, and for the three that matter most a run shows it.

## 1. The system

| Component | Source | State | Operations |
|---|---|---|---|
| Scope algebra | `pkg/identity/scopes.go` | none | `ParseScope`, `Narrows`, `ValidateScopes` |
| Scope bundles | `pkg/identity/scopes.go` | configuration | `ResolveBundles`, `ValidateBundleConfigs` |
| Identity service | `pkg/identity/service.go` | in the store | `CreateTask`, `ValidateCredential`, `RevokeTask` |
| Delegation chain | `pkg/identity/delegation.go` | none | `BuildDelegationChain` |
| JWT and keys | `pkg/identity/jwt.go` | key file | sign, verify, load or generate the key |
| Task store | `pkg/store/`, `pkg/store/sqlite/` | `tasks`, `revocations`, `audit_events` | one SQL statement or transaction each |
| MCP proxy | `pkg/proxy/server.go` | requests in flight | `tools/call`, `tools/list`, `initialize`, JWKS |
| Router | `pkg/proxy/router.go` | two maps, built once | `Resolve`, `ToolsForScopes` |
| Task API | `pkg/proxy/taskapi.go` | requests in flight | create, get, revoke |
| Audit | `pkg/audit/`, `cmd/agentid/audit.go` | `audit_events` | `Emit`, `Query`, tail |
| Adapters | `pkg/adapters/` | registry of factories | REST and GitHub `Invoke`, `httpclient.Do`, `Lookup` |
| Admin authentication | `pkg/admin/` | one key | compare |
| Configuration | `pkg/config/` | none after start | `Load` |
| Command line | `cmd/agentid/` | none | `serve`, `task`, `audit`, `scopes` |

How they interact: the proxy and the task API call the identity service and the
audit logger from one goroutine per HTTP request; command line processes open
the same SQLite file and call the identity service directly, without the audit
logger. Nothing is locked across store calls, so everything between two SQL
statements interleaves. Upstream services act on their own time.

What is hard here, and what each part must get right:

- **CreateTask is check-then-act over seven steps.** It reads the parent, reads
  the clock three times and inserts a row. It re-checks nothing. Authority,
  provenance and depth must survive that; revocation and lifetime survive it
  only up to the calls under way.
- **A tool call is authenticated at one moment and acts at another**, with two
  separate reads (clock, revocation index) in between.
- **The audit trail is written last and its errors are dropped.** It may have
  gaps; it must not have lies.
- **Two tables say whether a task is revoked**, one for delegation and one for
  validation.
- **Times are truncated to seconds** in tokens, rows and links, and not in
  between.
- **Processes stop** between any two steps; the tables stay, requests do not.
- **A gateway stops in the middle of calls that have no time limit**, within ten
  seconds, and closes the store behind them.
- **Processes share one key file**, made by whichever comes first, in steps.
- **A tool call may be two upstream requests**, each of which may be lost,
  late, redirected or answered by an intermediary, in a repository that others
  change.
- **Nothing has a time limit**: neither the client, who sends its body after it
  has authenticated, nor the upstream.
- **The expansion of bundles is a recursion over what the configuration says**,
  circles included.
- **The router's two maps are filled differently**, so that discovery and
  dispatch may disagree.

`PROJECT.json` lists every component with its status and each of these hazards
at the line where it bites, with the properties that would catch it.

## 2. The modules

```
 Scopes -- Bundles  TaskStore        Scopes
   \        |        /                   |
    IdentityService                    Router
      |           \                    /
 IdentityRefinement  \_____ Gateway __/
   (-> Delegation)             |
 IdentityInvariant       GatewayInvariant
   |        |                  |
MCIdentity  *Proof         MCGateway, GatewayProof

 AuditTrail -- MCAuditTrail, AuditTrailProof

 Bundles -- BundleResolver -- MCBundleResolver, BundleResolverProof

 KeyFile -- Serve -- MCServe, ServeProof

 RestAdapter    GitHubAdapter
       \          /
        Adapters -- MCAdapters, AdaptersProof
```

- `Scopes`: a scope is malformed or three segments; `Narrows`,
  `ValidateScopes` and `hasScope` as in the code. `Authority` is the meaning of
  a list: the concrete operations it permits. Nothing in the program looks
  inside a malformed string, so those are opaque values.
- `Bundles`: what the expansion of bundle names returns, as the least set closed
  under includes, and when it fails.
- `TaskStore`: `tasks` and `revocations`, one action per method that changes
  them. A method may also fail and change nothing; its callers have that step.
- `IdentityService`: `calls[c]` is the state of one `CreateTask`: a record of
  the locals that are live at that point. Its steps, in code order:

  | Action | service.go |
  |---|---|
  | `AdmitRoot`, `AdmitChild` | 55-105: bundles, parsing, the parent's row and the three checks on it |
  | `ClampTTL`, `RejectExpiredParent` | 107-123: first clock read |
  | `ExtendChain` | 125-141: id, narrowed flag, chain; second clock read |
  | `Sign` | 143-166: claims; third clock read |
  | `Persist` | 168-187: insert |
  | `Deliver` | 189-196: the caller has the credential |
  | `Abandon` | any error, a client that left, a process that stopped |

  A call that is refused before it changes anything is a stutter. `issued` is
  the set of credentials in somebody's hands; `lag` is a history variable.
- `Delegation`: the abstract specification. Atomic grants of operations from
  humans to tasks and from tasks to tasks, credentials handed out for granted
  tasks only, revocations never taken back. `IdentityRefinement` gives the
  mapping: a row is a grant of the `Authority` of its scopes. Its
  `AuthorityOnlyShrinks` is what delegation is for.
- `Router`: the two maps of `NewRouter`, `Resolve` and `ToolsForScopes`.
- `Gateway`: extends the service by `tools/call` (`mcp`), the API's creations
  (`recorded`: the calls past their `Emit`) and revocations (`deletes`), the
  audit table (`events`) and what upstreams have carried out (`effects`). A
  handler may end after any of its steps (`Kill`, `GiveUp`, `CreateEnds`), and
  `Emit` may write nothing. `revokedBefore`, `expiredBefore` and `diverted` are
  history; the last says that a redirect led the upstream call elsewhere.
- `AuditTrail`: the table read back. `Emit` dates an event and inserts it later,
  or never (`Stamp`, `AppendEvent`); a command takes the time and selects later
  (`Ask`, `QueryEvents`). Stands alone: what `Gateway` records in `events`
  is here only a row with a date, and `query.table` is the table an answer was
  read from. `Until`, which no command sets, is left out.
- `BundleResolver`: `ResolveBundles` as it runs (`scopes.go:116-162`). `stack` has
  a frame for every call of the inner `resolve`, with the includes its loop has
  not come to; `seen` and `resolved` are the maps of the code. `Enter` is the
  call up to its loop, `ExpandInclude` a turn of the loop, `Leave` the rest.
  `Bundles` is what it has to implement.
- `KeyFile`: the start of any process (`initService`, `LoadOrGenerateKeyPair`).
  The key file is absent, torn, or holds one key, named by the process that
  generated it; the stat, the load, the creation of the file and the writing
  are steps that interleave with those of other starts. `contested` is history:
  somebody set out to generate although there was a file, or another had set out.
  The first takes one process alone, whose `os.Stat` failed (`StatErrs`).
- `Serve`: extends `KeyFile` by `runServe` and by what a request has to do with
  it. `phase` is where each process is, `listener` what it does with the one
  address, `request` where each request is, its credential's key, the fate of its
  row, and `conn`, whether its client is still there and whether net/http knows.

  | Action | serve.go |
  |---|---|
  | `OpenStore` ... `WriteErrs` (KeyFile) | 39, helpers.go 72-88 |
  | `Listen`, `ListenErrs` | 86-96, the goroutine |
  | `Signal` | 83-98 |
  | `Shutdown`, `Drained`, `GraceExpires` | 101-106 |
  | `CloseStore`, `Exit` | 43, 109: the deferred calls and the return |
  | `Die` | a crash or a kill, anywhere |

  Handlers: `Accept`, `Authenticate` (server.go 86), `ReadBody` (94-165),
  `UpstreamAnswers`, `CallCancelled`, `Emit`, `Reply`, each of one request;
  `ClientLeaves` is its client's. net/http watches the connection once the body
  was read to its end, so a client that leaves is noticed at once, later, or not
  at all. What a call may do is `Gateway`'s; here it is a handler that holds the
  process and needs its store.
- `RestAdapter`: the request that `rest.Invoke` makes of a path template and
  arguments; `SubstitutePath` is its loop, as a recursive function over the
  template's pieces (a parameter that occurs again finds nothing left to fill,
  as in the code). `GitHubAdapter`: those of the four GitHub tools.
- `Adapters`: calls of both, over `Client.Do`: a request arrives, is lost, or
  arrives after it was given up (`Arrive`, `Lost`, `ArriveLate`), its reply comes
  back or is lost (`Receive`, `Lost`), and for `createBranch` a second request
  follows. The upstream carries a request out or not (`CarryOut`,
  `NotCarriedOut`) and answers with a status, of which only the hundreds are
  kept: 4xx and 2xx say what happened, 5xx says nothing, a 3xx stands where
  net/http does not follow, and `Turn` is a 301, 302 or 303, which it follows
  with a GET. `OthersPush` is the rest of the world, and a call that makes a
  branch is that to the others (`Move`). `carriedOut`, `baseHeads` and `turned`
  are history. The upstream is external: what GitHub's refs do as far as
  `createBranch` uses them.
- `IdentityInvariant`, `GatewayInvariant`: the inductive invariants.
- `MCIdentity`, `MCGateway`, `MCAuditTrail`, `MCBundleResolver`, `MCServe`,
  `MCAdapters`: the instances for TLC.
- `ScopesProofs`, `IdentityProof`, `DelegationProof`, `GatewayProof`,
  `AuditTrailProof`, `BundleResolverProof`, `ServeProof`, `AdaptersProof`: the
  theorems. The first four build on each other in this order.

Definitions marked *Mutant* stand before the definition they vary. Each is a
plausible bug of the code; with it in place, the property named for it in
`PROJECT.json` fails under its own configuration. No specification uses them.

## 3. The runs

| Run | Asks | Instance |
|---|---|---|
| `MCIdentity` | authority, provenance, depth, records, revocation | 3 tasks, 2 concurrent calls, depth 2, no time |
| `MCIdentityTime` | dates and lifetimes | 2 tasks, 1 call, 2 ticks to the second, 5 ticks, limit 1.5 s |
| `MCIdentityRefines` | the refinement of `Delegation`, what scopes mean | 3 tasks, 2 concurrent calls, depth 1, two requests |
| `MCGateway` | effects and audit trail | 2 tasks; one tool call, creation and API revocation |
| `MCGatewayAccess` | stale credentials | 1 task, 2 tool calls, 2 ticks |
| `MCAuditTrail` | what a query returns | 3 events, 2 ticks to the second, 5 ticks, 8 queries |
| `MCBundleResolver` | the recursion against the closure, its end | 9 bundles and an unknown name, every request of up to 3 names |
| `MCServe` | keys, shutdown, what a request waits for | 2 gateways, 1 command, 1 request, any file at the start |
| `MCAdapters` | requests, statuses, redirects, lost replies, moving branches | 2 calls, 3 branches, 2 commits, 2 pushes by others |
| three `violation` runs | see *Disagreements* | the smallest that shows each |

Why the bounds are enough to be interesting:

- Three tasks make a root, a child and a grandchild, the first place where a
  check on the direct parent alone could go wrong; two calls make every race of
  a creation against another on the same parent. `MaxDelegationDepth = 2` makes
  the grandchild the last legal generation; `MaxDelegationDepth = 1` in the
  refinement run makes it the first refused one.
- Two segment names and the wildcard are all that a segment comparison can tell
  apart (equal, different, covered). The requests include a malformed scope, an
  undefined bundle, a bundle that includes another and a redundant list.
- Two ticks to a second let a step fall inside a second and across one; a
  lifetime of one tick is below a second, the limit of three crosses one, and
  the requests ask for less, for the default and for more than the limit. The
  instances without time (`MaxClock = 0`) ask nothing that involves it.
- The two adapters of the gateway runs overlap in one tool with different scopes;
  in `MCGatewayAccess` and `MCGatewayListing` they have a tool without a scope
  too, which nobody can call.
- The durations asked of the audit trail are half a second, one and one and a
  half, so that the bound falls inside a second and on its edge; limits of one
  and two cut an answer of up to three events.
- The nine bundles have a diamond, a bundle reached directly and through
  another, a circle of two, one of one, a way into a circle and an unknown
  include; every order of every list is explored.
- Two gateways and a command are the three processes it takes for one to read
  while another writes and a third has read before; the second gateway is also
  the successor of the first. One request tells apart all that a handler can
  meet, because handlers share only the store of their process.
- Two calls of `createBranch` race for the same branch, from one base or two, or
  one makes the branch the other starts from; others move or delete branches
  twice, and make the one that is missing at the start, so that a branch can also
  leave a commit and return. The second call is also any of the other tools. The
  templates of the REST operations have a hole twice, two holes, and a query of
  their own; the arguments read like holes, are empty, null, missing, small or
  large numbers.
- `MaxClock` and `MaxPushes` are the only counter bounds. Calls may be repeated
  without limit, but those of `MCAdapters`, which are made once; the number of
  tasks ever created is bounded by `TaskIDs`.

Task ids, callers and tool calls are symmetric in every run that declares it:
no model orders them or names one. `CHECK_DEADLOCK FALSE` is set everywhere
because the explored system does end: all ids used, the clock at its bound and
all calls done.

**Fairness.** Two specifications assume some, both weak; all others are safety
only.

- `BundleResolver`: `WF(Next)`. A function that has been called runs; nothing in
  it waits.
- `Serve`: weak fairness of `MainStep(g)`, the main goroutine of a gateway from
  the signal on, and of `HandlerStep(r)`, what a handler does without waiting for
  anybody: it authenticates, returns from a call whose context was cancelled,
  writes its row, and reads from or writes to a connection that its client has
  closed. Goroutines are scheduled, and the timer behind `GraceExpires` fires.
  Nobody owes a signal, a request, its body or the taking of a reply (the server
  has no `ReadTimeout` and no `WriteTimeout`, `serve.go:78`), an answer of an
  upstream (the client has no time limit, `httpclient/client.go:32`), or a client
  that leaves: these are `PeerStep`, and not fair; nor are the start, the
  listener or a death. `SignalStops` holds because `GraceExpires` does not depend
  on the handlers; `WaitsOnlyForItsPeers` claims nothing of a request whose
  client or upstream has the next word.

## 4. The properties

Of the service:

- `NoEscalation`: each scope of a task narrows one of every task above it.
- `ProvenanceChain`: chains lead from a human through the parent's chain to the
  task, without repetition.
- `DepthBudget`: depth left plus links is constant.
- `CredentialOnRecord`: who holds a credential holds one that can be revoked.
- `StatusMatchesIndex`: the two records of revocation agree.
- `UnflaggedLinkKeepsAuthority`: no narrowing goes unflagged.
- `RevocationEndsDelegation`, `ExpiryEndsDelegation`: the most that holds of a
  check-then-act: afterwards no call starts on the parent, and each one already
  past the check adds at most one child.
- `DatesInOrder`, `OutlivesOnlyByPause`, `LifetimeWithinLimit`: what three clock
  reads and truncation leave of causal order, the parent's lifetime and the limit.
- `ImplementsDelegation`: all of it is atomic delegation to an observer.
- `OperationsOnlyShrink`: what `NoEscalation` says of texts, said of what they
  permit: no task may do what a task above it may not.

Of the audit trail:

- `RecentEventsFound`: a query that did not reach its limit misses no event of
  the time asked for, whatever the fractions of the seconds.
- `NothingTooOld`: nothing it returns is a second too old.

Of the expansion of bundles:

- `ExpansionIsExact`, `RefusalIsJust`: it returns the closure, and refuses what
  must be refused and nothing else; marking names on the path, not names
  visited, is what makes both true.
- `DepthBounded`, `Terminates`: no name is twice on the stack, and it ends.

Of processes and keys:

- `KeysAgree`, `RefusedOnlyAfterRace`: as long as no two starts contend for the
  key file, and none whose `os.Stat` failed writes over a key that is there, all
  processes work with the key on file, and no credential is refused for its
  signature. With a contention both can fail, because the file
  is written over: `contested` is the exact hypothesis, not an excuse, and TLC
  finds the refusal as soon as it is dropped.
- `GracefulStopLosesNothing`: a request is cut off, or its row lost to a closed
  store, only after the grace period or a crash.
- `SignalStops`, `WaitsOnlyForItsPeers`: the two halves of a life without time
  limits. The process ends after a signal whoever is silent; and a request that
  does not end is held by its client or by its upstream, by the client only while
  it is there, and by the upstream only until net/http notices that it is not.

Of the adapters:

- `BranchStartsOnBase`: a branch starts at a commit its base was at between the
  start of the call and the upstream's look at it. That the base is still there
  cannot be promised.
- `ResultTellsWhatHappened`: success means done, but after a redirect; an
  upstream error means not done, but at a 5xx and after a redirect; and in all
  cases only the last request is open. That success is reported of a request
  that `http.Client` had turned into a GET, or that was answered with a 3xx, is
  what the code does (`client.go:32`, `84`), and no document says otherwise.
- `RestRequestIsExact`: each argument reaches the request once, in its place,
  and what reads like a hole is not filled again.

Of the gateway:

- `StaleCredentialIsPowerless`: a credential that was stale on arrival has no
  upstream effect, ever.
- `EffectWithinAuthority`: an effect is covered by the whole line of delegation.
- `AuditTellsTheTruth`: no row reports what did not happen, but a success where
  a redirect had led the upstream call elsewhere.
- `AuditCarriesProvenance`: every row has the recorded chain of its task,
  whichever of three copies its emitter had.

## 5. What is proved

Every invariant and every safety action property that a passing run checks is a
theorem as well, for every value of the constants that meets the named
assumptions (`ScopesAssumption`, `BundlesAssumption`, `StoreAssumption`,
`IdentityAssumption`, `RecordAssumption`, `GrantAssumption`,
`RouterAssumption`, `GatewayAssumption`, `AuditTrailAssumption`,
`QuestionsAssumption`, `ProcsAssumption`, `GatewaysAssumption`,
`OperationsAssumption`, `AdaptersAssumption`: kinds of the constants, and that
the values which stand for "none" are not values of the real kind):

- `ScopesProofs`: `ValidateScopes` gives no authority away
  (`NarrowingGivesNoAuthority`), and `Narrows` is exact for single scopes
  (`NarrowsIsExact`). Lists are sound only: several scopes may cover together
  what none covers alone.
- `IdentityProof`: `TypeOK`, `NoEscalation`, `ProvenanceChain`, `DepthBudget`,
  `CredentialOnRecord`, `StatusMatchesIndex`, `UnflaggedLinkKeepsAuthority`.
- `DelegationProof`: `ImplementsDelegation` and `OperationsOnlyShrink`;
  `RevocationEndsDelegation` and `ExpiryEndsDelegation`; `DatesInOrder`,
  `OutlivesOnlyByPause` and `LifetimeWithinLimit`.
- `GatewayProof`: every behaviour of the gateway is one of the service
  (`GatewayRunsService`), so all of the above holds of the running system, which
  implements `Delegation` too (`GatewayImplementsDelegation`);
  `GatewayTypeOK`, `StaleCredentialIsPowerless`, `EffectWithinAuthority`,
  `AuditTellsTheTruth`, `AuditCarriesProvenance`. `DiscoveryAgrees` is the other
  side of `MCGatewayListing`: a tool with a scope, offered by one adapter alone
  and with no later adapter of the same name, is shown exactly to those who can
  call it.
- `AuditTrailProof`: `RecentEventsFound` (`QueryIsComplete`) and `NothingTooOld`
  (`QueryIsSound`), for every granularity. Both rest on two facts about
  truncation, that it keeps order (`SecondsInOrder`) and moves a time by less
  than a second (`SecondsClose`), and on rows never changing once inserted.
- `BundleResolverProof`: `TypeOK`, `ExpansionIsExact`, `RefusalIsJust`,
  `DepthBounded`, for every configuration and list of names. The invariant ties
  the stack to the configuration: the marked names are the frames', each frame
  was asked for by the one below it, and every include a frame has passed is
  finished or is the frame above. A circle is then the stretch of the stack
  between two frames of one name; and the finished bundles are closed under
  includes, which makes the collected scopes the closure without an induction.
- `ServeProof`: `TypeOK`, `KeysAgree`, `RefusedOnlyAfterRace`,
  `GracefulStopLosesNothing`, for any number of processes and requests. Until
  there is a contention, a process that generates a key is alone in doing so and
  finds no key on file, so none is in use (`NoKeyInUse`) and what it writes
  separates it from nobody. A drained gateway has no active handler and accepts
  none, so a store that closes under a handler belongs to a gateway whose grace
  period ended. A lemma per kind of step (`StartKeeps`, `VanishKeeps`,
  `MainKeeps`, `RequestKeeps`) says what it may change and that this keeps `SInv`.
- `AdaptersProof`: `TypeOK`, `BranchStartsOnBase`, `ResultTellsWhatHappened`,
  `RestRequestIsExact`, for any number of calls and any templates and arguments.

The argument of the service. The properties speak of rows, and a row is the work of a call that
checked its parent several steps before, so none of them is inductive. `IInv`
adds what each stage of a call knows: `BaseSound` (the row it read is the
parent's, except perhaps in status, and it passed the checks), `ChainFits`, and
`WellBorn` for signed claims and for rows. The key fact is that a row never
changes but in its status: what was checked at the read still holds at the
insert, for everything except the status itself, which is why revocation holds
only up to the calls under way. `NoEscalation` for ancestors beyond the parent
follows from transitivity of narrowing and the parent's own `NoEscalation`.

What ends delegation. A revocation is seen by calls that have yet to read their
parent, an expiry by those that have yet to read the clock. `StepFreezes` is one
lemma for both: if no call can come to a set of stages from outside, each step
can only take calls out of it, and a child added is a call that left.

The dates. `TimeInv` follows the three clock reads through the stages of a call:
each was made no later than now (`CallsTimely`), in order (`Timely`), and a row
has what its call had (`Follows`, `NoRowFromTheFuture`). The rest is that
truncation to seconds keeps order and that a lifetime cut to what remains,
truncated twice, is too long by less than a second (`LifetimeRounds`).

`GInv` does the same for requests: `RequestSound` relates the stage of a request
to what its checks established (not stale on arrival; scope covered), and
revocation, expiry and effects are monotone, so that what was true at the check
is true at the event. `GatewayRunsService` lets the proof take `IInv` from the
service instead of repeating it.

The adapters. `AInv` says of each call what was done for it, by where it is
(`Told`), and that the commit it carries from its first reply to its second
request is one its base was at (`Based`). A status is true of the request
as far as it goes (`TrueAnswer`), and what may still be carried out is the last
request or nothing (`NoneOrLast`). A step of one call touches another only through a branch that moves (`Undisturbed`), and a move is noted for each
call that has yet to look its base up.

The loop that fills a path template is a recursive function, and no induction
theorem of the library can be used, since each takes a predicate as a parameter.
`LoopFills` goes another way: `Filled` says what the path is after each turn and
satisfies the recursion (`FilledNext`), so the recursion has a solution; and a
first turn at which another solution differed (`LeastOf`, from the
well-foundedness of finite sets) would follow from a turn at which it does not.

Only model-checked: `Terminates`, `SignalStops` and `WaitsOnlyForItsPeers`, which
are liveness under fairness, out of the prover's reach as is ENABLED. So is
everything the three `violation` runs show, which is false in general.

## 6. Disagreements between documentation and code

Shown by a run, and findings in `PROJECT.json`:

- `pkg/proxy/router.go:49-51`: agents see only the tools they may call. Not so
  for a tool two adapters offer, or one without a scope (`MCGatewayListing`).
- `cmd/agentid/audit.go:40`, `50`: `audit tail` shows recent events. It shows the
  oldest: the query is in ascending order and then limited
  (`MCAuditTrailRecent`).
- `pkg/adapters/rest/rest.go:9-11`: parameters become path and query. An integer
  of a million or more becomes another text, `1e+06` (`MCAdaptersIntegers`).

Met while modelling, without a run of their own:

- `spec/task-identity-claims.md:120`: a child's TTL cannot exceed its parent's
  remaining TTL. The remaining time is read before and applied after a pause
  (`service.go:116`, `144`). `OutlivesOnlyByPause` is what holds.
- `spec/task-identity-claims.md:18`: `exp` must be greater than `iat`. Lifetimes
  below a second truncate to equal dates (`service.go:153`).
- `spec/task-identity-claims.md:152`: a root task created by a human has a single
  link of type `human`. It has two, the human's and its own
  (`delegation.go:24-38`, `service_test.go:65`), as line 33 of the same document
  wants, by which the last link is the task itself. `ProvenanceChain` demands
  the two.
- `pkg/identity/delegation.go:14`: the narrowed flag says the child's scopes are
  narrower. It says they are written differently (`service.go:135`).
  `UnflaggedLinkKeepsAuthority` is the direction that holds.
- `README.md:13`, `98`: every action is recorded. Audit errors are dropped
  (`server.go:193`). `AuditTellsTheTruth` is what the trail does promise.

## 7. Abstractions

- Cryptography: a credential is its claims, and only issued ones are presented.
  `IdentityService` and `Gateway` have one key; in `Serve` a signature verifies
  under the key that made it. Malformed requests change nothing.
- Purpose, metadata, reasons and payload texts are carried unread.
- The clock does not go back, and `time.Until` uses the same one (a row read
  back from the store has no monotonic reading).
- Ids are fresh: UUIDv7 collisions are not modelled, and an insert of a taken id
  is refused by the primary key.
- A parent may be named by its id alone, as the API and the command line allow:
  the caller need not hold its credential.
- In `Gateway` an upstream carries out at most one effect per call. `Adapters`
  has the two requests of `createBranch`, of which the first has no effect.
- Of an answer to the request itself, 2xx is taken to say that it was done and
  4xx that it was not; 5xx, 3xx, and any answer to the GET of a redirected
  request say neither. A request that was answered below 500 is settled; one
  that was given up, or at a 5xx, may still be carried out.
- A redirect that keeps the request (307, 308, any of a GET) is served elsewhere
  as it would be here, from the same repository; the eleventh is `Lost`.
- net/http repeats on its own only a request that it had not sent or that is
  idempotent: one request in `Adapters`.
- In `Serve` a handler begins with the header of its request read. A connection
  on which that is still to come has no handler; `Shutdown` may close it.
- A key file that other hands have damaged is `Torn`; another valid key put
  there from outside is not modelled, nor an empty `KeyFile` setting, under
  which processes do not share a key at all and none of `Serve`'s claims on
  keys is made.
- A database shared by processes on one host: `Serve` says only whether a
  process has closed its own handle.
- Store methods are atomic, which SQLite's transactions give them.

## 8. Not modelled

- Adapter registry. `Lookup` calls `RegisteredNames` with the read lock held,
  which blocks if a writer waits in between. Every `Register` runs in an `init`
  function, before `main`, so there is never such a writer.
- `Store.UpdateTaskStatus` takes a revoked status back and leaves the index. No
  code calls it, so no state of the program shows it; the day one does,
  `StatusMatchesIndex` is the property that fails.
- Admin authentication and configuration: computed once, no steps. Printing
  commands, the example agent, the contract test suites, the cryptography.

## 9. Plan

Done: all the modules above, and the theorems of every safety property. What
could be added, in order of worth:

1. A variant for `Terminates`: a bound on the turns of the expansion, as a
   safety property that can be proved where the liveness itself cannot.
2. The same for a shutdown: that from the signal on the main goroutine takes at
   most a fixed number of steps of its own.
3. `Bundles` and `ValidBundleConfigs`: that a configuration which passes the
   check at start-up is never refused by an expansion.
