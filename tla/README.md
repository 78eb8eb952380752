# Porsche: a TLA+ verification project

Porsche is a Go service that sells metered access to language models: a web
platform on which users chat with one model or compare several, an
OpenAI-compatible gateway for API tokens, an administration surface whose
dangerous actions need a second verification, and a public catalogue with its
prices and rendered pages. State lives in MySQL (everything that is paid for
or audited), in Redis (running generations, session barriers, action tickets) and
in the process (running goroutines, the cancel registry). Several replicas of the
process run at once, and any of them may die.

The heart of the program, and the hardest part to test, is the *platform
generation*: one streamed answer that is claimed in Redis, leased by the
goroutines that stream it, charged in MySQL, completed in Redis again, and that
may be cancelled, abandoned or raced at every step. It is modelled in
most detail and proved about; around it are the sessions and keys that lead to it, the
administration of accounts, and the public site.

Paths below are relative to `src/internal/` unless they say otherwise.

## Inventory

| Part | Its state | Operations | Interacts by | What is hard | What makes it correct | Status |
|---|---|---|---|---|---|---|
| Generation record and store (`service/platform_generation_store.go`, `_store_control.go`) | one JSON record per user and generation id in Redis, with a 24 h time to live | claim, owned mutations (delta, model done, model failed, begin commit, fail, acknowledge a cancel), lease renewal, cancel, complete, the three convergences | Lua scripts; GET, then compare-and-set | read and write are apart, clients retry, clocks differ, keys expire | forward-only lifecycle, one owner, a record the decoder accepts | modelled, proved |
| Single generation (`service/platform_single_generation.go`, `_persistence.go`, `_receipt.go`, `_reconcile.go`, `_control.go`, `_converger.go`) | a runner's goroutines and context; the receipt and conversation rows; a MySQL advisory lock | run, renew, consume, finalize, reconcile, converge, cancel | the record, the receipt, the lock, a callback | crash between MySQL and Redis, lost replies, stale verdicts, lock sessions | charged at most once, never charged if cancelled or failed; every record settles | partly: the rows of a receipt are one value |
| Cancel registry (`service/platform_generation_cancel_registry.go`) | entries, admissions, the drain channel | BeginAdmission, Register, Unregister, Cancel, CloseAndWait | a mutex, callbacks, channels | shutdown against late registration; who closes the channel | no double close, a drained registry is idle, one callback per run | modelled, proved |
| Compare generation (`service/platform_compare_generation.go`) | up to several workers, bodies, one output | runModels, runModel, failModel, renewCompareLease, persist, recover | the store, the persistence, the control | partial failure, the terminal phase's mutex, recovery after a lost reply | what the client was told of each model is what is charged | modelled |
| SSE v2 encoder (`service/platform_sse_v2.go`, `handler/platform.go`) | the stream's phase and sequence numbers | start, delta, done, error | the runners | order of frames | a stream has one terminal event, nothing after it | partly: the frames of a comparison |
| Sessions (`service/auth_session.go`, `auth_redis.go`, `auth_account.go`) | session rows in MySQL; barriers and rotation results in Redis | create, refresh, revoke one, others or all, validate | row locks, Redis inside the transaction | the refresh race and its window, roll back after a Redis write | the cap, no return of a denied session, no session from before a password change | modelled |
| Gateway (`service/gateway_token.go`, `whitelabel`, `openaicompat`) | token rows, the catalogue's cache, an answer's event stream | issue, change, revoke, authenticate; list and get models; assemble tool calls | the owner's row, a mutex released during calls | authority read early, refreshes out of order, pieces of a tool call | a deleted owner is not served, newer answers stay, arguments arrive whole | modelled (token, cache, tool calls); the rest of the conversion is formatting |
| Admin action operations (`service/action_operation.go`, `action_execute.go`, `action_verification*.go`, `action_security_redis.go`) | operation, ticket, audit and outbox rows | issue a ticket, begin, execute, query, expire | one transaction each, savepoints | unknown commits, expired leases, single-use tickets | an action happens at most once, its result is found again | modelled |
| Managed users (`service/action_create_user*.go`, `action_delete_user*.go`, `action_reset_password*.go`, `action_roles_permissions*.go`, `admin_user*.go`, `permission_snapshot.go`, `authz`) | user rows with two versions, policy heads, override rows with tombstones | bootstrap, create, delete, entitle, disable, reset, roles, permissions | requests prepared from what a page showed | stale pages, replicas that start together, rewritten policies | one root, no lost update, nothing left of the deleted | modelled |
| Public content (`service/public_content.go`, `public_home_content.go`) and pricing (`public_price_snapshot.go`, `public_model_admin.go`) | two drafts, snapshots, releases, the pair's pointer | edit, review, publish, restore | row locks, idempotency keys | two publishers of a bound pair | what was reviewed is published, once, and the pair fits | modelled |
| Upstream price monitor (`service/upstream_price_monitor.go`) | a lease row, observations, strikes | acquire, renew, observe, remove, publish for safety | guarded updates, the same draft rows | two holders, restored check times | only models that were missing are removed | modelled with the publications |
| Render jobs (`service/public_render_job.go`, `public_render_artifact.go`, `cmd/public-render-job`) | jobs with fence and lease, artifacts, the served link | queue, lease, renew, complete, fail, activate, roll back | locked rows, files | a worker that lost its lease, a lost reply | nothing older is served, health means fresh | modelled |
| Root alerts (`service/root_alert.go`) | one alert per fingerprint, receipts | occur, resolve, read, acknowledge | transactions retried three times | two first occurrences, reopening | no occurrence is lost, a reopened alert is unread | partly: occurrence and resolution as its callers use them |
| Conversations (`service/conversation.go`) | conversations and messages | create, rename, delete, list | rows a receipt refers to | deletion under a commit or a chat | see single generation | partly: listing and export only read |
| Legacy chat, billing, quota (`service/platform_chat.go`, `billing.go`) | daily counters on the user row, orders, a comparison's stream | CheckAndConsumeCall, Chat, Compare, their streams, CreateOrder, PayOrder, RequestInvoice | row locks, or their absence; one writer's mutex | lost updates; failures before the first frame | what is stored of a comparison is what was told; the row keeps what others wrote | modelled, for one user; analytics and dashboard only read |
| Migrations (`migration/runner.go`) | the ledger table | up, status, verify | GET_LOCK | DDL commits on its own | replay is harmless | not modelled |
| Process, configuration, HTTP (`src/cmd/server`, `app`, `config`, `db`, `router`, `handler`) | wiring | start, stop | all of the above | shutdown order | see cancel registry | not modelled |

Every hazard found while reading is listed in `PROJECT.json` under `hazards`, at
the line where it bites, with the properties that cover it or the reason why none
does yet.

## How the generation works

`Run` (`platform_single_generation.go:159`) claims the record with a fresh lease
token, registers a callback with the cancel registry, and starts two goroutines.
*consume* reads the upstream stream and records each piece of text in Redis before
it sends it to the client; *renew* extends the lease on a timer. They share a
mutex around their store calls. When the stream ends well, `Run` marks the model
done, begins the commit, and finalizes: under a MySQL advisory lock it reads the
record again, writes conversation, messages, quota and receipt in one transaction
and reads the receipt back. Then it completes the record in Redis.

When the stream does not end well, `Run` asks the record what happened and acts on
the answer: it acknowledges a cancel, or fails the record under its own lease.

Anyone may ask to cancel: a running record becomes `cancelling`, and the runner's
context is ended through the registry. Anyone who looks at the record
(a poll of the client, the background converger) *converges* it: a running record
whose lease expired is failed, a stale `cancelling` one is cancelled, and a
`committing` one is decided under the advisory lock by whether a receipt exists.

## How the rest works

*Sessions.* A session is a row; what denies it at once, on every replica, is a barrier in
Redis. `Create` drops the oldest session when the account is at its cap, `Refresh`
replaces the secret and stores the result in Redis before it commits, so that a second
tab that presents the old cookie within the replay window gets the same answer. Every
transaction writes to Redis first and may then be rolled back.

*Gateway.* A call reads the key's row, then locks the owner's row in share mode, then
asks the catalogue's cache whether the model exists. The cache's mutex is released while
the upstream answers. A Responses stream is assembled from pieces: a tool call is
announced once its id and name are known, and its arguments follow.

*Administration.* A dangerous action takes a ticket (password entered again), begins an
operation under an idempotency key, and executes it once: effect, audit row, outbox row,
used ticket and result are one transaction. A client that lost the answer asks by its
key. The requests about accounts carry the versions a page showed, and the transaction
compares them under the row locks.

*Chat without a record.* The routes older than generations answer, stream or compare with
the user row that the session middleware read: the quota is decided on that row, which is
saved whole before the upstream is asked and again after its answer. A comparison that
streams has a goroutine per model and one mutex around the writer; a failure before the
first frame is held back, so that a stream that fails altogether can still be an HTTP error.

*Public site.* Root edits two drafts, reviews them and publishes a price snapshot bound
to a content release. The monitor fetches the upstream catalogue under a lease,
counts absences, and after three removes the model and publishes on its own. Each
publication queues a render job; a worker leases it, projects the catalogue into an
artifact, switches the served link and completes the job.

## Modules

```
GenerationRecord        the record; when each operation is admitted, what it writes
  GenerationStore       the store under its most general clients
    GenerationStoreProofs   theorems about it
    SingleGeneration    runners, finalizer, convergers, cancellers over the store
      SingleGenerationProofs  theorems: the store's specification, the promise, verdicts, counts, charge
      MCSingleGeneration    three passing runs, one violation
    ConvergerScan       the converger's passes over the keys
  CompareGeneration     one run in compare mode, its stream, cancel and convergers
    CompareCancelProofs     theorems about it and about CancelRegistry
GenerationOutcome       the abstract promise, instantiated by SingleGeneration and CompareGeneration
CancelRegistry          the in-process registry
AuthSessions            sessions over MySQL and Redis
  AuthSessionsProofs    theorems about it
GatewayCalls            gateway keys, the catalogue's cache, tool calls
ActionOperation         tickets, operations, executions, queries
  ActionOperationProofs theorems about it
ManagedUsers            accounts, roles, policies            (MCManagedUsers: a violation)
  ManagedUsersProofs    theorems about it
PublicPublication       drafts, publications, the monitor    (MCPublicPublication: a violation)
PublicRender            render jobs and the served link
  PublicSiteProofs      theorems about both
PlatformChat            chat, quota, orders, conversations   (a violation)
GatewayChatProofs       theorems about GatewayCalls and about the streams of PlatformChat

MCOperationsStoreChat = ActionOperation + GenerationStore + PlatformChat
MCLive                = SingleGeneration + CancelRegistry + ConvergerScan, under fairness
MCAccess              = AuthSessions + GatewayCalls
MCUsersCompare        = ManagedUsers + CompareGeneration
MCPublicSite          = PublicPublication + PublicRender
```

The last five check in one run two or three modules that share no state, because the code they
model shares none that a property is about. A behaviour is one of them (the variable `part`
says which and never changes), so the state space is their sum and a property of one
holds as if it had been checked alone. The components that do interact are composed
for real: `SingleGeneration` drives `GenerationStore`'s actions, `CompareGeneration` uses
the record's guards and writes, the monitor and Root share the rows of `PublicPublication`.
Only one thing passes from `PublicPublication` to `PublicRender`, that there is a newer
publication, and `Publishes` allows one at any time. Where a set of one part plays another
set in the other part (`Models = {q1, q2}` in `users_compare`), it does so to let one
symmetry serve both.

* **GenerationRecord** has no variables. A record is the snapshot without its
  identity, mode and error codes; a missing key is `Absent`; a tombstone (a cancel
  that came before the claim) is a `bare` record. `Valid` is
  `validPlatformGenerationSnapshot`. For each operation, `Can…` is what the Go
  closure refuses, and the operator of the operation's name is the record it
  writes, including `Stamp`, which `mutate` applies to every one of them.
* **GenerationStore** holds the record, its expiry, Redis's clock, the lease tokens
  drawn and the *flights*: writes computed but not executed. A `Send…` action is the
  part of an operation up to its script (GET, checks, the change); `Execute` runs the
  script; `Lose` drops it. The time a caller stamps is any time up to the clock plus
  `MaxSkew`, however old, because callers read their clocks before they call (and
  wait for mutexes in between). A flight may be executed again: go-redis repeats a
  command whose reply it misses.
* **SingleGeneration** drives that store with the real callers. A runner is a record
  of its `Run` program counter, the state of *consume* and *renew*, the call it is
  waiting for, and the locals that outlive a step: the snapshot a decision is based
  on (`saw`), the times that were read before a wait (`t`, `rt`), whether its context
  ended (`ctx`) and whether the renewal was cut off (`stop`). A call of Redis comes
  back `done`, `conflict` or `error`; on `error` the write may have happened, not
  have happened, or still be on its way (`Stray`). The converger's steps are those of
  `converge` and `reconcilePlatformGeneration`, with its one retry on conflict;
  a poll by a client runs the same code, so it is the same actor. The advisory lock is
  a variable naming its session: a crash or `SessionLost` frees it.
* **GenerationOutcome** is what all of this promises the user, in two variables:
  `phase` and `charged`. `SingleGeneration` and `CompareGeneration` map their record and receipt to
  them: a comparison charges all its models with one receipt, so it is charged or not as a whole.
* **CancelRegistry** has one action per critical section. `Register` is two, because
  it draws its token between them; callbacks run outside the mutex, so a cancel
  takes a callback out in one step and calls it in another.
* **CompareGeneration** has one runner whose workers stream one model each. `worker`
  is where each `runModel` is (`upstream`, its result in `result`), `run` the coordinator
  with the renewal and the context, `receipt` what `Finalize` wrote for each model, `seen`
  what the encoder let through to the client, `cancel` a `Control.Cancel` with its
  polling. A store call under the mutex is one step (`Store`): it is admitted by
  the record's guards, conflicts, or loses its reply (`lost` counts those). `Judge`,
  `Recovers`, `Reconciles` and `ConvergeActs` are the branches the runner takes on a refused
  commit, an unknown receipt and a record it no longer owns.
* **AuthSessions** keeps a `row`, a `barrier`, a `pending` and a `public` rotation result
  for every session, the account's version, the tokens that clients were `handed`, and one
  `call` per request: the locks it holds and the values it read before it waited. An
  action named `…Locks` or `…Starts` is the transaction up to its last Redis write;
  `…Commits` is the rest; `Dies` is any roll back, error or crash between the two.
  Readers that take no lock (`LoginVerifies`, `RevokeBars`) are steps of their own.
* **GatewayCalls** follows a call through `KeyRead`, `Admitted` (the owner's row), one of
  the four requests, `ListModels`/`CatalogReturns` (the cache before and after the
  upstream was asked), and the stream: `Announced`, `AcceptsTool`, `AcceptsText`,
  `StreamFails`, `Completes` are the encoder's. Meanwhile the owner's session changes the key and an
  administrator disables or deletes the owner.
* **ActionOperation** takes each service call as one step, because each is one transaction
  under the locks of actor, session, operation and ticket. `BeginNew` reserves the ticket,
  `BeginAgain` answers a repeated key, `ExecuteCommits` and `ExecuteRollsBack` are the two
  ends of `Execute`'s transaction. A commit whose reply is lost is `ExecuteCommits` with `replyLost` when
  it was applied and `ExecuteLost` when it was not; the client is told the same. `Query` is the read by key, which
  also expires what is due. `by` is the client an operation was made for: the lease owner's digest of the row.
  The eleven actions are reduced to whether they touch the target's version and whether their result mentions
  it (`delete`, `reset`, `role`).
* **ManagedUsers** splits a request in two: `Prepares` copies what the page shows (versions,
  rules) into an `intent`; the action of the operation's name commits it later. Policies
  are kept as the code keeps them, a `head` with version and count and the `rows`
  with tombstones, because two loaders read them differently (`PolicyLoads`,
  `AuthorityLoads`). `BootLocked`, `BootstrapCounts` and `BootstrapInserts` are a replica's
  start, under the named lock that serializes it.
* **PublicPublication** keeps the rows of models, of the content draft and of everything
  published, Root's requests with what Root had reviewed, the monitor's run, its
  lease and its observations. Every `Edits` and `…Pages` disjunct is one handler's
  transaction; a publication is `Reviews` (the page), then a commit that compares the
  reviewed revisions, and its answer may be lost and the request sent again.
* **PublicRender** has a job per generation. Job transactions are steps (`Leases`,
  `HoldsLease`/`RenewsLease`, `Fails`, `CompletesJob`), the artifact's activation and
  roll back are others, and a worker may die between any two. `Readings` is every time a
  transaction's clock may have shown before it waited for the row lock.

* **ConvergerScan** is one converger's goroutine between `Starts` and `WorkerStops`. A
  pass scans pages (`ScansPage`, which keeps the next cursor at once), looks at their keys and may
  be cut short anywhere (`PassCut`). Redis finishes the bucket in which it reaches the
  number asked for, so a page can be longer than a pass may look at.
* **PlatformChat** follows requests by their `pc` with the `row` each was authenticated
  with: `Consumes` and `SavesUser` write that row back. `Notes` saves the conversation as it was
  read. `PaysOrder`, `ChargesGeneration` and `Administers` are the writers that lock the row.
  `stream` is the comparison that streams: what was `told` of each model, which failures are
  `held` back, and each worker's `result`.

Definitions that end in a suffix after an underscore (`Recheck_Skipped`) are mutants:
plausible bugs in the definition of that name, used to check that a property can fail.

### What is abstracted, and why that is sound

* *Text and tokens.* A run's whole text is named after the run. Two runs never write
  the same text, so "the receipt of this run" and "the message of this run" are
  comparisons of names. Generation id, mode and user are fixed: every key is
  independent, except for the user row that `persistPlatformGeneration` updates,
  whose refusals are `PersistFails`. Refresh secrets are numbers in the order they are
  drawn; a digest is equal exactly when the secret is.
* *Clock read and GET.* Where a caller reads its clock, locks nothing and calls the
  store, the read of the clock and the GET are one step; the time may be any the
  skew allows. Where something can happen in between (renewal waiting for the mutex,
  the converger, the finalizer, a job's transaction) the time is kept and used later, as in the code.
* *Transactions.* One that takes all its locks before its first write, and calls nothing
  outside MySQL, is a step. One that writes Redis or files in between is not.
* *Repeated commands.* `GenerationStore` lets a write execute again at any time while
  it is in flight. `SingleGeneration` lets one arrive after its caller gave up.
  `CompareGeneration` takes a store call as a step, with its reply lost or not:
  what delays can do to a record is shown by the other two.
* *Budgets.* A timeout is a choice that is enabled while the thing waited for is
  not there: `LockTimesOut`, `Abort`, `CloserGivesUp`, `TimesOut`.
* *Content.* A price is one number, a document body is `plain`, `blank`, or holds a link or
  HTML that the validator refuses; the grammar is a choice. A policy's rule is a capability
  and an effect. Wording, names, projections, filters and pagination are left out.
* *Error codes, HTTP, logging* are left out. What a client hears is an end of its
  request: `done`, `failed`, `cancelled`, `error`, `duplicate`.
* *Wider than the code.* `Creates` and `Deactivates` do not ask that the observation is ten minutes old at most; a
  worker renews its render lease by itself, where a separate command does; a callback of
  `CompareGeneration` finds the run whatever replica it is on.
* *Narrower than the code.* `Polls` answers the record as it is and never the older state the code returns when its
  time is up; a converger's failing read, which ends the attempt, is no step; the reason `upstream_removed` is only the
  monitor's, though Root may type it; the filter of legacy keys and the legacy schema of prices, and an
  error frame that cannot be encoded, are left out. No property is about these.

## Properties

GenerationStore:

* `WellFormed` is the type invariant (which ties the key's life to its expiry and its
  owner to a drawn token) with `Encodable` (neither the record nor any record about to be
  written is one the encoder refuses) and `DistinctMessages` (completed models have
  different messages).
* `Lifecycle`, `LeaseHistory`, `ModelHistory`: what no step may do to the record.
  A cancel is not taken back, a commit is not cancelled, a terminal record stays; owner,
  lease and activity never move back; deltas are counted one by one.

SingleGeneration:

* `PromiseKept`: record and receipt implement `GenerationOutcome`.
* `UsesTheStore`: every step is a step of `GenerationStore`, so its theorems hold here.
* `ChargedNeverDead`: a generation that is paid for is never cancelled or failed.
* `VerdictsStand`: what a client's stream ended with is never contradicted later.
* `SentIsRecorded`: deltas sent and deltas recorded differ by one at most, and by none
  once the run commits.
* `EveryRecordSettles`: every claimed record becomes terminal.

ConvergerScan: `EveryRecordReached`: as long as no page is longer than the limit, every record is looked at
again and again until the worker is closed, except in rounds that cut a pass short with that record still in
its page. A record that is slow or fails for good delays those behind it in its page and no others; one
that fails benignly or is in another's hands delays none.

CancelRegistry: `DrainSound` (the types; no admission released and no channel closed twice;
the channel is closed exactly while the registry is idle; a drained shutdown left nobody
behind), `ToldOnce`, and `ShutdownReachesAll` under fairness.

CompareGeneration:

* `ToldAgree`: a stream that ended "done" belongs to a completed, charged record; one that
  ended "cancelled" was never charged; and what was charged is never ended otherwise.
* `ModelsToldTruly`: each model is charged as the client was told of it, every frame is
  backed by the record, and a finished stream has told of every model.
* `CancelHolds`: a cancel that turned the record over is never followed by a charge, and a
  final answer to it stays true.
* `ComparePromise`: record and receipt implement `GenerationOutcome`.

AuthSessions: `NoReturn` (a session that was
denied once is never accepted again), `HandedAreCommitted` (a client never gets a secret
that was rolled back), `RaceRecoverable` (while the old cookie is honoured, the winner's
result can be found), `BornUnderVersion` (no session survives a change of password or status).

GatewayCalls: `DeletedOwnerUnserved` (although the key itself may be left active by a request
of the owner that was under way), `CacheCoherent` (an answer never replaces that of a newer
refresh; a model taken out has no detail left), `ArgumentsWhole` (every byte of a tool call's
arguments arrives, whatever the pieces).

ActionOperation: `SettledTogether` (effect, audit, outbox, used ticket and terminal state are
never seen without each other, no key has two effects and no ticket pays for two keys), `AnswersHold`
(a success or failure a client read is the recorded one; what was made for a client that was refused, or told of a
conflict, has done nothing and never will), `UnknownIsFindable` (a lost commit is
found by its key for the whole retention, though the action changed the very target it was
authorized against), `NeverReopened`.

ManagedUsers: `OneRoot`, `PolicyStands` (every account's policy loads after any order of
creation, promotion, demotion and rewriting), `NoLostUpdate` (rules and role change only by a request whose
author saw the rules it replaces, and status only by one whose author saw the status the account has),
`ErasedMeansErased`; `AuthorityAgrees` is violated.

PublicPublication: `AsReviewed`, `PublishedOnce`, `PairStands` (the pointer names a snapshot and a
release made for each other, whichever of Root and the monitor moved it last), `StrikesEarned`
(a model is removed only after as many absences in a row, counted over holders, crashes and restored
check times); `DraftsStayDrafts` is violated.

PublicRender: `AckedStays` (once a worker was told that its render is published, nothing older is
served), `HealthyIsServed` (a site reported healthy serves the current generation with every
announcement in effect, unless a worker that missed its answer took the render back).

PlatformChat: `ToldAsStored` (when a streamed comparison is stored, the client was told of each
model what is stored, failures held back before the first frame included); `DeletionIsFinal` is
violated.

## Runs

| Run | Configuration | Properties | Distinct states | What it shows |
|---|---|---|---|---|
| operations_store_chat | MCOperationsStoreChat | SettledTogether, AnswersHold, UnknownIsFindable, WellFormed, ToldAsStored, NeverReopened, Lifecycle, LeaseHistory, ModelHistory | 678 k | Administrative operations: clients die and lose replies, tickets are superseded and lapse, the target and the actor change, results expire. The generation store with two models, one lease token, clocks that are behind, writes in flight that are repeated, lost or delayed, and a key that expires and is born anew, from a claim that is executed again or from a cancel. And chat, streamed comparisons, orders and the quota of one user. |
| single_faults | MCSingleFaults | VerdictsStand, SentIsRecorded | 1.6 M | Streaming and renewal share the store under a mutex while a cancel, a delayed command and a lost lock session come at any moment: what the client was told and what it was sent agree with the record. |
| single_crash | MCSingleCrash | PromiseKept, UsesTheStore | 582 k | A crash, a lost reply and a deleted conversation anywhere in the run: record and receipt implement the promise of GenerationOutcome, and every step is one of GenerationStore or leaves the record alone, so what is proved of the store holds here. |
| single_expiry | MCSingleExpiry | ChargedNeverDead | 2.5 M | The key outlives a stale commit by one tick only, and a second run, refused at first, claims it anew while the first still finalizes. |
| live | MCLive | DrainSound, ToldOnce, EveryRecordSettles, ShutdownReachesAll, EveryRecordReached | 65 k | Under the fairness of running goroutines, timers and convergers every record settles though its process may crash; and a shutdown reaches every run registered with the cancel registry, drains it and tells nobody twice; and a converger that is cut short anywhere looks at every record again and again until it is closed, except where the cut left the record in its page. |
| access | MCAccess | HandedAreCommitted, RaceRecoverable, BornUnderVersion, NoReturn, DeletedOwnerUnserved, ArgumentsWhole, CacheCoherent | 1.3 M | Sessions: logins at the cap, two refreshes with one cookie, revocation and password changes over MySQL and Redis, with crashes between the two. And the gateway: keys of owners being deleted, the catalogue's cache, and tool calls that arrive in pieces. |
| users_compare | MCUsersCompare | OneRoot, PolicyStands, ErasedMeansErased, ToldAgree, ModelsToldTruly, CancelHolds, NoLostUpdate, ComparePromise | 1.2 M | Administration: two requests prepared from one page change roles, permissions and accounts, replicas start together. And a comparison of two models: both stream while the lease is renewed, the request times out, a cancel polls and convergers pass by. |
| lost_session | MCSingleSession | ChargedNeverDead | violated | The converger's lock session ends before its write: a generation that was charged is failed. |
| rewritten_admin | MCRewrittenAdmin | AuthorityAgrees | violated | An administrator whose rules were rewritten once keeps a policy that every request loads, but may no longer create an account: the creation's own loader counts the tombstoned rules. |
| public_site | MCPublicSite | AsReviewed, PublishedOnce, PairStands, StrikesEarned, AckedStays, HealthyIsServed | 1.8 M | Root reviews, edits, publishes and restores prices and content while the monitor of one or two servers removes models; and workers with expired leases, lost replies, rollbacks and crashes render what is published. |
| published_drafts | MCPublishedDrafts | DraftsStayDrafts | violated | The monitor removes one model and publishes Root's unpublished price of another. |
| undone_deletion | PlatformChatDeletion | DeletionIsFinal | violated | An administrator deletes a user whose chat call is under way; the call saves the row it was authenticated with and the user is there again. |

With two workers each run ends within two minutes.
`CHECK_DEADLOCK FALSE` everywhere: a generation that ended, a registry that drained and a
publication that was answered have nothing left to do, and the bounded clocks and versions stop.

### Bounds

* *Records.* Two models are the least that can share a message or differ in state; every model
  operation touches one entry, and a comparison of models is of two.
  Two owners are the least that can be confused: a third claim meets the same record as
  a second. Two writes in flight: each compare-and-set is judged against the record alone, so
  what one write can do to another is shown by two.
* *Leases.* `Lease` and `Window` are one or two ticks where the code has 30 seconds for each; the
  renewal fires after one. What matters is which deadline comes first, and in the `single_` and `live`
  runs the clock runs past all of them: claims, cancels and renewals start no later than `Horizon`,
  and `MaxTime` leaves room for the lease or the commit window of a first claim to run out afterwards. `live`
  leaves room for a lease and a window of one tick, one after the other. Renewals fire in `single_faults`
  and `users_compare`.
* *Expiry.* `TTL` 99 means the key does not expire within the run. `operations_store_chat` sets it to
  one: a key can be gone as soon as its lease, and a claim executed again or a cancel makes it anew
  under writes in flight. One lease token does there: two owners compete for a key in
  `single_expiry`, and what the run checks is proved for any number of them.
  There `MaxSkew` is zero; a stamp may still be any time that has passed, so clocks differ by
  being behind. `single_expiry` sets it to two: a commit is stale one tick before its key is gone, so that a converger can still fail it, and
  a second run claims the id anew.
* *Faults.* `MaxLost`, `MaxDelayed`, `MaxSessions`, `MaxCrashes` are one where a run studies the
  fault: `single_faults` combines a delayed command with a lost lock session,
  `single_crash` a crash with a lost reply and a deleted conversation, `users_compare` loses one
  reply of a comparison at any of its calls. `Dies` of a session's transaction and of a worker is not bounded.
* *Registry.* Its three runs include two of one key, which is the only way a registration is
  refused while the registry is open.
* *Sessions.* Two sessions, two requests, a cap of one: every login is at the cap. A life of two
  ticks outlasts the replay window of one. Three secrets are two rotations, so that the first is no longer the
  previous one; a session draws its third only while it is the only one and the account is as it was (`Few`).
* *Gateway.* Two calls race for the cache of one model; two refreshes are the least that can
  overtake each other, and the counters of refreshes are bounded by the calls alone.
  One piece of arguments comes before or after id and name, which is every order there is.
* *Operations.* One session of one actor (a ticket of another session is refused as one of another intent is, and
  the theorems hold for any number), two keys, two tickets, two clients; leases last one
  tick, tickets two, results one, the grace none, so that each may run out before the other.
  Versions are two: a change of target or actor is one that is noticed. `Actions` are `delete` and `role`: one
  whose result names the target it removed, one that moves its version (a reset differs in nothing that is modelled).
* *Users.* Two users are a root and an account that rises and falls under two requests prepared before
  either commits; `MaxChanges` lets three versions move. The theorems hold for any number of accounts.
* *Publications.* Two models, so that one is removed while another is edited; `Budgets` lists
  mixes of edits and observations, because all at once is out of reach: three observations of one
  monitor (removal and return) with an edit of prices, an observation with an edit of content, content alone, two
  edits of prices with one of content, and two servers that compete for the lease. The limit of absences is two where the code has three: it
  separates "once" from "in a row".
* *Rendering.* Two workers, two generations, two attempts in a cycle where the code has three, two cycles, a
  lease of two ticks and a clock that is read up to one tick early.
* *Scan.* Six buckets, four with one key, and passes of two keys: pages of one and two keys, empty ones at the end of
  a round, rounds of several passes and passes of several pages.
  `PagesFit` is part of the property, because it is false otherwise: see *A page of Redis* below.
* *Chat.* One request beside generations, payments and administrators, two models, a limit of two
  calls and two days; `undone_deletion` has two requests.
* *Symmetry* is declared only in runs with invariants and action properties, and over sets whose
  members the modules only compare.

### Fairness

`FairSpec` asks for weak fairness of time, of each runner's own steps, of each
converger and of a canceller's reply and callback. The Go scheduler runs every runnable
goroutine; the converger ticks for as long as the process lives
(`platform_generation_converger.go:106-125`), and whole replicas are replaced. Crashes,
aborts, claims, cancels and session losses are never owed. A runner that is dead owes
nothing: it is the convergers that settle its record.

`FairRegistrySpec` asks that a run that was admitted goes on to register, withdraw and
give its admission back, that one whose context ended comes to `Unregister` (`Run`'s
deferred calls), and that requests and the shutdown make their calls. A run that was not
told to end may stream for ever.

`MCLive` restates all three, each weak fairness condition joined with the part of the run that takes
those steps, so that the parts that do not run owe nothing. The scan's is strong: Redis answers within the budget
again and again, though any pass may be cut before it does. That the converger comes to one record again and again, which
`EveryRecordSettles` assumes, is what `EveryRecordReached` shows of the scan, with its two exceptions: a record that
every round leaves behind in its page, and one in a page over the limit, is not converged and may stay as it is
until its key expires. No other run assumes fairness: the
liveness of a render, of a monitor or of an operation that nobody queries depends on callers the
service does not own.

## Proofs

`GenerationStoreProofs` proves, for every number of models, owners, GUIDs, callers and
writes in flight, every lease, window, time to live and skew:

| Theorem | Property |
|---|---|
| `StoreTypeCorrect` | `StoreTypeOK`, of `WellFormed` |
| `StoreEncodable` | `Encodable`, of `WellFormed` |
| `StoreDistinct` | `DistinctMessages`, of `WellFormed` |
| `StoreWellFormed` | `WellFormed` |
| `StoreLifecycle` | `Lifecycle` |
| `StoreLeaseHistory` | `LeaseHistory` |
| `StoreModelHistory` | `ModelHistory` |

from the assumptions `RecordAssumption` and `StoreAssumption` alone. None of the
properties is inductive: a write in flight was computed from a record that may be gone.
The inductive invariant `StoreInv` therefore says of *every flight* what it may do if it
is executed at any later time: a compare-and-set's `next` is a `GoodWrite` of its
`expect` — well formed, with the same owner or none, and forward in the sense of all
three action properties — and a script that decides in Redis carries what it needs to
decide well. Each operation is shown once to make a good write of any live record
(`RecordDeltaGood`, `ModelEndsGood`, `SettleGood`, `BeginCommitGood`, `CompleteGood`,
`FailStaleCommitGood`, `RenewLeaseGood`, `RequestCancelGood`), through two general
lemmas about `mutate` (`StampFields`, `MutationGood`). `ExecuteKeeps` then needs only
that the comparison succeeded: the record *is* `expect`. The action properties follow
from `RecordSteps`, which says that a step of the store leaves the record, creates it,
drops it at its expiry, enriches a tombstone, or makes a good write.

`CompareCancelProofs` proves of `CancelRegistry`, for every number of runs, keys and cancellers, from
`RegistryAssumption` alone:

| Theorem | Property |
|---|---|
| `RegistryTypeCorrect` | `RegistryTypeOK`, of `DrainSound` |
| `RegistryNeverPanics` | `NeverPanics`, of `DrainSound` |
| `RegistryDrains` | `DrainTracksRuns`, of `DrainSound` |
| `RegistryDrainedIsIdle` | `DrainedIsIdle`, of `DrainSound` |
| `RegistryDrainSound` | `DrainSound` |
| `RegistryToldOnce` | `ToldOnce` |

The inductive invariant `RegistryInv` adds to the types: *Accounted*, the counter of
admissions is the number of runs that hold one, and a run has an entry exactly while it
is registered; *Channels*, the current drain channel is closed exactly while the registry
is idle, which is why the step that closes it cannot find it closed, and once the
registry is closed nobody opens a new one, so the channel that `CloseAndWait` remembered
is the current one; *Callbacks*, a callback was invoked at most as often as its entry was
marked, and one that was taken and not yet called belongs to one caller only. Counting is
the part that needs more than first-order reasoning: `HoldersGrow` and `HoldersShrink`
tie the counter to the cardinality of the set of holders.

Of `CompareGeneration`, `CompareCancelProofs` proves, for every number of models and every
lease, window and number of lost replies, from `CompareAssumption` and `RecordAssumption`:

| Theorem | Property |
|---|---|
| `CompareInvariant` | `CompareInv` |
| `CompareToldAgree` | `ToldAgree` |
| `CompareModelsToldTruly` | `ModelsToldTruly` |
| `CompareCancelHolds` | `CancelHolds` |
| `CompareKeepsPromise` | `ComparePromise` |

`CompareInv` adds to the types: *Halted*, no worker is between its stream and its last call once the models'
phase is over; *Closed*, a stream that ended belongs to a run that is over; *Heard*, the client was told of each model
what its goroutine left, and of no delta that is not recorded; *Charged*, the receipt is what the goroutines
left, each of them something; *Staged*, what the coordinator knows at its steps; *Turned*, what
a cancel that was accepted or answered knows of the record; *Ended*, what a stream's last word says of it;
*Settled*, of a record that commits every model has ended. `Lawful` says what any call may make of the record in terms of these, so that coordinator, workers,
renewal, cancel and converger are each shown lawful once and the parts are kept by lawful changes. The one
call that is not lawful by itself is a converger that fails a stale commit: `ReceiptDecides` shows that it does so only
without a receipt, when nobody was told that the commit held.

The refinement needs one thing `Lawful` leaves out, which successor a state may have: `Follows` says so, with the
receipt deciding the commit, and one lemma per group of actions shows that the record follows while the receipt stays, or the
receipt is written while the record stays at its commit (`ChargeOrRecord`). Each of the cases is one action of
`GenerationOutcome` or a stutter. Unlike in single mode no condition on faults or expiry is needed, because
a call there is one step and the key does not expire: `CompareGeneration` abstracts from both.

`SingleGenerationProofs` carries these results over to the whole system. `SingleUsesTheStore` says
that `SingleGeneration` implements `StoreSpec`: whatever runners, pollers, cancels, crashes, lost
replies and expiries do, a step of `SingleGeneration` is one of the store's actions or leaves the
record alone, so every theorem above is one about a generation in single mode. It is no matter of
substitution. A client must be *allowed* its step: a token may be claimed with only if it was drawn,
a command may take effect or be lost only if it is in flight, a time may be stamped only if some
process's clock has shown it. The invariant `ClientInv` says why they always are: of each goroutine
that waits for a reply the command is in flight and is its own (`Pending`), a runner that left "idle"
drew its token, of the two goroutines that share the mutex one at most is in a call, and every time an
actor keeps between two steps (`rt`, `t`) lies between one and the clock with its skew. One lemma
per goroutine shows that each of its actions keeps the clients and is the store's
(`AllKeep` combines them); actions of the same shape share the lemmas `ReturnsStep`, `TidySound` and
those about fields. The assumption `SingleAssumption` keeps the names of runners, pollers and cancels
apart, as the code's tokens and goroutines are.

| Theorem | Property | Under |
|---|---|---|
| `SingleUsesTheStore` | `UsesTheStore` | |
| `SingleClients` | `ClientInv` | |
| `SingleVerdictsStand` | `VerdictsStand` | |
| `SingleSentIsRecorded` | `SentIsRecorded` | |
| `SingleChargedNeverDead` | `ChargedNeverDead` | `MaxSessions = 0`, `MaxDelayed = 0` |
| `SinglePromiseKept` | `PromiseKept` | the same, and `MaxTime < TTL` |

The last four rest on tables of what a step of each kind of goroutine can do to what is shared:
`RunnerMoves` (a runner past its claim passes between two calls, sends one, or hears of one, under
`Guards` for lock and receipt), `ConvergerMoves` and `CancellerMoves`. The three dozen actions are opened once, to
prove that each is in its table (`RunnersMove`, `ConvergersMove`, `CancellersMove`); what follows argues from the
tables alone.

- *Verdicts* (`VerdictInv`): a claim is sent once and is in flight only while its runner waits for it or gave
  up with an error (`ClaimsOnce`); the owner of the record is the claimant (`OwnedByClaimant`); what each call
  of Run would write is what its program counter says (`Made`); and what a runner saw or told of the end of
  its own record is so (`Stands`), because terminal states stay and a second claim of the key makes
  another claimant. Late and repeated commands are no exception: they compare with a record that is gone.
- *Counts* (`SentInv`): a delta in flight is the next one of its runner, which waits for it or will not commit
  any more (`DeltaOf`, `Doomed`); a commit in flight begins with what its runner has sent (`CommitOf`); hence
  `Recorded`. No assumption on faults is needed.
- *Charge* (`ChargeInv`): *NothingStray*, a command in flight is one somebody waits for; *UnderLock*, who goes on
  under the advisory lock has it; *Deciding*, nothing but `ReconcileComplete` and `FailStaleCommit` would write over
  a committing record, the first only with a receipt and the second only without one; *Charging*, a runner that is
  about to persist the receipt of its own record finds it committing. `Decided` is the heart of it: a write
  that takes effect on a committing record completes it if it is charged for, and otherwise fails it while a
  poller holds the lock, so that no runner is between its check and its transaction. The two conditions
  are those under which the code's argument holds, and TLC shows that they are needed: a session
  that dies takes the lock along while its runner goes on (run `single_session`), and a
  `FailStaleCommit` that outlives its caller lands after the lock was given back (seen with one owner,
  `MaxDelayed` 1, `Lease` and `TTL` 9 and `MaxTime` 6 in `MCSingleExpiry.cfg`).
- *Promise*: within one life of the key (`OneLife`: nothing expires, and a runner past its claim is the
  claimant) every step is one of `GenerationOutcome` under the mapping of `Phase` and the receipt, or changes
  neither (`ChargeAndRecord`, `PromiseStep`). When the key may expire the promise is about more than one
  generation record and only `ChargedNeverDead` is meant to hold.

`ActionOperationProofs`, for every number of sessions, keys, tickets and clients, every lease,
grace, ticket life and retention, from `OperationAssumption`:

| Theorem | Property |
|---|---|
| `OperationInvariant` | `OperationInv` |
| `OperationSettledTogether` | `SettledTogether` |
| `OperationAnswersHold` | `AnswersHold` |
| `OperationUnknownIsFindable` | `UnknownIsFindable` |
| `OperationNeverReopened` | `NeverReopened` |

`OperationInv` is made of types, *Bonded* (a stored operation keeps the one ticket it was begun
with: same session, version and intent, and no other key holds it) and *Recorded* (the ticket is
consumed and effect and record are there exactly once the operation has ended, and an operation is
expired only after its query time), *Answered* (a result a client read is the recorded one: it may be
told only what `View` shows, and `ViewTells` says what that is in terms of the record) and *Owned* (an
operation is made by a client that had not begun, ended by that client alone, and nothing is recorded
under it as long as that client can still act or was refused). `AnswersHold` is the last two together.

`ManagedUsersProofs`, for every number of accounts, requests, replicas, capabilities and effects,
from `UsersAssumption`:

| Theorem | Property |
|---|---|
| `UserInvariant` | `UserInv` |
| `UserOneRoot` | `OneRoot` |
| `UserPolicyStands` | `PolicyStands` |
| `UserErasedMeansErased` | `ErasedMeansErased` |
| `UserNoLostUpdate` | `NoLostUpdate` |

`UserInv` adds to the types: *Rooted*, a replica that counted no root holds the advisory lock, and as
long as one does there is no root; *Policies*, a live account's head counts its live rows, which all have
its version, and only an administrator has any (`RowsCount` and the lemmas about finite sets do the
counting); *Sights*, a request whose version is still the target's saw the target's present rules and
status, which is what makes the comparison of versions under the row locks sufficient for `NoLostUpdate`.

`AuthSessionsProofs`, for every number of sessions and requests, every cap, life, replay window and
barrier life, from `SessionAssumption`:

| Theorem | Property |
|---|---|
| `SessionInvariant` | `SessionInv` |
| `SessionBornUnderVersion` | `BornUnderVersion` |
| `SessionHandedAreCommitted` | `HandedAreCommitted` |
| `SessionRaceRecoverable` | `RaceRecoverable` |
| `SessionNoReturn` | `NoReturn` |

`SessionInv` adds to the types: *Locks* and *Swept*, who holds the user row and which rows, and that a
change of version under way has all live rows; *Timely*, a barrier outlives the session it
denies, although it was written by a clock that has moved since, which is what `NoReturn` needs when the
transaction rolls back; *Shown* and *Drawn*, every secret anyone holds is the newest drawn or was
committed; *Windows* and *Rotating*, as long as the old cookie is honoured the current secret is in
`public` or in `pending`, in `public` for good once it was given out, and a rotation that may still
commit has its result in `pending` until the window of its own clock ends.

`PublicSiteProofs` has two parts. The first is about `PublicPublication`, for every number of models, prices,
bodies, entries, requests, servers and budgets, and every limit of absences, from `PublicationAssumption`:

| Theorem | Property |
|---|---|
| `PublicInvariant` | `PublicInv` |
| `PublicAsReviewed` | `AsReviewed` |
| `PublicPublishedOnce` | `PublishedOnce` |
| `PublicPairStands` | `PairStands` |
| `PublicStrikesEarned` | `StrikesEarned` |

`PublicInv` adds to the types: *Authored*, whoever is named on a snapshot or a release has a request that made
it, and is named on one of each kind at most; *Foreseen*, a request that is still to commit saw what the revision it
names stands for, and *Fulfilled*, one that has committed published that. `RequestStays` carries
both through every step that is `Revised`: what Root reviews changes only with the revision, for
which the monitor must advance it as well when it removes a model. *Sound*: a model that is active is not removed, the
pair fits, and a removed model still published has its alert up. *Counted*: strikes are at most the absences in a row,
as long as the model can be removed. *Checked* is what that rests on: check times restored from an old snapshot
may make Root's rows older than they were, never newer than any observation, and the holder of the lease has
observed later than every check, whoever made it, because a lease is taken before the catalogue is fetched and one
that was lost is never held again with the same observation; so nothing it sees is passed over as already judged (`Judgement`), and a strike never outruns an absence.

The second part is about `PublicRender`, for every number of workers, publications, attempts, cycles and announcements, and every
lease, delay and skew of clocks, from `RenderAssumption`:

| Theorem | Property |
|---|---|
| `RenderInvariant` | `RenderInv` |
| `RenderAckedStays` | `AckedStays` |
| `RenderHealthyIsServed` | `HealthyIsServed` |

Neither property is inductive: a rollback restores what a worker replaced, and the link is only as new as what
every worker that may still roll back remembers. `RenderInv` adds to the types: *Numbered*, a fence was issued
before anyone has it and is one worker's own while it is at work (`FencesGrow` and `Carries` are what a
step has to do for that, `NumbersKept` says that it is enough); *InOrder*, nobody replaced anything newer than
what it switched to, the link is at least what anyone switched it to or was told, and what a newer worker would
restore is not older than that either; *Twins*, what has the same fence was built at the same time; *Dated*, who
holds the lease built after it was given; *Reported*, what each state of the current job says of its holder, of
the link and of the alert. `Newer` is a linear order of generations and fences (`Ranks`). `SwitchStep`, the
activation, is the hard case: the new link is newer than the one it replaced, which was at least what
everybody else switched it to or was told. That the latest of the announcements in effect is a
time (`WatermarkType`) rests on the well-foundedness of the naturals (`LeastOfNaturals`).

`GatewayChatProofs` holds the theorems about the two ways to a model that keep no generation record. Of
`GatewayCalls`, for every number of calls and catalogue models, from the types of the constants:

| Theorem | Property |
|---|---|
| `GatewayInvariant` | `GatewayInv` |
| `GatewayDeletedOwnerUnserved` | `DeletedOwnerUnserved` |
| `GatewayArgumentsWhole` | `ArgumentsWhole` |
| `GatewayCacheCoherent` | `CacheCoherent` |

*Turned*: a call that began after the owner's deletion waits for the owner's row or is over. *Counted*: no
refresh is ahead of the generation counter, no two calls fetch the same model under one number, and the
newest detail asked for is not of a model taken out. *Whole*: nothing is sent before the call is open,
everything that came is sent from then on.

Of `PlatformChat` it proves `ChatToldAsStored` (`ToldAsStored`) for any number of models. Its invariant
`StreamInv` adds `HeldOrTold`: only failures are held back, only before the first frame, and unless the
stream broke every model that ended was told what will be stored of it, or its failure is held.

Only model-checked: the liveness properties `EveryRecordSettles`, `ShutdownReachesAll` and `EveryRecordReached`,
which are out of the prover's reach. Every invariant and action property of a passing run is proved for every value of the
constants, `ChargedNeverDead` and `PromiseKept` of `SingleGeneration` under the conditions named above.
## Findings

Each is a run that TLC ends with a counterexample to a statement of the repository.

* **lost_session.** A converger that found no receipt fails the commit in Redis. If its
  MySQL session — and with it the advisory lock — was lost before that write, a
  finalizer may have taken the lock, seen a committing record and committed the receipt:
  the user pays for a generation that is failed. The single-stream design (`:26`) rules
  this out.
* **rewritten_admin.** `lockCreateAccountAuthority` (`action_create_user.go:437`) counts the
  override rows of the actor with their tombstones. An administrator whose rules were
  replaced once, or who was demoted and promoted, keeps a policy that every request
  loads and may no longer create an account. The roles design (`…-a08-…:116`) excludes historical rows
  from authorization.
* **published_drafts.** The monitor's safety publication takes its prices and activations
  from the draft (`upstream_price_monitor.go:317`): with the removal of one model it
  publishes Root's unpublished changes of the others. The content and pricing
  design (`:20`) keeps them drafts until Root publishes.
* **undone_deletion.** `CheckAndConsumeCall` saves every column of the user row that was read
  at authentication (`billing.go:74`), and a chat saves it again after its answer
  (`platform_chat.go:413`). A deletion in between is undone; the same happens to a status, a
  new password, a plan that was paid, or calls counted meanwhile. The soft-delete design (`:11`) makes a
  deletion final.

Found on the way, reproduced by earlier runs or read from the code, and described in the hazards where
they bite, but checked by no run now:

* A renewal that read its clock before it waited for the mutex
  (`platform_single_generation.go:475-477`) is refused under a live lease
  (`platform_generation_store_control.go:146`), and a healthy run is aborted.
* A renewal that is cut off when the stream ends returns an error that `Run` takes for a lost
  lease: the finished text is dropped.
* The idempotency binding of a price publication covers the draft's items
  (`public_price_snapshot.go:396`) and is computed before the earlier commit is looked up: after any change of an item
  a retry finds its own commit and is refused, where the design (`…-public-content-pricing-…:143`) returns the original result.
* `AddMessage` saves the whole conversation row: a chat under way brings a deleted conversation back, its earlier messages deleted.
* *A page of Redis* may be longer than a pass may look at, and the cursor has moved on
  (`platform_generation_converger.go:164`, `:172`): with the same keys in the same buckets the rest of the page is skipped
  in every round. Without `PagesFit`, TLC shows it with two keys in a bucket and no pass cut short. The control design
  (`…-platform-generation-control-…:189`) promises that the reconciler "still guarantees eventual
  cancellation when dependencies are healthy", and `:195` knows that COUNT is a hint.
* A receipt whose conversation was deleted leaves its record `committing` until the key expires: the converger is refused
  each time. `EveryRecordSettles` is run without deletions.
* An id claimed again a day later is completed with the first run's receipt.
* On a database without the row of `public_publication_state` the monitor cannot record an observation
  (`upstream_price_monitor.go:158`), and publishing needs an observation.
* A removed model that content still features makes the safety publication conflict on every
  tick, because the release is prepared from the same content.
* A worker whose `Complete` reply is lost rolls back a render that was recorded as succeeded
  (`public_render_artifact.go:535`): health says fresh, the link is older. `HealthyIsServed` names the exception.
* *The cap of sessions.* `Create` reads its clock (`auth_session.go:70`) before it waits for the row of the user and
  denies one session, the oldest of those live by that clock. When the oldest ended during the wait and another login
  created a session meanwhile, the one denied is one that had ended, and the account has more live sessions than the
  cap; as every later login denies one and creates one, it stays there. TLC shows it with three sessions, two
  requests, a cap of one and three clock ticks; the registration design (`…-user-registration-management-…:16`)
  allows 50 active sessions at most. Every run is taken, so no configuration is kept for it.
* `MarkPendingRecovery` has no production caller, and nothing dispatches `admin_action_outbox`.

## Not modelled

* *Root alerts' receipts.* Reading and acknowledging; occurrence and resolution are modelled
  where the monitor and the render job call them.
* *Migrations.* Each is a list of DDL statements. What a crash between a statement and the ledger
  row leaves depends on whether the statement is idempotent, which is data of the schema files.
* *Upstream clients and protocol conversion.* Apart from the cache and the assembly of tool
  calls it is formatting; a runner sees a stream that yields, ends or fails.
* *Cryptography*: password hashes, HMACs, JWTs. A digest is equal exactly when its secret is.
* *Process, configuration, HTTP, deployment, web assets*: no state of their own. The order of a
  shutdown meets the model in `CloseAndWait`.

## Plan

In this order; each module comes with its runs, mutants and map.

1. **RootAlert**: receipts of a reopened alert under retried transactions.
2. **MigrationRunner**: the ledger against statements that are replayed after a crash.
3. The liveness of a record under the scan: which keys and budgets leave no record out.
