# A formal model of the platform libraries

The repository is a monorepo of NestJS libraries for a multi-tenant HR platform: `libs-core`
(request context, configuration, two-level cache, health), `libs-apis` (guards, interceptors,
filters), `libs-sql` and `libs-mongo` (repositories, transactions), `libs-events` (Kafka) and
`libs-aws` (Cognito).  This directory holds TLA+ modules for the parts whose correctness
depends on interleaving, failure and order, the TLC configurations that check them, and
proofs checked by TLAPS.  All paths below are relative to the repository.

## 1. The system

| Part | State it keeps | Operations | Modelled by |
|---|---|---|---|
| `MemoryCacheProvider`, level 1 | a JavaScript `Map` of entries with an expiry | get, set, has, del, flushNamespace, flushAll, evict | `CacheStore`, `MemoryCache` |
| `RedisCacheProvider`, level 2 | the key space of a Redis server, a connection | the same, as commands that can fail | `CacheStore`, `TwoLevelCache` |
| `CacheService` | none of its own | the same over both levels, executeIfAbsent | `TwoLevelCache` |
| `RateLimitGuard` | one record per client, in the cache | canActivate | `RateLimit` |
| `TransactionService`, `UnitOfWork` | a transaction manager under a key of the request context | runInTransaction, getManager | `Transaction` |
| `KafkaRetryInterceptor`, `EventPublisher` | the attempts of the delivery in hand | intercept, retry, publish to the dead letter topic | `KafkaRetry` |
| `RequestContextService`, `ContextMiddleware` | `AsyncLocalStorage` | run, current, set | `RequestPipeline`, `Transaction` |
| `AuthGuard`, `PermissionGuard`, `CumulativeAccessEvaluator` | sessions and roles in the cache | canActivate, evaluateAccess | `AccessEvaluator`, `RequestPipeline` |
| `TimeoutInterceptor`, `AuditInterceptor`, exception filter | none | intercept, catch | `RequestPipeline` |
| `BaseRepository` (SQL), pagination | the rows of a table | create, find, findOne, findPaginated, update, delete, forceDelete, restore, exists | `Repository`, `SqlRepository` |
| `BaseMongoRepository`, tenant plugin | the documents of a collection | create, update, delete, restore, findPaginated, and every filter the hooks complete | `Repository`, `MongoRepository`, `TenantStore` |
| `ConfigurationService`, loader, `deepMerge` | the validated configuration, `process.env` | constructor, reload, get | `Configuration` |
| `HealthService`, `HealthController`, indicators | registered indicators | registerIndicator, checkAll, check | `Health` |
| `CognitoAuthService`, `CognitoService` | none; the user pool keeps accounts, sessions and tokens, the application what it is handed | signing up and in, challenges, refresh, passwords, administration | `Cognito` |
| `scripts/publish.js` | the npm registry | the loop over the packages, as overlapping jobs | `Publish` |

How they interact.  Guards, sessions and the rate limit all go through `CacheService`, which
answers from the process's own level 1 and falls back to the Redis server every instance
shares.  Handlers run inside the request context that a middleware opens; repositories take
their entity manager from `TransactionService`, which looks for one in that context.  Event
consumers run handlers without a request context, wrapped in the retry interceptor, which
publishes what it gives up through `EventPublisher`.  Configuration, health, the Cognito client
and the publication of the packages share no state with the rest nor with one another.

What is hard here.  Node runs one callback at a time, so code between two `await`s is atomic
and everything else interleaves: a read and the write that depends on it (rate limit,
executeIfAbsent, hydration), the key of the context that several works of one request share,
a retry that sleeps while its partition is given away.  Redis commands and publishes fail and
are only logged.  Several instances hold level-1 copies that nobody invalidates.  Processes
restart.  Repositories check first and write in a second statement, and write by id without
asking whose row it is; answers of Cognito are lost after the pool has acted on them.
`PROJECT.json` lists these as hazards, each with its line and the properties for it.

## 2. The modules

The unit of atomicity is everywhere the code between two awaits, or one command or statement
an outside server executes.

**CacheStore** holds the data operations of both providers, without state, so that the cache
and the rate limit share them.  A level-1 store is `[entry, older]`: the entries by key, and
the relation "inserted before" in which a `Map` iterates; writing a key that is held leaves
its place.  `MemorySet` is the whole of `set`: make room (sweep the expired, then drop the
oldest if still full), apply the default ttl, insert.  An entry with `exp = Never` has
`expiresAt = null`.  Time is in ticks, `Second` of them in a second, so that the rounding of
milliseconds to seconds can be seen.

**MemoryCache** is `MemoryCacheProvider` by itself: its methods are `async` but await nothing,
so each is one action.  `SetUnserializable` is a `set` whose `JSON.stringify` throws, after
room has been made.  `written` is auxiliary, what the callers last wrote.  **LossyMap** is the
abstract specification: a map whose reads answer the value last written or, at any time,
nothing, and never a value after its time.  `MemoryCache` implements it with its own variables
of the same names.

**TwoLevelCache** is `CacheService` in a deployment.  A *fiber* is a chain of awaits, the
handling of a request say; each of its calls runs in some instance.  A call begins (level 1 is
read or written at once), its commands queue on the instance's connection (`chan`), Redis
executes them in order or they fail (`CommandFails`, the catch blocks), and the reply lets
the fiber go on (`Finish...`).  `get` hydrates level 1 with the default ttl; `flushNamespace`
alternates SCAN and DEL; `executeIfAbsent` checks, runs its callback, then sets the marker.
`Restart` empties an instance, its queue and its fibers.  `truth`, `disturbed`, `ran` and
`touched` are auxiliary: they say which keys saw calls overlap, commands fail, or a write while
another instance still held the key.

**RateLimit** is the guard over those two levels: `Arrive`/`SendGet`/`RedisReads`/`Hydrate` are
`cacheProvider.get`, `Refuse`/`OpenWindow`/`CountRequest` the decision, and the record goes
to level 1 at once and to Redis with `RedisWrites`.  A key is a client, data are
`[count, until]` with `until` the code's `expiresAt`.  `grants` counts admissions per window.

**Transaction** is `runInTransaction` over a pool.  A *work* is one call of it; it runs in a
context or in none, may call other works (awaited or not), and issues row writes that ask
`getManager` when they are issued (`Issue`) and reach the database later.  `key[c]` is the
work whose manager the context holds; `Forget` is the `finally` block, which deletes the key
whoever set it.  Connections, COMMIT, ROLLBACK and failures are the database's, modelled from
how the service relies on them.  `mixed` marks contexts in which works overlap that do not
await one another (two parallel units of work, or a child nobody awaits).

**KafkaRetry** is the interceptor around the handlers of one partition.  A delivery is handled
and retried until it succeeds or `failedCount` attempts are used up, then copied to the dead
letter topic; a failed publish is logged.  Between its attempts the consumer waits and fetches
nothing.  A message without data passes the interceptor by: the error of its handler reaches the
client, which delivers it again (`Fail`, `Empty`).  The client commits offsets on its own.  A
rebalance gives the partition to another consumer while the old one may go on with its message.

**RequestPipeline** is what `ApisModule` puts around the handlers of one instance.  `Arrive` is
the context middleware and the guards up to their first await; then each `CacheService.get` is
a lookup in level 1 (`Read`, in the step that asks for it), Redis answering (`Ask`) and the
hydration (`Fill`), and `AuthGuard`, `ReadProfile` and `PermissionGuard` are the code after the
session, the profile and each role have come.  `RateLimitGuard` may let through or refuse, as
`RateLimit` has it.  A request that is `"running"` is inside the interceptors: pipe, handler and
timeout race, and `status` is what the client was told first.  Services outside `src/` write the
same keys in Redis (`Write`), as the README of `libs-apis` shows them do; a session that expires
is such a write.  Level 1 is used as the map that `MemoryCache` was shown to be: it may forget
any entry at any time (`Forget`).  **AccessEvaluator** is the pure evaluator the guard calls.

**Repository** has what both repositories share: the shapes of rows and documents and the
arithmetic of pages, with the two different default sizes (the repositories read 10, the
metadata of `createPaginationMeta` counts in 20).

**SqlRepository** is `BaseRepository` over one table.  A where clause is a set of alternatives,
each with an id and a tenant or none; `ApplyTenantScope` sets the tenant in every one of them
and `Combine` merges `options.where` over it before.  Every statement is a step; `BeginWrite` is
the `exists` of delete, forceDelete and restore and `EndWrite` their second statement, and since
`exists` is given the id beside `where`, it counts the rows of the whole table.  Writes go by id
and check no tenant.  An update saves some columns (`UpdatePart`) or an entity with all of its
columns as they were when it was read (`UpdateWhole`); a create may bear the id of a row there is.
What is promised rests on what callers know, so auxiliary variables say it: `handed`, the
entities, ids with their state, that scoped reads and creates returned to requests of a tenant;
`stray`, the ids a request wrote with although its tenant was never handed them; and `whole`, the
rows of which the last step wrote every column.

**MongoRepository** is `BaseMongoRepository` on a schema with `tenantSoftDeletePlugin`: one
command per step, each with the filter the hooks complete (`Filter`), and the two queries of
`findPaginated` that run concurrently (`BeginListing`, `FindPage`, `CountDocuments`).  `restore`
leaves the stamp of the deletion, as `undefined` is not sent; `update` spreads what it is given,
tenant included.  **TenantStore** is the abstract specification: each tenant has a store of its
own, a request changes the store of its own tenant, or gives a record away.  `MongoRepository`
implements it (`KeepsTenantStores`, `INSTANCE TenantStore WITH`): the store of a tenant is the set
of its documents with their states.

**Configuration** is a process that starts, reloads and stops while its YAML files and its .env
file are edited.  `DeepMerge` merges sections of keys, `ParseEnvVariables` turns the environment
into the same shape, `Dotenv` adds the .env file to `process.env` with or without overriding; the
constructor does not override and `reload` does.  A section may be absent, an object, or the
scalar an empty YAML section is.  An environment has one value of a name, and so has what
dotenv parses of a file; `Picked` is the sequence of the variables the file adds, in its order.

**Health** is `checkAll` for concurrent requests: one indicator after another, each of which may
be up, be down, throw or hang at the moment it is asked (`Await`, `Answer`).

**Cognito** is the client with the user pool it calls and an application that keeps what it
returns.  An action is a call with what the pool does; an answer that is lost leaves the pool
changed and the application as it was.  `pending` is the challenge the pool waits for and
`challenge` the one the application was told; `RefreshesByToken` chooses between the two commands
of `refreshToken` by the argument of the call, which may be left out or contradict the module's
option, and else by that option; `BeginRefresh` sends it, with a SECRET_HASH or without,
`Accepts` is what the pool says of it, and `Refreshed` the token that is returned.  Refreshes are
in `flight` concurrently.  `since`, `behind` and `excused` are auxiliary.  The pool is external, modelled from
how the client relies on it and on what it documents of its errors.

**Publish** is `scripts/publish.js` in jobs that overlap and may be run for any commit: the order
the packages are sorted in, a package.json that cannot be parsed and drops its package (`Broken`,
`Publishable`), a filter that names a package or none, `npm view` that takes every failure for
"not there", publishing that fails before or after the registry has taken the version, the exit
code.

The `MC*` modules give the constants small values.  `MCStores` (level-1 cache and repositories),
`MCAccess` (rate limit and Cognito) and `MCService` (retries, configuration, health, publication)
each check several modules that share no state: the variable `part`, chosen in the initial state,
says whose behaviour it is, so that the state spaces add up.

## 3. What the runs check

| Run | Module, cfg | Properties | Bounds |
|---|---|---|---|
| stores | `MCStores` | `TypeOK`, `CapacityBound`, `HoldsLastWrite`, `EvictionIsLastResort`, `ImplementsLossyMap`; `TenantsKeptApart`, `BackOnlyIfAsked`; `KeepsTenantStores`, `PageTellsTheRest` | cache: 3 keys for 2 places, 2 values, ttls undefined/0/1 with a default of 2, 3 ticks; repositories: 2 tenants, 2 ids, 2 requests, where clauses for one row and for another tenant's rows, 1 stray id, pages 0 to 2 of 0 to 2 records, default sizes 1 and 2 |
| two_level_cache | `MCTwoLevelCache` | `CapacityBound`, `StaleOnlyIfDisturbed`, `OncePerMarker`, `FlushClears` | 2 instances, 2 fibers, 2 keys, 1 place in level 1, 3 calls, 1 fault, 3 ticks |
| access | `MCAccess` | `ExactInSequence`, `ForgottenWithWindow`, `RefusalEarned`; `ChallengeResumable`, `TemporaryNeverSuffices`, `SessionKept` | rate limit: 1 client, 2 instances, 2 concurrent requests, 4 in all, limit 2, window of 1 s = 2 ticks, 7 ticks, 1 fault; Cognito: 1 user, 2 overlapping refreshes, 2 sessions, 2 tokens of each, 1 lost answer |
| transaction | `MCTransaction` | `TypeOK`, `AllOrNothing`, `ManagerOpen`, `RequestsKeptApart`, `EveryWorkEnds` | 3 works, each in one of 2 contexts or in none, pool of 2, 1 row each, 1 fault |
| request_pipeline | `MCRequestPipeline` | `OnlyWhatWasHeld`, `AnswerHonest`, `CaughtUp`, `EveryRequestAnswered` | 2 chains of requests without an end, 1 session of 2 tenants, 2 roles, 2 permissions, 2 changes |
| service | `MCService` | `TypeOK`, `NothingSkipped`, `InOrder`, `CopiesBounded`, `DeadAfterAllAttempts`, `PartitionDrains`; `ReloadLikeRestart`, `EnvironmentWins`; `FaultShown`, `CheckEnds`; `ExitZeroMeansAll`, `DependentsAfterCore` | retries: 2 consumers, 3 messages, one without data, failedCount 2, 2 faults; configuration: 1 section of 2 keys, 3 variables, 2 files; health: 2 checks, 3 indicators; publication: 2 jobs, 3 packages, 2 commits, one package.json broken at each, a filter for one package, for all and for none |
| lru_eviction | `MCMemoryCacheLru` | refutes `EvictsLeastRecentlyUsed` | 3 keys for 2 places |
| rate_limit_later | `MCRateLimit`, `MCRateLimitLater` | refutes `TryAgainLater` | as access, 8 ticks, no fault |
| transaction_alone | `MCTransaction`, `MCTransactionAlone` | refutes `AbortLeavesNothing` | works outside of a context only |
| dead_letter_loss | `MCKafkaRetry`, `MCKafkaRetryLoss` | refutes `NoMessageLost` | as service, 1 fault |
| retries_block | `MCKafkaRetry`, `MCKafkaRetryBlock` | refutes `NonBlocking` | as service, 1 fault |
| failed_count_zero | `MCKafkaRetry`, `MCKafkaRetryZero` | refutes `SafeDefault` | as service, failedCount 0 |

Why the bounds are enough.  *stores*: with three keys for two places every write at the
limit has to choose, and three ticks see an entry live, on its last tick, and over; with two
tenants one can reach for the other's row; two requests put any statement between the count and
the write of the other; one id that strays leaves another that has not; two ids are what a page of
one record leaves another page of, and default sizes 1 and 2 differ as 10 and 20 do.
*two_level_cache*: three calls are a victim and two that get in its way; two instances are
needed for drift, two keys for a SCAN of two parts, one place to make hydration evict.
*access*: limit 2 has a first request, a counted one and a refused one; seven ticks hold
two windows and what is left over by rounding; `Second = 2` makes half a second visible; two
sessions are a challenge that follows a challenge, or a sign-in after another; two calls and two
tokens rotate one away from under the other.
*transaction*: two works collide over a context or the pool, a third is a child or a stranger;
two works outside of a context are as many as the pool has connections, and starve each other.
*request_pipeline*: two changes are what it takes to mix two states of the authorization data
(the role is taken from the user, then given the permission); one chain runs the full
authorization while the other reads and hydrates the same session; one role of the profile has
been deleted, one permission is granted only by the other, in the scope SELF.
*service*: a message before, in and after the trouble, the middle one without data; two faults
move the partition and fail a publish, or crash and move, in one behaviour; two variables of the
three stand for the same path, and two files merge in order; two indicators share a name and one
of them may hang, the third may throw; the core is listed after both others, has to be moved
before one of them and has new versions, a job of the old commit runs beside one of the new, and
the core cannot be read at one commit, another package at the other.

Symmetry is declared between ids, and the two keys of the one namespace (stores), keys, instances
and fibers (two_level_cache), requests, instances and calls (access); no liveness property is
checked in these runs.  The bounds on the state explored (`MaxSession`, `MaxGen`, `MaxLost`,
`MaxStray`, `MaxFaults`) are guards of the actions that count.  Deadlock checking is off where the
bound on calls, works or messages ends the run (all but stores, whose parts can always go on).

What they show, in words.  The level-1 cache never outgrows its limit, evicts live entries only
as a last resort and never lies.  A cached value goes stale in three ways only: calls on its
key overlap, a command fails, or another instance still holds it; all three happen, nothing
else does.  A flush removes all that was there throughout.  A rate-limited client is refused
only if the limit was really used up, and gets exactly the limit when its requests come one
after another; lost updates let through too many, never too few.  Units of work whose works
await one another are atomic at every interleaving with other requests, nested works included: one
whose error the outer work swallows leaves its rows with the others.  Works of a request context
cannot exhaust the pool for good.  Works outside of one can: each holds a connection and needs
another for every statement (`Starved`), so two of them block a pool of two, and `EveryWorkEnds`
says that there is no other way.  No event is skipped, each failed one is attempted as often as
`failedCount` says, in order, and none is copied more often than it was redelivered; a partition
is held up for ever only by a message without data whose handler always fails.
A request is admitted only on evidence that was true at some time, piece by piece: the pieces
need not have been true together, nor still be (level 1, and the awaits between the reads), but
once the services stop writing the guards come to agree with Redis.  Every request is
answered although guards wait for Redis outside the timeout, and although a handler may hang; a
request that was answered by the timeout may still have its effect, and then has no audit entry.
Reads of the SQL repository never hand out, and a client never writes with what they hand out, a
row of another tenant; a write with any other id may hit whatever row has it.  A deleted row comes
back by a restore, or written whole: an entity that was read before and is saved again undoes the
deletion, or a create with the id of a row that is gone; no partial update does.
`specs/001-monorepo-library-foundation/data-model.md:75-83` knows the restore alone.  In Mongo no
request reaches another tenant's documents at all, deleted or not; a restore leaves the stamp of
the deletion, and an update may give a record away.  A page and
its metadata agree, unless documents changed between their two queries or the limit asked for
was 0.  An application that uses the Cognito client never waits for an answer to the wrong
challenge, is never signed in on a temporary password, and is told to give up a session only if it
was revoked, the user disabled, a rotation's answer was lost or raced, or the refresh itself asked
a client that rotates for no rotation, which the argument of the call can do whatever the module's
option says (`cognito-auth.service.ts:188`).  A reload of the configuration amounts to a restart
but for three differences of `dotenv`, as long as it succeeds (what is served after a failed one is
not compared), and the environment wins over the files wherever the files hold an object.  A health
check reports every fault it saw, and ends unless an indicator hangs.  A publication that exits
with 0 has published everything it was asked to and could read: a package.json that cannot be
parsed, or a filter that names no package, ends with 0 and without that package.  A package gets
ahead of the core it depends on only where the core failed or could not be read, or on demand.

What of the hazards the properties do not catch is said with each hazard in `PROJECT.json`.  Where
the code does what a property would forbid and no line of the repository forbids it, the property
names the case as its exception: a value hydrated into level 1 lives for the default ttl, so a value
that is over is not counted as stale (`truth` ignores expiry); an id of another tenant strayed; a
section a YAML file leaves empty, an indicator that hangs, a limit of 0.

Fairness.  `MemoryCache`, `TwoLevelCache` and `RateLimit` assume none: only safety is claimed.
`Transaction` assumes weak fairness of the works together: as long as some callback can end or
some statement be executed, one is; this is the event loop and a database that answers.  No work
by itself is promised a turn.  `KafkaRetry` assumes weak fairness of each consumer's steps
and of its commits: handlers end or throw, timers fire, the broker answers, and the client
commits periodically.  `RequestPipeline` assumes weak fairness of each request outside its handler, as
Redis answers or its client gives up after three tries and the timer fires, and none of handlers;
and of `Forget` for each key when the default ttl is not 0, as time passes.
`Health` assumes weak fairness of each check that has begun: an indicator that does not hang
answers; nobody need ask, and no indicator need ever recover.  The repositories, `Cognito`,
`Configuration` and `Publish` assume none.
Faults are bounded and never fair.

Findings (runs that TLC must refute):

* **lru_eviction** - the level-1 cache is called LRU (README.md:18, release_notes.md:47) but
  evicts in the order of first insertion (`memory-cache.provider.ts:91`).
* **rate_limit_later** - a request counted just after its window has ended stores the record
  with a remaining ttl of 0, which both levels take for "no expiry"
  (`rate-limit.guard.ts:35`); at the limit the client is then refused for good, against
  "please try again later".  `ForgottenWithWindow` shows that this is the only way: a record
  written within its window always goes with it.
* **transaction_alone** - without a request context the repositories never see the transaction
  (`transaction.service.ts:28`), so an aborted unit of work leaves its rows, against the
  quickstart of the foundation.
* **dead_letter_loss** - a failed publish to the dead letter topic does not halt the consumer
  (`kafka-retry.interceptor.ts:77`), against the edge case in specs/007-libs-events/spec.md:71.
* **retries_block** - a consumer that waits for a retry goes on to no other message
  (`kafka-retry.interceptor.ts:53`), against FR-006 (specs/007-libs-events/spec.md:83; also 18, 99
  and 110, and the README of `libs-events`).  `InOrder` is the other side of it: the order a
  waiting consumer keeps.
* **failed_count_zero** - a `failedCount` of 0 is taken as it is (`setup-kafka-microservice.ts:22`)
  and a message given up at its first failure, against the safe default of
  specs/007-libs-events/spec.md:73.

## 4. What is proved

Every invariant and every action property of the passing runs is a theorem, for all values of the
constants, and so are the two refinements.  An invariant is proved from an inductive one (the
names below), which was first checked on the small instance of its run.  The assumptions are those
the modules state on their constants; what they add to types is named here.

**`CacheStoreProofs`** has the lemmas about the store that three other modules need: deleting,
putting and making room keep the insertion order a strict total order, a non-empty finite store
has exactly one oldest key, what `MakeRoom` drops and what it leaves, and a `MemorySet` within the
limit stays within it.  They assume that `Key` is finite and that `MaxItems` is a natural
number; least elements come from the well-foundedness of the naturals.

**`StoreProofs`**, about the components that keep data.

* `MemoryCache`: `TypeCorrect`, `Bounded`, `Faithful` (`TypeOK`, `CapacityBound`,
  `HoldsLastWrite`).  `IInv` is their conjunction: the bound needs the store to be well formed
  (eviction removes a key only because an oldest one exists, which needs the order), and
  faithfulness needs the types.  `Implements`: every step of the provider is a step of `LossyMap` or
  stutters.  `LastResort` (`EvictionIsLastResort`): a live entry is lost only by the second half of
  `Evict`, where the sweep has left only live entries and as many as the limit.
* `SqlRepository`: `SqlTypeCorrect`, `TenantsAreKeptApart` (`TenantsKeptApart`) and
  `RowsComeBackOnlyIfAsked` (`BackOnlyIfAsked`), which needs the types alone and that a count that has
  passed is of a write with an id.  `SqlInv` adds that a row never used has no
  tenant, so that none of its entities was handed to anybody, and that the id of a write whose
  count has passed was handed to the tenant of that request or has strayed: the second statement
  comes after other requests' steps.
* `MongoRepository`: `TenantStoresAreKept`, every behaviour implements `TenantStore` under the
  mapping of the module, each command as `Work` of the tenant of its request, an update that names
  another tenant as `GiveAway`, queries as stutters (`MongoInv`).  `PagesAndMetadataAgree`
  (`PageTellsTheRest`): what has been answered of a steady listing is of this moment until the
  other query has been answered too, and of one moment from then on (`PageInv`); that the page
  and the number of pages then agree is arithmetic of `\div`, which
  `PagesAfter` does by the products that bound the quotient.

**`ServiceProofs`**, about what a service does beside its requests.

* `KafkaRetry`, for any group, partition, `failedCount` and number of faults: `TypeCorrect`,
  `Complete`, `Ordered` (`TypeOK`, `NothingSkipped`, `InOrder`) from `Flow`, which says more: the
  owner has left nothing unsettled behind the offset it fetches next (`Behind`), and an owner at
  work has in hand what it fetched last (`InHand`), so that the end of a delivery settles exactly
  the offset it steps over.  `AllAttemptsMade` (`DeadAfterAllAttempts`), because attempts and
  failures are counted together; it says nothing of a `failedCount` of 0.  `FewCopies` (`CopiesBounded`), from `Potential`: copies, the
  consumers at work on a message and the delivery its owner still has to make are together at most
  one more than the crashes and rebalances.
* `Health`: `FaultsAreShown` (`FaultShown`).  A check has put down what it was told, by name; the
  invariant `HealthInv` needs that indicators are registered once, for one that came twice would
  be asked again and could take back what it said, and that a check has asked the indicators before
  its place only, since others may be registered under it.
* `Configuration`: `TheEnvironmentOverrides` (`EnvironmentWins`), because what is served is what
  the files and the environment come to as long as it is fresh.  `ReloadsAreRestarts`
  (`ReloadLikeRestart`): `DotenvLookup` says name by name what `dotenv.config` leaves in the
  environment, `ConfigInv` that after any number of edits and reloads it holds what the file says
  unless the first environment had its own word, and `SameMerged` that environments that answer
  alike for each name configure alike as long as no path has two names.  The merge of the
  files stays opaque.

**`PlatformProofs`**, about what works against systems outside.

* `Cognito`, for any users, calls and bounds: `TemporaryPasswordsSignNobodyIn`
  (`TemporaryNeverSuffices`) and `ChallengesAreResumable` (`ChallengeResumable`) from `CognitoInv`:
  a user who is confirmed or waits for the code of an MFA challenge has chosen the password, a
  user who is not there has no challenge, and sign-ins are numbered by `count`.
  `SessionsAreKept` (`SessionKept`) from `SessionInv`: the pool accepts the token the application
  keeps or, once a call has rotated it, the successor that call brings (`Underway`), and no call
  refreshes a newer token than the application keeps (`Generations`); and a call that goes by
  `InitiateAuth` to a client with a secret bears the hash (`Addressed`), so that the pool refuses a
  token it accepts only to a call without rotation to a client that rotates.  The second part is why a
  late answer must not replace a token: an application that keeps whatever answer comes last
  loses its session with three overlapping calls, one more than the run has.  The model
  therefore says that an answer is kept if the application still has the token it was asked for.
* `Publish`: `SuccessMeansPublished` (`ExitZeroMeansAll`) and `CoreIsPublishedFirst`
  (`DependentsAfterCore`) from `PublishInv`: what was asked for and could be read is in the registry
  or still to come, and what comes after the core finds it tried, unless it could not be read.  Both rest on versions that are never
  withdrawn, and the second on `SortedPackages`, that every order `Array.sort` may return has
  the core first.

**`TransactionProofs`**, for any works, contexts, pool, rows and fault bound.

* `ManagersAreOpen` and `RequestsAreKeptApart` (`ManagerOpen`, `RequestsKeptApart`) from `IInv`: a
  key names an open work of its own context, a statement on its way uses the transaction of a
  work of the same context or none, the rows of a transaction were issued in its context.
* `ConnectionsAreReturned` (`TypeOK`): the connections in the pool and those of the works between
  begin and end are all there are.
* `UnitsAreAllOrNothing` (`AllOrNothing`), for trees of works of any depth.  The work at the top is
  where the callers of a work lead; that it exists is a least counterexample argument over the
  order in which works are called.  `UnitInv`: in a context whose works await one another only the
  top begins a transaction, there is one at a time, it has the key while it is open, and every
  statement uses it.  `RowsInv`: a row is in the transaction of its unit until that ends, and in
  the database exactly if it was committed.

**`RequestPipelineProofs`**, for any requests, keys, roles and permissions:
`NobodyIsAdmittedOnNothing` (`OnlyWhatWasHeld`) and `AnswersAreHonest` (`AnswerHonest`).  The
invariant says what a request may rely on at each await: the key it looks up is the one its
context and the profile read so far lead to, and the user, the profile, each permission set and the
answer in hand are among the values their keys have held (`Sought`, `Known`, `Read0`); behind the
guards, that every permission required is `Granted`.  Writes only add to what was held, hence
`MonotoneGood`.  It assumes that the value at the key of a user is a list of assignments
(`ProfileAssumption`) and that a status is not "nothing" (`StatusAssumption`).

**`TwoLevelCacheProofs`**, for any instances, fibers, keys and ttls.  `StoresStayBounded`
(`CapacityBound`) from `Frame`, the types and where a fiber may stand in its call.
`NothingElseGoesStale` (`StaleOnlyIfDisturbed`) and `OnceWhileMarked` (`OncePerMarker`) from
`Coherent`, stated key by key for the keys nobody has disturbed: nobody else is at work on the key
unless all only read (`AloneOn`), level 1 and, once no command is on its way, level 2 have the last
written value (`FreshOn`, `SettledOn`), so has any answer in hand (`HeardOn`), and the marker is
there or under way if its callback has run (`MarkedOn`).  The order of a queue plays no part.
`FlushesClear` (`FlushClears`): a key of the namespace is gone, touched, or still to be scanned or
deleted.

**`RateLimitProofs`**, for any instances, requests, clients, limits, windows and capacities.
`RefusalsAreEarned` (`RefusalEarned`): every record that is anywhere - in a level-1 store, in Redis,
in hand of a request - counts no more than was admitted in its window and ends at most a window
from now (`EarnedInv`); lost updates and records of other instances only count too few.
`RecordsGoWithTheirWindow` (`ForgottenWithWindow`): the ttl that is sent covers the rest of the
window (`TimelyInv`, and `RemainingCovers` for the rounding).  `ExactWhenInSequence`
(`ExactInSequence`): for a client nobody has disturbed, whatever level a record is read from, it
is the latest, and the window is over when there is none (`ExactInv`).

Model-checked only is liveness, which is out of the prover's reach: `EveryWorkEnds`,
`PartitionDrains`, `CaughtUp`, `EveryRequestAnswered`, `CheckEnds`.  What the merge of the YAML
files computes is recursive over the files, and no theorem says more of it than its last step,
`MergedHasTheEntry`.  The type invariants that no cfg lists say what the variables hold;
`SqlTypeOK` is proved.

## 5. What is left out

Values are opaque: JSON parsing of a stored value never fails, and falsy values that
`executeIfAbsent` would take for "not processed" are not stored.  Redis is one server that
executes commands in order, without a `keyPrefix` (with one, SCAN patterns match nothing:
`redis-cache.provider.ts:96`), and its expiry is as precise as the clock.  All clocks agree.
A namespace is a set of keys, not a pattern.  The isolation of database transactions is not
modelled, only which transaction a row is written in and whether it commits.  One topic
partition stands for all.  Handlers that fail have had no effect.  In the pipeline, tokens
are verified or not (their signature and claims are the JWT library's), ids hold no colon that
could make two cache keys one, the instance does not restart, and the services write to Redis
from other processes.  `ApisModule` never applies `AuthMiddleware`, the only user of `JwtService`.
Formatting, logging,
Swagger, CORS, versioning, entities and DTOs carry no state; the outbox table has no code.

Of the SQL repository: what reads with `withTenancy: false` return is not handed to the writes
(whoever asks for other tenants' rows may write them), an update names neither `tenantCode` nor
`deletedAt` unless it saves a whole entity, as it was read, and the error mappers translate messages only.  Of the
configuration: paths have two levels, the schema's defaults stand for values that are set, and
`maskSecrets`, the summary that is logged, `isProduction` and its like are read-only.  Of Cognito:
`getUser` and `listUsers` only read, `updateUser` changes attributes no property is about, and
`cognito.module.ts` is wiring; the signature of a SECRET_HASH is right when it is sent.
`ApisModule`, `CacheModule` and the other modules appear as the order they put things in.
With a Redis `keyPrefix` a module would model the client library alone, so that hazard has no
property.

## 6. Plan

1. *(done)* `CacheStore`, `MemoryCache` with `LossyMap`, `TwoLevelCache`, `RateLimit`,
   `Transaction`, `KafkaRetry`; proofs of the level-1 cache and of `KafkaRetry`.
2. *(done)* `RequestPipeline` with `AccessEvaluator`.
3. *(done)* `Repository`, `SqlRepository`, `MongoRepository` with `TenantStore`; `Cognito`,
   `Configuration`, `Health`, `Publish`.
4. *(done)* Proofs of `Transaction` (`ManagerOpen`, `RequestsKeptApart`), `RequestPipeline`,
   both repositories, `Cognito`.
5. *(done)* Proofs of `AllOrNothing`, `SessionKept`, `Health`, `Configuration`, `Publish`,
   `PageTellsTheRest`, `TwoLevelCache` and `RateLimit`.
6. Next: an abstract specification of a unit of work that `Transaction` implements where works await
   one another, and one of the counter `RateLimit` is for an undisturbed client, both from the
   invariants that are proved.
