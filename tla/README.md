# A TLA+ model of easyms

easyms is a Go microservice project: an API gateway, auth, user, order and
notification services, an outbox relay, and shared packages for the database,
Redis, RabbitMQ, discovery, configuration and logging. This directory holds
TLA+ specifications of the parts in which several goroutines, processes or
stores have to agree, the TLC configurations that check them, and proofs that
TLAPS checks. Paths below are relative to `internal/` of the repository.

    tlc -workers 2 -config OutboxSafety.cfg MCOutboxRelay.tla
    tlapm MessagingProofs.tla

`PROJECT.json` lists every run, the mutants that show each property can fail,
the source lines of every definition, the hazards and the theorems. Definitions
whose comment begins with "Mutant:" are such mutants; no specification uses them.

## 1. The system

| component | state | operations | who it talks to |
|---|---|---|---|
| Order service (`services/order`) | tables order, outbox | `CreateOrder`: order and event in one transaction | database |
| Outbox relay (`platform/outbox_relay`), a goroutine in every order service | ticker, stop channel | `Start`, `Stop`, `processOutbox`: select a batch, publish each event, delete the published ones | outbox table, RabbitMQ client |
| RabbitMQ client (`shared/mq`) | connection, channel, isClosed, a watching goroutine | `connect`, `handleReconnect`, `Publish`, `Consume`, `Close` | broker |
| Notification service (`services/notification`) | none | handler of one queue; ack or requeue | RabbitMQ client |
| Auth service (`services/auth`), its tokens | local revocation cache, Redis, table of revoked tokens | refresh, verify and revoke tokens | Redis, database |
| Auth service, its accounts | tables users, user_authority, client_details | register clients and users, log in, grant tokens | database |
| User service (`services/user`) | table users, shared with the auth service | create and read users, health endpoint | database |
| Migration tool (`platform/migrate`) | the same tables | create tables, insert rows to test with | database |
| Redlock (`shared/db/redis_lock.go`) | one key on N Redis instances | `Acquire`, `Release`, `Extend` | Redis |
| Redis cache (`shared/db/redis.go`) | cached values | cache-aside read with singleflight, set, delete | Redis, database |
| Database layer (`shared/db`) | connections, replica counter | transactions, read/write splitting | PostgreSQL, MySQL |
| Gateway (`platform/gateway`), up to the breaker | plugin chain, local token cache, token bucket in Redis | mock, authenticate, limit, route | auth service, discovery, Redis |
| Gateway, from the breaker on | LRU cache of breakers, their states, gauges | break, proxy, retry | services |
| Registration (`shared/discovery/discovery.go` and the `main` functions) | Consul's catalogue | register, check, drain, deregister | Consul |
| Discovery (`shared/discovery/server.go`) | instance lists, health, balancers, health workers | watch Consul, choose an instance | Consul, instances |
| Configuration (`shared/config`), push-config (`platform/push-config`) | global configuration, last values seen, saved versions | load and merge layers, watch, save and roll back, push keys | Consul, files |
| Logger (`shared/logger`) | bounded channel, pool of entries, batch | submit, batch, flush, sample, shut down | files, standard output, Loki |
| Tracing, metrics, errors, models, generated gRPC code | | wiring and data types | |

An order travels `CreateOrder` -> outbox table -> relay -> RabbitMQ -> handler of
the notification service: `OutboxRelay`, over what `Publish` and `Consume` promise;
`RabbitMQClient` models how the client comes to keep (and where it breaks) that
promise. A request travels client -> gateway -> service: `GatewayAdmission` up to the
circuit breaker, `GatewayUpstream` from there, with an address that
`ServiceDiscovery` chose among the processes `ServiceLifecycle` starts and registers. Its
token was granted in `Accounts` and is verified, refreshed and revoked in `TokenStore`.

What is hard in this code, and what a test hardly reaches:

- a step in the database, a step in the broker and a step in the process with a
  crash between any two of them (relay, consumer);
- several relays on one table without the row locks the code asks for;
- a Go field (`connection`, `channel`, an instance list) read under a lock and used
  after it, while another goroutine replaces it;
- a revocation in three stores that fail one by one, a check that falls back
  from one to the next and caches what it finds, and gateways that cache the result;
- count-then-insert outside of a transaction, by three programs on one table;
- a poll, a comparison and a reload that each see the store at another time;
- processes that register, fail, deregister each other and come back under one name;
- time to live against time: locks, caches, buckets, revocations;
- first requests that make the same object, and gauges that are set one by one;
- pooled objects that keep what an earlier user left in them;
- shutdown in the middle of work.

The full list, each with its line, is "hazards" of `PROJECT.json`.

### What makes each component correct

- *Order path*: no event without its committed order; no committed event leaves the
  outbox unpublished; at-least-once delivery as far as the broker does not lose;
  duplicates bounded; an event that always fails does not stop the others; `Stop` stops.
- *RabbitMQ client*: nil means written once, an error means not written; every loss that
  is watched is repaired; `Close` ends the watch.
- *Tokens*: a recorded revocation is honoured by every instance; nothing is
  revoked that nobody asked to revoke.
- *Accounts*: a user has its authority or is not there; a name has no more rows than the
  races can make; credentials that were good are refused only where there is a duplicate
  or a look-up failed.
- *Redlock*: a holder owns a majority for as long as no EXPIRE can have ended its lock; two
  clients never hold the lock at once within that time.
- *Gateway*: a bucket never admits more than burst plus rate; a revoked token ends up
  refused; one breaker per service; nothing is sent twice that is not idempotent; every
  request ends; breaker and gauges recover.
- *Registration and discovery*: a serving process is registered; no change of the catalogue is
  missed; callers end up choosing among exactly the healthy instances.
- *Configuration*: when the sources stop changing, the configuration in use becomes the
  merge of its layers; with files, never one that does not validate.
- *Logger*: an entry is in one place, is written with its own fields, and is counted or reported
  when it is not written; what is queued is flushed.
- *Cache*: a value older than what the row had during the call is not served but for what was under
  way, and leaves the cache.

## 2. The modules

Every component has its module and an `MC` module that instantiates it for TLC. Its theorems are
in a `Proofs` module, which two components that belong together may share (section 4): such
modules are extended together, which is why `RabbitMQClient`, `ProtectedCache` and `Logger` have
`ClientNext`, `CacheNext` and `LoggerNext` where the others have `Next`. Actions are named after
the functions they model.

### EventDelivery, OutboxRelay

`EventDelivery` is the promise: a committed order owes one notification
(`Accept`), a successful handler settles it (`Notify`), and a debt disappears only
where messages may be lost (`Lose`).

`OutboxRelay` is the code. An order names its event. Correspondence:

| TLA+ | code |
|---|---|
| `tx`, `InsertOrder`, `StoreEvent`, `CommitOrder`, `RollbackOrder` | the transaction of `CreateOrder` (order_service.go:81) and `CreateAndStoreEvent`; the commit's answer can be lost |
| `orders`, `outbox`, `createdAt` | committed rows; `created_at` comes from the clock of the instance, in no fixed relation to other instances |
| `SelectBatch`, `IsBatch` | `Order("created_at asc").Limit(BatchSize)`, without row locks: `gorm:query_option` is a GORM v1 setting |
| `todo`, `done`, `IsNext` | the loop over the batch and its `successIDs` |
| `PublishOk`, `PublishLost`, `PublishFail` | one `Publish`: written and routed (or unroutable and dropped), nil although nothing arrived, or an error and `continue` |
| `CommitBatch`, `RollbackBatch` | the delete by id with the commit, and their failure |
| `Stop`, `ClosePublisher`, `ExitLoop`, `Crash`, `Restart` | `cleanup` of app.go (which does not wait for the batch), the `select` of `Start`, the process |
| `StartConsumer`, `Receive`, `HandleOk`, `Ack`, `HandleFail`, `StopConsumer` | `Consume` and `orderCreatedHandler`; broker redelivery |
| `RestartBroker`, `Lossy` | durable queue, transient messages: external |

`Poison` are events whose `Publish` never succeeds. `MaxAborts` bounds the batches
that published and did not commit.

### RabbitMQClient

Connections and their channels carry the number of the Dial that made them
(`MaxConns` bounds the successful ones; 0 is nil). `watcher` is the place of
`handleReconnect`: check `isClosed`, register `NotifyClose`, wait, dial.
`connect` holds the mutex throughout, so that each of its outcomes is one action:
`ConnectOk`, `DialFail` (connection becomes nil), `ChannelFail` (the new connection is
closed again, the channel field is nil). A `Publish` takes the channel under the lock
(`BeginPublish`) and uses it afterwards (`DeclareExchange`, `SendOk`, `SendFail`) while
connections and channels die (`LoseConnection`, `LoseChannel`, external). A method call
on the nil channel panics, which ends the process: `Running` guards every action, and a
panic is a state in which nothing more happens; therefore this run does not check
deadlock. `CheckClosed` reads `isClosed` in one step, as the code does under the lock.

### TokenStore

Requests run on instances of the auth service, one token each: `VerifyToken` (gRPC and
`POST /oauth2/verify`), `RefreshToken` and `RemoveAccessToken` (which only its own test
calls). A check runs `LookLocal`, `LookRedis`, `LookDb` and is made twice (`round`), by
`ReadAccessToken` and by `ReadOAuth2Details`; a revocation runs `SetLocal`, `SetRedis`,
`SetDb`. Other requests, failures, expiry, evictions and restarts come between any two of
these steps. Cache and Redis keys carry the kind the code puts in front of the token
("access" or "refresh"); rows do not. The fields `inDb`, `inRedis`, `fault` and
`replay` of a request record, for the properties only, what held when it began.

### Accounts

Tables `users`, `authorities` and `clients` with three writers: the auth service
(`RegisterClient`, `CountClients`, `InsertClient`; `RegisterUser`, `CountUsers`, `InsertUser`,
`InsertAuthority`, `Commit`), the user service (`CreateUser`, `Create`, `CommitUser`) and
`migrate -auto` (`Migrate`, `SeedUser`, `SeedClient`, `InsertSeedClient`, `SeedFails`,
`SeedAuthorities`). The count of the auth service is a statement of its own; ids come from a
sequence that no rollback turns back. Tokens are asked for with `GrantToken`,
`MakeTokenEndpoint` and `Login`, which read with `LoadClient` (First by a column that
duplicates share: any of the rows) and `LoadUser` (the row with the lowest id), and end in
`Issue` or a refusal. A look-up that fails is a refusal, too (`LookUpFails`): the handlers and
granters answer every error of the database as bad credentials. `Ends` is every other failure: an
error, a cancelled request, a dead process.
`registered` remembers what callers were told; `elsewhere` which users the auth service did not
insert, and `failed` of a request that a look-up of it failed.

### Redlock

`value[n]` and `ttl[n]` are the key on instance n. `Acquire` takes the time to live of its call
(`expires`, one of `Lives`) and goes through the instances one command at a time (`SetNX`: set,
set with a lost answer, refused, or failed), then judges the round (`Acquired`, `GiveUp`,
`Retry`); `Del` is the compare-and-delete script; `Extend` is `Get` and `Expire`, two commands.
SET takes the time to live as it is, EXPIRE in whole seconds, cut off but never to none (`Whole`;
`Second` is a second in ticks), and gives it to the key whoever has it by then: the key of
another client may end later or sooner for it. `Tick` lets time pass at the same pace for keys
and clients: clock drift between the Redis instances is not modelled, nor is a time to live of
zero or less (Acquire would set keys that never expire, and Extend delete them). `elapsed`,
`round` and `since` are clocks that stop where nothing distinguishes later times. A value whose
client has given up is a `Stranger`'s, so that a client can acquire again with fresh values.

What a lock is good for is therefore not its time to live but `Sure`: that, or the shortest
time an EXPIRE of whatever client can leave (`Shortest`), if it is less. The rest of the time
to live may be cut off (`WholeLifeIsOwned`, section 5).

`LeaseLock` is what its users may rely on: a lease that is given while nobody else's runs
(`Grant`), for at most `Shortest`, and that only time (`Pass`) or its holder (`Return`) shortens.
`Lease` maps the code's state to it: what is left of `Sure`, counted from the beginning
of the round that won. A lock that `Extend` has prolonged counts as returned, because nothing can be
promised of it (section 5).

### ServiceLifecycle, ServiceDiscovery

`ServiceLifecycle` is a process of a service and its registration: `Initialize` or
`InitializeFails` (whose cleanup deregisters the name), `Register`, `Listen`, `Signal`, `Drain`,
`DeRegister`, `Crash`. A registration is stored on the agent that took it under the name of
the service alone; `shared` says whether the instances are configured with one agent or one
each. Consul's check (`CheckTurns`) and its reaping of critical registrations (`Reap`) are
external. `DatabaseDown` and `DatabaseUp` turn the health endpoint of the user service.

`ServiceDiscovery` extends it with a process that calls the service. `Poll` is the long poll with
the index, which matters only by being equal or not (`news`); `Apply` replaces the list and
starts workers (`known`); `HealthCheckWorker` is one address of one tick. A caller copies the
list (`GetService`), looks at each address (`IsHealthy`; `FirstCheck` when there is no verdict
yet, a write to a map under the read lock, so that a second one may end the process:
`ConcurrentMapWrites`) and lets the strategy choose (`Select`, `GetLoadBalancer`, `Weighted`).

### GatewayAdmission

`Connect` and `ConnectFails` are the attempts of `main` to reach the auth service, after which
the plugin is in the chain or left out for good. `ServeHTTP` starts a request on `Chain`, the
plugins in their order: `Mock`, `Auth` with `VerifyToken` and the cache entry written when the
answer arrives (`Vouched`), `RateLimit` with the Lua script, `Routing`. The gateway reads the
clock before it sends the script, and the script is delayed by `late` ticks, so that scripts run
with readings out of order. The keys of the bucket are its level, `age` (clock minus timestamp)
and `ttl`. `budget` is the level of an ideal bucket that admits the same requests. `Restart` is
the end of `startServer` and a new process, for which the bucket is what it was.

### GatewayUpstream

`Execute` looks for the breaker without the lock, `MakeBreaker` again with it. `Ready`, `Success`,
`Fail` and `HalfOpen` are the library mercari/go-circuitbreaker, external, with its window
reduced to the choice it makes. `Attempt`, `AttemptCancelled` and `Backoff` are
`retryTransport`; an answer worth a retry that was the last one has its body closed (`Abort`:
copying it panics). `SetState`, `SetOpen` and `SetClosed` are the map under its lock and the
two gauges, and `Reported` is what Do is told. One service: two share the LRU of 256 breakers
(circuitbreaker.go:58, 73), of which one is evicted when more services than that are called; that a
service then starts with a new breaker is not modelled.

### Configuration

Two layers, shared and service, each the content of a key or a file: two good values, one that
parses and does not validate, one that does not parse, and none. `LoadAppConfig`, `Check`,
`Compare` and `Reload` are `ConsulConfig` and the two passes of `ConfigWatcher`, one key per step;
`LoadLocal`, `StartWatcher`, `TimerFires` and `ReloadLocal` are `LocalConfig` with its debounce
timer, whose reloads may overlap. `PushConfig` is push-config, `EditKey` whoever else writes or deletes
a key. `EditFile` writes a file in place, which its watch hears; `ReplaceFile` removes it or renames
another one to it, which it does not hear and which ends the watch. `SaveVersion`, `Rollback` and
`UpdateConfig` are the handlers, the last of which puts whatever it is given into use, valid or
not. `missed`, `overlapped`, `unseen`, `byHand` and `wanted` record, for the properties, what the
code cannot know.

### Logger

`Submit` takes an entry from the pool and adds the message's fields to whatever it has, `Send` is
the non-blocking send. `Receive`, `Tick` and `Close` are the cases of the processor's select;
`WriteFile`, `WriteStdout` and `SendToLoki` flush a batch, the last with its retries, of which each
may have arrived although it failed. What does not marshal (`Odd` fields, the message's own or left
over in its entry) is not sent with the rest of the batch (`Streams`) but reported (`skipped`). The
pool is represented by the fields its entries still hold.

### ProtectedCache

`Call` joins or starts the flight of its process, which runs `GetCache`, `Fallback` and `Fill`; every
step may fail (`Fails`). `Write` changes the row, after which the writer removes the key or sets it
(`RemoveKeyCache`, `SetCache`), and the key expires (`KeyExpires`). A missing row is cached as
`Placeholder`, with the expiry the caller wants or none; a value that does not marshal as `Empty`,
which a hit does not understand (`NoAnswer`). Nobody in the repository calls
these functions yet, so that readers and writers are external. `seen` and `settled` record what
values the row has had since the call and whether anything outdated was about when it was made.

## 3. The runs

| run | instance | what it shows |
|---|---|---|
| OutboxSafety | 2 orders, 2 relays, 2 times, batches of 1, lossy broker, 1 aborted batch | `NoPhantomEvent`, `KeptUntilPublished`, `DuplicatesBounded` |
| OutboxDelivery | 2 orders, one of them never publishable, 1 relay, batches of 2, lossless broker, fairness | it implements `EventDelivery` (`EventDeliverySpec`); `EventuallyHandled`, `StopEndsLoop` |
| ClientCalls | 2 publishers, 3 attempts, 3 connections, fairness | `NoOrphanConnection`, `PublishWritesOnce`, `RetriesAreFutile`, `WatchedLossHealed`, `CloseEndsWatch` |
| TokenSafety | 2 instances, 2 requests, 1 token, all failures | `DatabaseRevocationHolds`, `RedisRevocationHolds`, `NoFalseRevocation` |
| Accounts | 2 requests, 1 name, 2 passwords, 1 client id, at most 3 users, 3 clients and 4 of both | `UserHasAuthority`, `DuplicatesBounded`, `RefusedOnlyIfTwice` |
| RedlockSafety | 3 instances, 2 clients, times to live of 1 and 2 ticks, a second of 1: EXPIRE shortens another's key | `HeldIsOwned`; it implements `LeaseLock` (`LeaseLockSpec`), so that two clients never hold it at once |
| Discovery | 2 instances, 1 caller, 2 starts, 1 outage, probing health checks | `LoneInstanceRegistered`, `QuietListIsCurrent`, `ChoicesSettle` |
| Admission | 2 requests, 1 token, cache of 2 ticks, rate 1, capacity 2, readings up to 2 ticks late, 2 attempts to connect | `RateWithinBudget`, `RevokedAgesOut`, `RevocationTakesEffect` |
| Upstream | 2 requests, 2 retries, 2 successes to close | `OneBreaker`, `SendsBounded`, `RequestEnds`, `GaugesSettle`, `BreakerRecovers` |
| Config | both providers, 3 changes (in place, by renaming, deletions), 1 failing call | `LocalConfigValid`, `ComparedIsInUse`, `QuietFilesInUse`, `WatcherSettles`, `FilesSettle` |
| Logger | 2 goroutines with 2 messages each, one of which does not marshal, channel of 1, batches of 2, 2 attempts, 3 back ends | `FieldsOwnOrDiscarded`, `FateIsUnique`, `QueueIsFlushed` |
| Cache | 2 processes, 2 readers, 2 writers, 3 changes, no row after the first and a value that does not marshal after the second | `AnswerIsRecent`, `CacheGetsCurrent` |

Each property is stated, with the lines it is about, in the module of its component.
A promise of a comment or document that the code breaks is stated in the modules too, as a property
that no run lists (section 5).
The type invariants are proved and not run. Some liveness properties have a safety half, which says what must hold in a
quiet state if what is to happen has happened: `ComparedIsInUse` for `WatcherSettles`,
`QuietFilesInUse` for `FilesSettle`, `RevokedAgesOut` for `RevocationTakesEffect`, `FateIsUnique` for
`QueueIsFlushed`, `QuietListIsCurrent` for `ChoicesSettle`. The halves are proved.

Some properties have a premise that leaves out what the code does not keep, most of which section 5
states as a property of its own: `WatchedLossHealed` (a loss nobody waits for), `RedisRevocationHolds`
(refresh tokens), `RefusedOnlyIfTwice` (look-ups that fail), `HeldIsOwned` (the time that an EXPIRE
may have cut off), `ComparedIsInUse` and `WatcherSettles` (keys that changed between the two
readings, `missed`), `QuietFilesInUse` and `FilesSettle` (overlapped reloads and files that are not
watched), `LocalConfigValid` (what is set by hand), `CacheGetsCurrent` (`SetCache` and placeholders
without an expiry). Only described are the premises of `ChoicesSettle` (a process that the runtime
ended for two writes to its map), `AnswerIsRecent` (calls made while something outdated is about),
`FieldsOwnOrDiscarded` (fields of discarded messages) and `BreakerRecovers` (requests that end in a
panic).

Why the bounds are enough. The order path has two kinds of conflict: two events in one
or in successive batches, and two relays on one event; two of each reach both, and with
two values of `createdAt` events become visible out of their order. One aborted batch
is enough for a duplicate of every kind, and the bound of `DuplicatesBounded` is proved
for any number. In `OutboxDelivery` the batch is larger than the number of events that
always fail: with a batch of that size or less they occupy every batch and nothing else
is ever published, which is a limit of the code and a premise of the property. In the
client a third connection is needed to see the second one replaced while a publisher
still holds the first one's channel; one publisher may be ahead of the other by a whole
reconnect. A token's entries do not depend on other tokens. Redlock needs three
instances for a majority that is not everything, and times to live long enough for keys to
expire at different times and for one EXPIRE to shorten another's; that EXPIRE cuts to whole seconds
(a time to live that is no multiple of one) multiplies the states, and is left to the proofs.

Names and client ids of accounts do not depend on each other either; two requests race on
one, and a third row, of users or of clients, would be one more than there are requests. Two instances in discovery
replace, deregister and outlive each other, and two starts let one come back or both run. The
bucket is full after two ticks, its keys live four, and a reading two ticks late is as old as
the whole filling; more of everything is proved. Two retries distinguish the first, a middle and
the last attempt, and two successes a half-open breaker that has counted one. Three changes are
one of each layer and one back to the value before (A, B, A), the case in which a comparison sees
nothing; with files one of them may be a rename. Four messages through a channel of one and batches of two fill the channel and make a full
batch, a part batch and a reuse of the pool. Three changes of the row give an outdated value (0), a missing
row (1), one that is cached as an empty string (2) and the current value (3).

Symmetry is used for relays, orders, requests, instances and clients in runs
without temporal properties, where no definition distinguishes them. Deadlock is checked but for
ClientCalls (a panic ends the process, a closed client stops), Config (a process that could not
load its configuration exits, and the changes are bounded) and Logger (after the shutdown and
the last message nothing happens).

### Fairness

- Relay: the ticker fires again and again and a begun batch goes on (weak fairness of
  `SelectBatch`, of a publishing step and of the end of the batch); Go's `select` picks at
  random among the ready cases, so that the stop channel is taken at last (strong
  fairness of `ExitLoop`); a publishable event does not fail every time it is tried (strong
  fairness of `PublishOk`). Nothing is assumed about crashes: the properties say
  "provided some relay stays up from some time on".
- Consumer: RabbitMQ delivers in queue order and puts a requeued message back near its
  place (strong fairness of `Receive`); the handler does not fail for ever.
- RabbitMQ client: the watching goroutine and the callers are scheduled (weak fairness),
  and a broker that is dialled again and again accepts at last (strong fairness of
  `Connect`). That the connection stays up is never assumed.
- Discovery: a process goes on once it has begun, Consul checks registrations and answers polls,
  workers tick and callers run (weak fairness). Nothing makes a process start, stop or recover;
  `ChoicesSettle` is about what is down or healthy for good.
- Gateway: goroutines run, calls and attempts end because the transport has timeouts, time passes,
  and the open timeout of a breaker ends (weak fairness). That an upstream answers is a premise of
  `GaugesSettle` and `BreakerRecovers`, never an assumption.
- Configuration: the watcher's ticker ticks, timers fire and a reload ends (weak fairness).
- Logger: goroutines send what they have, the processor runs (weak fairness); `select` is fair to
  the ticker and to `closeChan` (strong fairness of `Tick` and `Close`).
- Cache: a flight goes on, a writer tells Redis or fails to, keys expire (weak fairness).

## 4. The proofs

All for every value of the constants, under the assumptions named in the modules
(finite sets of relays, orders, requests and instances, positive batch sizes, rates and times to
live; values that stand for nothing are no others). No other assumption is made. Each proof
first gives the type invariant, then an inductive strengthening `IInv` (or one named for its
purpose), with one step per action, and reads the property off it. Every safety property, action
property and refinement that a run checks has its theorem.

| proof module | components |
|---|---|
| `MessagingProofs` | `OutboxRelay` over `EventDelivery`, `RabbitMQClient` |
| `RedisProofs` | `Redlock` over `LeaseLock`, `ProtectedCache` |
| `TokenStoreProofs`, `AccountsProofs` | `TokenStore`, `Accounts` |
| `GatewayAdmissionProofs`, `GatewayUpstreamProofs` | `GatewayAdmission`, `GatewayUpstream` |
| `ServiceDiscoveryProofs` | `ServiceLifecycle` and `ServiceDiscovery` |
| `ProcessProofs` | `Configuration`, `Logger` |

*Outbox relay.* `SafetyInv` adds to the type invariant that tables only hold
committed rows (`TablesOK`) and that what a batch has selected is committed and what it
counts as done was published (`BatchesOK`); without it a commit could delete what was
never published. From it follow `NoPhantoms` and `Kept`. `LosslessInv` adds that without
losses whatever was published is on the broker's side or handled, also while its batch can
still roll back; with it `LosslessDelivery` and `Refinement`: every step of the relay is a
step or a stutter of `EventDelivery`. `DuplicateInv` counts: while an event is in the
outbox each publication belongs to a running or an aborted batch, and after the delete only
relays that still have it in `todo` can publish it; hence `BoundedDuplicates`.

*RabbitMQ client.* `LinkInv` ties the fields to the links: only the connection in
the field is open, an open channel belongs to an open connection, and the wait begins with a
connection. `CallInv` says that a call that is past its first attempt holds a channel that
is closed, and channels never open again. From both, `NoOrphan`, `ChannelIsFresh`,
`WritesOnce` and `ResendsFail`.

*Tokens.* `RequestInv` follows a request through its check: if the database
had the token when the request began, then the request never gets past the database step; the
same for Redis unless Redis failed it meanwhile. `EntriesAsked` says where entries come from.
From both the three properties.

*Redlock.* The invariant gives each majority a margin: an instance is `Alive` for a
client if it holds its value and its time to live exceeds what is left of `Sure`.
`WonInv` says it of the instances an unfinished round has won, `AliveInv` that the alive
instances of a holder are a majority. No step of another client removes such a key or leaves it
less than `Shortest` (`KeySafe`, `ShortestIsLeast`), and a tick takes one unit from the key and
from the lock alike (`TickKeeps`). Then `HolderOwnsMajority`, and by the intersection of majorities
(`MajoritiesMeet`) `LockExcludes`. `LockIsLease` is the refinement: a client's step leaves the
leases of the others alone (`OthersKeep`) and ends its own, leaves it or, when it acquires, begins it
(`OwnLease`); that nobody else's runs then is `MutualExclusion` after the step.

*Accounts.* `CountInv` adds to the rows of a name the requests that have counted and not
yet inserted: together they are never more than the requests there are. A request that counts
finds no row, so that it only adds itself to other requests; one that inserts moves from the
second set to the first (`DuplicatesAreBounded`). `Due` says that credentials a caller was told
are good are in the database, so that a refusal has met another row (`GoodCredentialsHold`), or
comes from a look-up that failed (`FailedGood`), of which the theorem claims nothing.
`UserHasAuthority` is inductive with the fields a request has at each place.

*Gateway admission.* `BucketInv` compares the keys with the ideal bucket: it holds at least
what the keys are worth now; expired keys mean a full bucket; and `age` is at least the part of
the time to live that is used up. Keys live twice as long as the filling takes, rounded down,
which is enough (`Ttl * Rate >= Capacity` whenever the script does not fail); half of that would
not be, as the mutant shows. Then `RateIsLimited`. `GateInv` is there for the types: no request
is at the plugin while it is not in the chain. `RevokedTokensAge` is proved step by step
(`StepNews`): of a token that is not valid no call brings a positive answer, and without one of
those nothing writes its cache entry, which a tick makes smaller.

*Gateway upstream.* `CacheInv` says that one breaker is made at most, and `Good(q, b)` that
a request past the lookup has it, that what it sent is at most its attempts, and that it sleeps
only if it is idempotent and has an attempt left: `BreakerIsShared`, `SendsAreBounded`.

*Cache.* `Around(seen)` says that wherever a value is on its way to a reader (the
row, the key as it is read back, a flight that has asked, a writer that may set it) it is one of `seen`. It holds
when a call begins in a settled state, every change of the row adds to `seen`, and so it holds as
long as the reader waits: `RecentAnswers`.

*Discovery.* `RegistrationInv` follows a process that has its agent to itself: from `Register` until its
listeners close the registration is its own, unless its check once failed, and what failed once is
remembered; hence `LoneRegistered`. `FetchedInv` speaks of what the watcher fetched last, an answer
that is not applied yet or else the list: it is what Consul has, unless Consul's index has moved on
(`news`). It is broken by no order of registrations, polls and applications, and with no answer and
no news left it is `QuietListCurrent`. `ProbeInv`, that a caller keeps the address it checks, is there
for the types.

*Configuration.* `FilesValidated` needs only where a loading process is (`PassInv`), and that
nobody has set a configuration by hand (`byHand`). `ComparedInv` says
that what was compared last is in use (`Held`) between two polls and as long as a comparison has found
no difference, and that a reload has read in its first layer what was compared there, or has noted in
`missed` that it has not; hence `ComparedInUse`. `FilesInv` says of a reader of files that what it has
read is what the files have (`ReadSoFar`), or that there was a change since, and then the timer is
armed or the change is one that no watch sees; and that one reload is under way at most, unless two
have overlapped (`overlapped`); hence `QuietFiles`.

*Logger.* `BatchInv` (an unfull batch at the `select`, attempts only for Loki, no entry twice),
`PlaceInv` (a message is in one place from its submission on, and what is in none was written or
counted) and `FieldsInv` (fields in the pool and in entries are an entry's own or those of messages
that were discarded) are inductive together: that an entry is in one place keeps its fields from
being written by another message. `ReportInv` says that what was reported as skipped is in no batch
that was sent. From them `OneFate` and `FieldsAreOwn`, for any capacity, batch
size and number of attempts.

Only model-checked: what is temporal under fairness (`EventuallyHandled`, `StopEndsLoop`,
`WatchedLossHealed`, `CloseEndsWatch`, `ChoicesSettle`, `RevocationTakesEffect`, `RequestEnds`,
`GaugesSettle`, `BreakerRecovers`, `WatcherSettles`, `FilesSettle`, `QueueIsFlushed`,
`CacheGetsCurrent`), which the prover's backends cannot treat: they need fairness and ENABLED, and
most of them an induction over what is still to be done.

## 5. What does not hold, and what was seen on the way

These promises of comments or documents are stated in the modules, as properties no run lists,
because the code does not keep them. Where a configuration is named, it checks the promise alone
and TLC finds a counterexample in seconds (`tlc -config OutboxLoss.cfg MCOutboxRelay`, for instance):

| configuration | property | promise | what the code does |
|---|---|---|---|
| OutboxLoss | `AtLeastOnce` | relay_service.go:141-143: 这是为了保证“至少一次”的投递语义，确保数据不会丢失 | no publisher confirms: a nil of `Publish` is no proof of arrival, and messages are transient |
| none (OutboxRelay) | `DisjointBatches` | relay_service.go:103-104: "FOR UPDATE SKIP LOCKED" 允许不同的中继服务实例同时处理不同的事件批次 | the option is one of GORM v1 and is ignored: batches overlap |
| ClientUnheard | `EveryLossHealed` | rabbitmq.go:98: 在连接断开时尝试重连 | a loss before `NotifyClose` is registered is never noticed |
| ClientConsumer | `ConsumerKeepsReading` | mq.go:35: 持续接收和处理消息 | nothing starts the consumer again after a reconnect |
| ClientPanic | `PublishReturns` | rabbitmq.go:76: 建立与 RabbitMQ 的连接并打开一个通道 | when the channel does not open (line 87) the field is nil, and the next `Publish` panics |
| ClientClose | `CloseLeavesNothing` | rabbitmq.go:128: 主动关闭 RabbitMQ 客户端的连接和通道 | a reconnect that is under way makes a connection after `Close`, which stays open |
| TokenReplay | `ReplayRefused` | token_service.go:134: 安全地移除旧的刷新令牌，以防止重放攻击 | revoked refresh tokens are cached under a prefix nobody looks up (token_store.go:99, 148, 198) |
| AccountsFault | `RefusedOnMerits` | grpc_server.go:38: 如果客户端不存在，返回 Unauthenticated 错误 | so does every failure of the look-up |
| RedlockExtend | `ExtendedIsOwned` | redis_lock.go:134: 如果大多数节点上的锁都被延长了，则认为成功 | Expire of a key that is gone meanwhile is no error and counts (line 127) |
| RedlockLife | `WholeLifeIsOwned` | redis_lock.go:47: expires: 锁的过期时间 | another client's EXPIRE, sent after its key has changed hands, cuts it (line 127) |
| AdmissionNoRedis | `MissingRedisDisablesLimit` | gateway/main/main.go:100-103: 让限流插件处理 nil client | the nil pointer is inside a non-nil interface: every limited request panics |
| ConfigFiles | `ReloadFollowsFiles` | local.go:27: 文件变更时的热重载 | a file that is replaced by renaming is not heard and loses its watch (lines 160, 187-207), nor is one that was not there at the start; of two reloads the older may end last |
| ConfigConsul | `ChangesTakeEffect` | watcher.go:16: 用于监听Consul中配置的变化并触发更新 | what was compared is noted before it is read again (lines 111-123): a key that turns back in between leaves the value between in use |
| none (Configuration) | `RollbackTakesEffect` | manager.go:173: 将配置数据写入当前配置键 | the version goes to a key that no process reads |
| LoggerDrain | `ShutdownDrains` | logger.go:308: 确保所有缓冲的日志都被处理 | `select` may take `closeChan` while the channel has entries |
| none (ProtectedCache) | `PlaceholderIsShort` | redis.go:331: 空值缓存，设置较短的过期时间 | the caller's `nullCacheExpire` of 0 or less is no expiry |

Two more are stated and do not hold, of which no comment says the contrary:
`PasswordRemainsGood` (Accounts; user_service.go:52-63 finds the user by name, and a duplicate with a
lower id, drawn earlier and committed later, takes its place) and `SetCacheGetsCurrent`
(ProtectedCache; two writers may set theirs in the other order, without an expiry).

Seen while reading, outside of any property:

- *RabbitMQ client, orders, tokens, locks.* Two concurrent refreshes of one token both succeed,
  because the revocation is not conditional; a Redlock round counts only the keys it set itself, so
  that a client whose answer was lost does not recognise its own majority; the
  notification service imports `models` and uses `model.Order`, which does not compile; when
  Redis cannot be reached the auth service passes a nil `*EasyRedis` inside a non-nil interface,
  so that its "database only" mode panics. A client that repeats an order after an error creates
  a second one: nothing identifies the first.
- *Accounts.* No column is unique, and there are no SQL migrations that would make one so:
  `ErrUsernameExists` and `ErrEmailExists` (services/user, user_service.go:16-20, 62-71), and the
  409 of user_handler.go:53-55, are never returned. Scopes read at login do not get into the
  token, `AuthorizedGrantTypes` of a client is never checked, and a refresh token passes as an
  access token. The routes of the user service have no authentication of their own. `migrate`
  gives the authorities of its users to the ids 1 and 2, whoever has them, and walks a map, in
  random order; the administrator it makes has "ADMIN" where `/admin` asks for "admin". The
  repository's README (313-322) documents the flag `-database` and Makefile:47 `-dbURL`; the
  program reads `-db` (main.go:39).
- *Registration and discovery.* A registration's id is the name of the service, so that instances
  on one agent overwrite each other and a failed start deregisters a running one; a registration
  that Consul reaped never comes back; the auth service's `/health` always answers 200.
  `IsHealthy` writes a map under the read lock. Each change of the list starts one more worker,
  and none is stopped. The round robin index is shared by all services of a process. An adaptive
  health checker past its threshold never asks the primary again.
- *Gateway.* After ten failed attempts the authentication plugin is left out for good, and
  requests are served without it. A clock that is behind over-admits; a time to live of zero (a
  rate above twice the capacity) makes the script fail and the limiter open. An answer of 5xx
  never counts as a failure of the breaker, and the last of several retried ones is passed on
  with its body closed.
- *Configuration.* A change and its reversal between two polls go unnoticed, which is harmless,
  but a failing read in the second pass loses a layer until something changes again; a version's
  id is the second of its saving; no program registers the handler; the gateway applies only the
  sample rates of a new configuration.
- *Logger.* `UpdateLogLevel` locks a mutex it holds (zerolog.go:138-143); a second `Shutdown`
  panics; no program calls the first.
- *Cache and database.* A fill that began before a removal puts the old value back for its time
  to live; a value that does not marshal is cached as an empty string, whose hits are errors until
  it expires (redis.go:338, 307); `releaseLock` deletes a key whoever owns it; `SetHashCache` deletes and then sets. The
  replica counter of `read_write_splitting.go` wraps at 2^32, and a count read there may come
  from a replica that is behind; no program creates such a database.
- *Middleware.* The window of `shared/middleware/ratelimit.go` is checked and then counted;
  nothing installs it.

## 6. What is not modelled

Of the modelled parts: payloads, wording and logging; password hashes and JWT signatures (a token
parses until it expires); clock drift between Redis instances; AMQP flow control and `QueueDeclare`
errors other than a closed channel; which limit rule applies to a path; the window of the breaker,
which is a library's; levels, rotation and the fallback of the logger; creating tables in `migrate`.

Parts left out, with the reasons in "components" of `PROJECT.json`: the rate limiting and breaker
middleware, the random, least-connection, hash and metadata balancers, the TCP, combined and
adaptive health checkers and the breakers of discovery, and the read/write splitting, because no
program uses them; hashes and pass-through commands of the Redis package, connection pools and the
GORM wrapper, because they are input and output; tracing, metrics, errors, models and generated
code, because no two actors share a state there.

## 7. Plan

Done, in this order: `OutboxRelay` over `EventDelivery`, `RabbitMQClient`, `TokenStore`, `Redlock`;
`ServiceLifecycle` and `ServiceDiscovery`; `GatewayAdmission` and `GatewayUpstream`;
`Configuration`; `Logger`; `Accounts`; `ProtectedCache`; `LeaseLock`; proofs of all of them.

What would come next: an abstract specification of what the RabbitMQ client promises the relay (a nil
is one message on the wire, an error is none), so that `OutboxRelay` need not state it again; safety
halves for `GaugesSettle` and `BreakerRecovers`; the shutdown of the gateway with requests in flight,
beyond the restart that ends them; the metadata and least-connection balancers and the read/write
splitting once a program uses them.
