# dweb-api-server: specifications, model checks and proofs

TLA+ modules for the ENS dWeb gateway: the process supervisor, the caches, the rate limiter, the
request pipeline of the proxy and ask listeners, DNS over HTTPS, the resolution of a name, the
start of a server process, the service worker that resolves names in the browser, and the
failover between RPC endpoints. Paths below are relative to `src/packages/`; `PROJECT.json` maps
every definition to the lines it models.

## 1. The system

A reverse proxy sends each request for `name.eth.limo` (or a domain linked to an ENS name) to
this service, which answers with headers that say where the content is. Caddy asks it whether to
obtain a certificate for a hostname. A third listener serves DNS over HTTPS, a fourth the data
URLs some names hold.

    primary --fork/SIGKILL/IPC--> worker --> proxy :8888  ask :9090  DoH :11000  data URL :12500
                                              |     |  \        |
                                              |     |   rate limiter -----------------> Redis
                                              |   checkLinkedDomains, checkBlacklist --> domains API
                                              |        (memoize: memory cache over Redis)
                                              +-- resolveEns (memoize) --> name services --> RPC nodes
                                                                      +--> Arweave (Warp), Kubo

    tab --page of the loader--> registration --> service worker --> RPC nodes, IPFS and Arweave gateways

Each worker is one single-threaded process. Interleaving happens wherever the code awaits,
between processes through Redis, and between the primary and its workers through signals, IPC
and exits. The service worker package does without the server: its loader page registers a
worker that resolves the name of the page itself; there the tabs of a browser share one
registration, and the fetch events of a worker one global.

### Components

**Cluster supervisor** (`dweb-api-server/src/server/cluster.ts`). *State:* in the primary
`lastHeartbeat`, `restartTimestamps`, `shuttingDown`, `cluster.workers`; in a worker its timers
and handlers. *Operations:* fork, heartbeat, watchdog, `onClusterExit`, `shutdownPrimary`,
`shutdownWorker`. *Hard:* five kinds of events about one worker (message, exit, disconnect,
signal, timer) in any order; start-up and drain times during which no beat is sent; a primary
that gives up without a word. *Correct when* the pool keeps its strength, healthy workers are
left alone, stuck ones are replaced, crash loops end the primary, shutdown ends and leaves
nothing behind.

**Worker load** (same file). *State:* `inflight`, a `done` flag per request, `overloadedSince`.
*Operations:* request, finish, close, beat. *Hard:* `finish` and `close` in either order or
alone; beats that are late just when they matter. *Correct when* the count never drifts, a
worker leaves over a lasting overload and not over a peak.

**Two-tier cache** (`dweb-api-cache/src/index.ts`). *State:* Redis, a memory cache per process.
*Operations:* `memoize` with its nested catch blocks. *Hard:* the TTL of the memory cache is
read from Redis after the value; commands that were given up on still reach Redis; every failure
path resolves again. *Correct when* values stay fresh, Redis trouble fails no request, costs a
bounded number of resolver calls and never blocks.

**Ask rate limiter** (`dweb-api-server/src/services/DomainRateLimit`). *State:* one counter per
domain in Redis. *Operations:* INCR, TTL, EXPIRE. *Hard:* three commands, many processes, each
command can fail or arrive late. *Correct when* no counter admits too many, none stays without a
TTL, and a window is not extended.

**Request pipeline** (`server/index.ts`, `services/DomainsQueryService`, `utils`,
`resolver/utils.ts`). *State:* one continuation per request; what the caches hold of the domains
API. *Operations:* `proxyServer`, `caddy`, `proxyServerLogic`, `requestHandler`. *Hard:* a chain
of links, then one blacklist check per suffix, each an await and each answer of another age; the
handler's rejection is not awaited. *Correct when* nothing blacklisted is served, every request
is answered or lost with its process.

**DoH endpoint** (`dnsquery/index.ts`). *State:* one continuation per request with two nested
loops. *Operations:* `dnsqueryPost`, `dnsqueryGet`. *Hard:* every question is checked before any
is resolved; one failing question. *Correct when* nothing blacklisted is answered, answers
follow their questions, every request comes to an end.

**Record resolver, name services, Kubo client** (`dweb-api-resolver/src/resolver`,
`.../nameservice`, `services/KuboApiService`). *State:* none of their own but the cached
results. *Operations:* `resolveEns`. *Hard:* two reads of the chain while the owner edits,
failures at every call that must or must not be cached. *Correct when* what is cached was there
to be read, Kubo fails nothing, and the cache catches up.

**Bindings and entry point** (`dependencies/BindingsManager.ts`, `dependencies/services.ts`,
`server/src/index.ts`). *State:* a cache per binding, the memory caches by name. *Operations:*
`getBinding`, the constructors with the arguments they await, `init()` of the name services.
*Hard:* a binding is cached only after its construction, so concurrent calls construct it
several times; RPCs answer or fail in any order. *Correct when* no request meets a service that
is not initialised, and all cache services of a process share one memory cache.

**Service worker** (`dweb-api-serviceworker/src`). *State:* the page of each tab, the
registration and the life of its worker, the global `verifiedFetch`, one continuation per fetch
event. *Operations:* the loader script (unregister, register, wait, reload), `install`,
`activate`, `fetch`, `resolveUrl`, the loop over redirects. *Hard:* every event may be the one
that creates `verifiedFetch`; the browser stops a worker when it likes; another tab removes the
worker this one waits for. *Correct when* trustless content is never taken from a plain gateway,
a page never reloads into the loader again, and pages and events come to an end.

**RPC failover** (`nameservice/EnsService.ts`, `server/src/configuration/index.ts`). *State:*
the endpoints of one request. *Hard:* two timeouts with similar names. *Correct when* a silent
endpoint is joined by the next, and given up, after the times the configuration says.

**Not modelled:** hostname substitution and punycode, the data URL proxy, the browser cache, the
rest of the configuration, logging, types and error pages, deployment scripts (section 7 says
why).

## 2. Modules

| Module | Models | Uses |
|---|---|---|
| `Supervision` | abstract: what a supervisor promises | |
| `Cluster` | primary, workers, channels, signals, time | INSTANCE `Supervision` |
| `WorkerLoad` | the load count and the overload exit of one worker | |
| `Startup` | the construction of the services in a process | |
| `Worker` | a worker process from its start to its exit | EXTENDS `WorkerLoad`, `Startup` |
| `Memoize` | abstract: what a call of `memoize` promises its caller | |
| `TieredCache` | `memoize` of one key, several calls and processes | INSTANCE `Memoize` |
| `RateLimit` | `incrementRateLimit` of one domain | |
| `DomainsApi` | what `domainQuery` can answer, given the caches | |
| `Gateway` | proxy and ask requests of one process | EXTENDS `DomainsApi` |
| `DnsQuery` | DoH requests | EXTENDS `DomainsApi` |
| `Resolver` | `resolveEns` of one name | |
| `Failover` | one RPC request over the configured endpoints | |
| `FetchEvents` | the fetch events of a service worker | |
| `ServiceWorker` | loader pages, registration and life of the worker | EXTENDS `FetchEvents` |
| `MC...` | values of the constants for TLC | |
| `...Proofs` | theorems | |

The modules were written in the order in which a fault would hurt: the supervisor that
everything runs under, the cache that everything reads through, then the users of both.

How they fit: `await start` of `Cluster` is `Startup` and `StartsServers` of `Worker`; a failed
start or an overload exit of `Worker` is a `Crash` of `Cluster`. `Memoize` is what the other
modules see of the cache, and `TieredCache` implements it: its age bound is the `MaxAge` with
which `DomainsApi` says what an answer can be, so `Gateway` and `DnsQuery` need no cache of
their own, and its bound on calls is `MaxCalls` of `Resolver`. It assumes one memory cache per
process, which `Worker` shows. A request of `Failover` that fails is `RpcFails` of `Resolver`,
or `InitFails` of `Startup`. "Any kind of record or an error", which `Gateway` and `DnsQuery`
take from `resolveEns`, covers the results of `Resolver`.

### State and actions against the code

*Cluster.* `phase[w]` follows a worker's process: `starting` until `await start` is over (no
signal handlers yet, so SIGTERM ends it), `running`, `draining` after `shutdownWorker`, `dead`
when the process is gone, `reaped` once `onClusterExit` has run while the channel is still open,
`free` when node has forgotten the id. `silence[w]` is `Date.now() - lastHeartbeat.get(id)`,
saturated one above `noHeartbeatMs`; `restarts` is `restartTimestamps` as ages. `Watchdog`,
`ExitAndFork`, `ExitAndGiveUp`, `ExitWhileStopping`, `ShutdownPrimary`, `ShutdownTimeout` are
the handlers; `NothingLeft` is the unref'd timer that lets the process end early. Ids are reused
only because the set is finite. `Block`/`Unblock` stop and resume the event loop of a worker in
`Faulty`. `ClockJumps` is a wall clock set forward, after which every age is over its limit.
`steady` remembers whether the primary has served its loop within every tick and its clock has
not jumped.

*TieredCache.* A value is its age. `pc` is the await a call of `memoize` is at: the memory
cache's miss leads to `get`, `ttlHit` or `ttlMiss`, `thunk`, `set`, `getTtl`, and the catch
blocks `innerCatch`, `outerCatch`. A step is the moment a command takes effect; `RedisGivenUp`
is the one-second timer that wins the race, after which a SET is a late one that `LateSet` may
still execute within `MaxLate`. What a call shows its caller (busy, served with an age, failed;
how often it called its resolver) is `Memoize`. `Second` ticks make a second, since TTL replies
are rounded to seconds.

*RateLimit.* `count` and `pttl` are the counter; the actions are the effects of the commands.
`current` and `admitted` remember which requests the present counter has counted and let
through.

*WorkerLoad.* `res` is the life of a response, `done` and `inflight` those of `registerServer`.
The lag and count conditions of the overload are one nondeterministic condition over `inflight >
MaxInflight`. `sinceCalm` remembers the last beat without overload.

*Startup, Worker.* A call of `getBinding` that misses its cache is a record with the service,
its caller and the arguments it has. `ready` is the microtask queue, which makes the order in
which calls go on a matter of the code; only the RPCs in `rpc` answer in any order, between two
runs of the queue. `bound` is what each binding caches. `Worker` adds `WorkerLoad` once
`AllBound`.

*DomainsApi.* `Answers(d)`: the truth of some moment within `MaxAge`, or the default value (not
blacklisted) the code caches for a 4xx status or a reply that does not parse. `Settled` domains
have been listed for so long that no cache says otherwise.

*Gateway.* `pc` is the await: rate limiter, a link query, a suffix query, the resolution, the
handler. `RequestHandlerThrows` ends the process with every request in it, since nobody handles
the rejection of `requestHandler`. `banned` remembers what was settled on the blacklist when the
request began and has not changed since.

*DnsQuery.* As `Gateway`, with the loops over questions (`at`) and suffixes (`next`). A packet
is the sequence of its questions; a response remembers the index of its question and the domain
whose record it is from. `DohDomain` is what `questionToEnsAnswer` makes of the name of a
question before it resolves it (the piece after the first `_dnslink.`); what was checked is the
suffixes of the whole name, prefix included.

*FetchEvents.* One event per tab is in flight. `step` is its await: the RPC of `init`, the
creation of the verified fetch, the resolution, the fetch, the calls of the loop over redirects.
The loop follows as many redirects as there are; only their count `hops` stops at `MaxHops`.
Records are told apart by what `resolveUrl` makes of them: a URL to fetch, nothing, or a throw.

*ServiceWorker.* `page[t]` is the await of the loader script; `registration` and `state` are the
browser's, as far as the scripts use them (`getRegistrations`, `register`, `unregister`,
`statechange`, `ready`, which page a worker controls). `disturbed[t]` remembers that another tab
has unregistered since this one registered.

*Failover.* `status` of each endpoint of one request; `Stalls` is the stall timer of the
FallbackProvider, `ConnectionTimesOut` the timeout of a connection, which may or may not reach
the provider (`applied`): that depends on whether the library hands out its connection or a
copy.

*Resolver.* `resolver` and `content` are the two chain tables the name services read, edited by
`SetResolver` and `SetContent`. `pc` is the await; `cached` the results the caches hold. A
content hash is a model value with a format, and a record remembers what it was made of.
`RpcFails` stands for every way a name service can fail, time-outs and the failover of the RPC
library included. `ResolveArweave` may reject: the state of a contract is read without a test of
its shape (`arweave.ts:45`, `:66`, `:87`). `Kept` is the SET of a result, done or failed, also
before memoize calls again because only the TTL could not be read.

## 3. Runs

| Run | Instance | Shows |
|---|---|---|
| `cluster_safety` | 2 workers + 1 spare id, 1 faulty, a primary that may lag and a clock that may jump, budget 3 in 2 ticks, `NoHeartbeat` = `Drain` = start + beat | `CleanExitLeavesNoWorker`, `RestartBudget`, `HealthyNeverOverdue`, `DrainGetsItsShare` |
| `cluster_liveness` | the same pool, all times 1, budget 2 | `StuckWorkerIsReplaced`, `ShutdownEnds` |
| `cache_shared` | 2 calls in one process, 3 ticks a second, late SETs | `ServedAgeBounded`, `MemoizeKept`, `RequestsEnd` |
| `cache_stale` | 2 processes | violates `PersistedForCacheTtl` |
| `ratelimit` | 3 requests, limit 2, one failing command | `AdmittedWithinLimit`, `UntimedCounterIsServed`, `WindowNotExtended`, `CounterGetsTtl` |
| `worker` | the start-up of one process, then 4 responses, overload from 3, grace of 7/3 beats | `ServedByReadyServices`, `InflightExact`, `OverloadEnds`, `GraceKept` |
| `gateway` | 2 requests, 7 domains with a chain and a cycle of links, 2 hops | `BlacklistEnforced`, `RequestsAnswered` |
| `gateway_cycle` | 1 request, 5 hops | violates `CycleDetected` |
| `dns_query` | 1 request, 0 to 3 questions with a limit of 2, names with the prefix, without it and with it twice, two contested domains | `BlacklistEnforced`, `AnswersFollowQuestions`, `RequestsAnswered` |
| `resolver` | 1 request, 2 contracts, 4 formats, 2 edits, 3 name services | `ResolvedWasThere`, `KuboFailsNothing`, `CacheCatchesUp`, `RequestsEnd` |
| `service_worker` | 2 tabs, 4 instances of the worker, both modes, redirects told apart up to the third | `VerifiedFetchIsSet`, `TrustlessIsVerified`, `ReloadIsServed`, `PageSettles`, `EventsAnswered` |
| `failover` | 3 endpoints, stall timeout 1, timeout 3 | violates `TimeoutsAsDocumented` |

Every passing safety run also checks the `TypeOK` of its module, and every property has a
variant of the code (`mutants`) that breaks it under the same run.

### Why the bounds are enough

- *Cluster.* Two workers are the least a cluster has (one means no supervision). The spare id
  lets a replacement live next to a worker that is reaped but not yet disconnected. With a
  budget of 3 and a window of 2 ticks the window slides, prunes and is spent. As in the default
  settings `Drain` equals `NoHeartbeat`, and start and beat fit into it: the watchdog does cut
  drains in this instance.
- *TieredCache.* Two calls suffice for a key that is set between a GET and the TTL that follows;
  three ticks a second exhibit the rounding both ways; one process, because a second one only
  adds its own memory cache (`cache_stale` has two).
- *RateLimit.* With 3 requests and a limit of 2, one is over it; the failing command can be any
  of the three at any of them, executed late or never.
- *Worker.* With `MaxInflight` 2, four responses go over the limit and back in several ways. The
  start-up has no constants: its 404 states are all there are.
- *ServiceWorker.* A second tab is what can disturb the first. Two tabs hold at most two
  workers, one more is registered and one on its way; a fifth adds no state. `MaxHops` is where
  the count of redirects stops and not a bound on the sites: with 3 a chain is in the instance
  as long as it likes to be, in every order of its two kinds.
- *Failover.* The bound of the clock leaves time for each endpoint to be asked and given up.
- *Gateway.* One contested domain, `name.eth`, is the middle suffix of one hostname and the
  first of another; two requests share the process that a throwing handler ends. `MaxAge` 0
  keeps the ages of answers to "now" and "just before".
- *DnsQuery.* Requests meet only in the API and in the process that ends (`ProcessEnds`), so one
  suffices. A packet of three is one too many; every position holds every kind of question. Of the
  four names two are resolved as they were checked, one as a suffix of what was checked, and one
  as something that was not checked.
- *Resolver.* Two edits are enough for each of the two reads to be overtaken, and one edit of
  either table in each retry. Three calls are the bound `TieredCache` establishes. Requests meet
  only in `cached`, which every request may have filled before.

Counters that code lets grow are bounded by named constants: `MaxLate` (how late a command that
was given up on can still be executed), `MaxFailures`, `MaxEdits`, `MaxCalls`, `MaxAge`,
`MaxDelay`, `MaxTime`; `MaxHops` of `FetchEvents` is where a count saturates; ages do so one
above the limit they are compared with.

`CHECK_DEADLOCK FALSE` is set where the system ends: `Cluster` (the primary exits), `Worker`
(the worker exits) and `Failover` (the request ends).

### Fairness

- *Cluster.* Weak fairness of each handler of an event loop that turns; a faulty worker owes
  nothing while blocked, and need never finish `start`. Time (`Tick`) is strongly fair: a worker
  that blocks and unblocks for ever does not stop the clock.
- *TieredCache.* The timer of the client fires (`RedisGivenUp`) and a thunk settles; no fairness
  of Redis at all.
- *RateLimit.* The domain is asked for again, all but `MaxFailures` commands are answered, time
  passes. `CounterGetsTtl` would be false without further requests, as only a request repairs a
  counter.
- *Gateway, DnsQuery.* What a request awaits settles. The HTTP query of the domains API has no
  time-out in the code, so this is an assumption about the network, not a fact of the code.
- *ServiceWorker.* Fetches answer or fail, and the browser finishes an installation it has begun.
  Nothing is assumed of users, nor of the browser stopping workers (`Terminate`), nor of the
  first RPC of an event and of a page (`EnsService.init`): ethers repeats it until it has learnt
  the network and the code does not bound that. `EventsAnswered` and `PageSettles` leave out who
  waits for it for ever. Later RPCs are ended by the timeout of their connection.
- *Resolver.* Name services and the Arweave library end their calls. Of Kubo only the timer of
  the request is fair (`KuboFails`): `RequestsEnd` holds though Kubo may never answer. Cached
  results run out.

## 4. Findings

- **A record can be served for longer than `CACHE_TTL`** (`cache_stale`). `src/README.md:33`
  calls it the "TTL to persist resolved records". The memory cache takes as TTL of the value it
  just got whatever is under the key in Redis when `getTtl` is answered. Another process may
  have set the key again in between, or it may have run out, and 0 counts as the default. A
  value close to its end then lives for another TTL. `ServedAgeBounded` is what does hold: two
  lifetimes plus the delays of the commands.
- **A cycle of links is not detected** (`gateway_cycle`). The comment at
  `DomainsQueryService/index.ts:202` says cycle detection is built in through `max_hops`. The
  hops end the loop, but then the domain the walk stopped at is returned like one that was
  found, checked against the blacklist and resolved. Line 195 has it as a precondition of the
  caller that links end in `.eth`, which no caller establishes, since they come from the domains
  API; the integration tests, on the other hand, serve hosts that link to themselves, so a link
  from a domain to itself may be meant to be served.
- **The two RPC timeouts are exchanged** (`failover`). The comments at
  `configuration/index.ts:50` and `:53` say that `provider_stall_timeout_ms` (200) is the
  `stallTimeout` of the FallbackProvider and `provider_timeout_ms` (7000) the timeout of a
  connection. `EnsService` uses each where the other belongs: a silent endpoint is joined by the
  next after 7 seconds instead of 0.2.

Worth knowing, though no document says otherwise:

- With the default values (`noHeartbeatMs` 5000, drain 5000 ms) the watchdog cuts the drain of a
  worker that was signalled on its own: the silence before the signal counts.
  `DrainGetsItsShare` says how much of the drain is left in the worst case.
- A DNS name with `_dnslink.` in it twice is checked as a whole, and a piece from its middle is
  resolved (`dnsquery/index.ts:98-116`). `BlacklistEnforced` of `DnsQuery` holds only for answers
  from a domain that was among those checked, and TLC finds the others without that condition.
- `BlacklistEnforced` of `Gateway` is about the domain at which the links of a hostname end; a
  hostname that links elsewhere is not itself checked. Both properties leave out the domains for
  which the API has answered with an error, since the code takes them as not blacklisted (the
  FIXME in `domainQueryInternal`).
- `RequestsAnswered` of `Gateway` counts a request as ended that is lost with its process, and
  that of `DnsQuery` one whose other answers are lost because one question fails.
- An Arweave contract of an unexpected shape fails the resolution (`arweave.ts:45`, `:66`,
  `:87`); a failed read of one yields the contract's own id as the record (`arweave.ts:23`), and
  Kubo's answer with a path below a CID a null record.
- When one tab unregisters the service worker that another tab waits for, that page waits for
  ever (`serviceworker` `index.ts:55` resolves only on "activated"). Two loaders can also go on
  unregistering each other's worker, and reload each time. `ReloadIsServed` and `PageSettles`
  leave out the pages that another tab has disturbed: TLC finds the first case without that
  condition, and the second when only the pages that hang are left out.
- A site whose redirects form a cycle keeps its event open for ever; the path of a Swarm or
  Arweave record's URL is overwritten with the path of the request (`service-worker.ts:77`).

## 5. Proofs

TLAPS checks the following for every value of the constants that satisfies the named assumptions
of the modules.

| Module | Theorems | Inductive invariant |
|---|---|---|
| `ClusterProofs` | `TypeCorrect`, `PoolStrength`, `CleanExit`, `NoForkStopping`, `HealthyNotOverdue`, `DrainShareKept`, `BudgetIsKept` (it implements `Supervision`); liveness: `StuckComesNearer`, `ShutdownComesNearer` | `HealthyOnTime`: while the primary was prompt, silence plus the time left on a worker's timer stays below a constant; `RestartsKept`: restarts are listed oldest first, fewer than the budget while the primary is up; `BlockedLive` |
| `TieredCacheProofs` | `TypeCorrect`, `ServedAge`, `OneMoreCall`, `FailsOnlyWithThunk`, `KeepsPromise` (it implements `Memoize`); liveness: `CallsComeBack` | `IInv`: age plus remaining TTL is bounded in every store, age is bounded by the place of a request, calls are counted by place |
| `RateLimitProofs` | `TypeCorrect`, `LimitHolds`, `UntimedServed`, `WindowKept`, `DecisionsTimed`; liveness: `AnyRequestIsEnough` | `GrantsCounted`: those admitted and those about to be are within count and limit; `ExpiresOnTheEdge` |
| `WorkerLoadProofs` | `TypeCorrect`, `InflightCounts`, `GraceIsKept`, `OverloadIsBounded`, `WorkerIsLoad` (a `Worker` behaves as `WorkerLoad`, so all four hold of it), `ServedReady`, `StartGoesOn` | `Counted` (done and open), `Watched` (ages between beats); `StartInv`, `Unserved` and `Placed` for the start-up |
| `GatewayProofs` | `TypeCorrect`, `BlacklistHolds`; liveness: `RequestsComeNearer` | `Vetted`: banned domains are still settled, and no suffix checked so far is banned |
| `DnsQueryProofs` | `TypeCorrect`, `BlacklistHolds`, `AnswersInOrder`; liveness: `RequestsComeNearer` | `Vetted` for every question passed, `Ordered`: answers end before the question in hand |
| `ResolverProofs` | of `Resolver`: `TypeCorrect`, `NothingMadeUp`, `KuboIsHarmless`, `OnlyEditsOutdate`; liveness: `RequestsAlwaysEnd`. Of `Failover`: `FailoverAsBuilt` | `Traced`: the histories hold the present, and what was read was in them; `Called`: an open request is in some call; `FailoverInv`: how many endpoints are in which state, and how long ago the ones still counted on were asked |
| `ServiceWorkerProofs` | `TypeCorrect`, `GuardNeverThrows`, `TrustlessServing`, `RedirectLoopIsComplete`, `ReloadReachesWorker`, `NobodyWaitsInVain`; liveness: `EventsAdvance` | `EventInv`: what the mode and the place of an event say of `verifiedFetch` and of its record; `PageInv`: where an undisturbed page's worker is in its life; `ActivationAhead`: what it waits for is not past |

*Why strengthening is needed.* `HealthyNeverOverdue` is about one age, but a beat resets it only
when the timer has run down, so the two must be related, with a case of its own for a heartbeat
in the channel. `ServedAgeBounded` speaks of the last state of a call; the bound has to be
carried through Redis, the late SETs, the hands of a call and the memory cache.
`AdmittedWithinLimit` depends on requests that have been counted and not yet decided.
`BlacklistEnforced` depends on the suffixes passed earlier, whose answers may have changed
since; `Settled` and `banned` are chosen such that they cannot have. `AnswersFollowQuestions`
needs the index of the last answer to stay below the loop's. `ResolvedWasThere` needs that the
contract in hand was once the name's, although it no longer is. `RestartBudget` maps the list of
restarts to those inside the window: because they are listed oldest first, the others are its
first ones, and the pruning at the next exit takes away exactly what the mapping left out
(`PruneAppend`), while the passing of time only moves the split (`RecentOfOlder`).
`ServedByReadyServices` speaks of all calls of `getBinding` when `Promise.all` has only looked at
those of `index.ts`: a call is in one place at a time (`OnePlace`) and its caller waits for that
call alone (`Awaited`), so the caller of the earliest call still out would be out, too.
`StartNeverStalls` is about the whole set of calls, so every call has to be accounted for one by
one (`Placed`): it runs, is in the queue of continuations, at an RPC server, or waits for a later
call that has not returned, and there is no infinite chain of later calls. `HangsOnlyDisturbed`
needs that what an undisturbed page waits for is still to come (`ActivationAhead`): `register()`
looks before it waits, and every step that activates the worker ends the wait. `TimeoutsAsBuilt`
needs that not all endpoints asked have been given up on: as long as there are others, those
asked are the quorum plus one for each that stalled, and fewer than the quorum have answered.

`HealthyNotOverdue` has `StartLimit + Heartbeat <= NoHeartbeat` as a hypothesis: the time a start
takes is not a setting, and one longer than that is killed. `DrainShareKept` has none. That the
primary is prompt and its clock steady is part of both properties (`steady`).

Not every theorem has a run of its own: `PoolStrength`, `NoForkStopping`, `OneMoreCall`,
`FailsOnlyWithThunk` and `RedirectLoopIsComplete` are what the runs check as part of
`RestartBudget`, `MemoizeKept` and `TrustlessIsVerified`.

### Liveness

The prover knows weak and strong fairness and nothing of ENABLED, so each theorem about liveness
has the hypothesis `[]WaitsCanEnd`: in every state the action that ends a wait is ENABLED as long
as the wait lasts. It is a state predicate of the module and true in every reachable state of the
instances in section 3: `INVARIANT WaitsCanEnd` in the configuration of the module's run makes
TLC check it (for `Cluster`, that of `cluster_liveness`, with `PROPERTY ClockGoesOn TimersGoOn`
for the hypotheses about time). That no other step takes a process out of its wait, that the
fair step does end it, and what follows from both under the fairness of the module is proved,
for every value of the constants.

- Where a wait has finitely many stages the theorem is the property of the run: `RequestsEnd` of
  `TieredCache` (`CallsComeBack`) and of `Resolver` (`RequestsAlwaysEnd`, for the numbers of
  calls that `TieredCache` allows).
- Where the stages are as many as a constant says (hops, suffixes, questions, redirects, ticks)
  the property would need an induction over temporal formulas, which is out of the prover's
  reach. The theorem is then the step of that induction: from every value of a distance the
  process ends, an exception of the property applies, or the distance shrinks (`AnswersComeNearer`, `EventsComeNearer`,
  `StuckIsNoticed`, `ShutdownAdvances`). The distances are naturals (`Measured`, or by the types
  of a timer and an age) or pairs of naturals in lexicographic order; that such a descent is
  finite is all that is left to the reader.
- `AnyRequestTimes` says that one request suffices for `CounterGetsTtl` until a further command
  fails.

`StuckComesNearer` and `ShutdownComesNearer` take as hypothesis that time passes: the wall clock
for the silence of a worker (`ClockGoesOn`), ticks for the timer of the shutdown (`TimersGoOn`;
a clock that jumps does not run timers). Both follow from the fairness of `Tick` in the instance.

### Only model-checked

`StuckWorkerIsReplaced`, `ShutdownEnds`, `RequestsAnswered`,
`EventsAnswered` and `CounterGetsTtl` in the form the runs check them, for the missing induction
over temporal formulas; so too `CacheCatchesUp` (as many outdated results must run out as there
were edits) and `PageSettles` (every worker that nothing needs must be dropped before the browser
goes on). `WaitsCanEnd`, `ClockGoesOn` and `TimersGoOn`, because of ENABLED.

## 6. What the models abstract

- Names, content hashes, packets and records are model values; conversions are the outcomes the
  control flow tells apart (a record, a null record, a record that cannot be encoded, a backend
  that is switched off).
- A Redis command and the handling of its reply are one step, at the moment the command takes
  effect. What follows until the next command takes effect touches only the request's own state,
  so nothing else can tell when in between it happens; only the entry in the memory cache is
  made up to a reply later, which the slack in `HeldBound` covers. The time between two such
  steps is a reply and the way of the next command, hence `Timeout` stands for up to twice the
  client's `_timeout`. A command that was given up on takes effect later, or not at all.
- One key, one domain, one name: `memoize`, the limiter and the resolver treat keys
  independently.
- There is one clock per module; only that of `Cluster` jumps, and only forward.
- Service worker: the scripts do not change between deployments, a navigation waits for an
  activating worker, the browser drops a worker that nothing needs at once, requests of a page
  come one at a time. URLs are the kind of fetch they lead to.
- The FallbackProvider is modelled as far as the code relies on it: order by priority, quorum,
  stall timer.
- Which record of an Arweave contract matches, and the encoding of identifiers, are left out.

## 7. Not modelled, and what is left to do

- *Hostname substitution and punycode*: pure functions on strings, called once per request; what
  they could get wrong is in the parsing of URLs, which is the runtime's. `Gateway` and
  `FetchEvents` take any result.
- *Data URL proxy and `resolveDataUrl`*: a handler with one await and no state that outlives it;
  its branches are formats of a payload.
- *Browser cache*: the IndexedDB cache is constructed nowhere; the service worker uses the
  passthrough cache, which keeps nothing.
- *Configuration* beyond the RPC timeouts: environment variables, read once. Its results are the
  CONSTANTS.
- *Logging, types, error pages, scripts*: no state.

Next: `Gateway` and `DnsQuery` over one domains API, so that `ProcessEnds` is the pipeline's own
action; the labels of `recordToProxyRecord` as operators on sequences against a reference
definition.

## 8. Running

    tlc -config MCResolver.cfg MCResolver      # each run: module and cfg as in PROJECT.json
    tlapm ResolverProofs.tla                   # each ...Proofs module
