# A verification project for vegait

vegait is a distributed API rate limiter: gateways behind nginx read a client's limit from
PostgreSQL, decide each request with a sliding window kept in one Redis (or, when Redis does
not answer, with a token bucket of their own), forward what they admit to a third-party API
and log every decision asynchronously to PostgreSQL. A dashboard reads the logs.

This directory holds TLA+ models of it, the TLC runs that check them on small instances and
the proofs, checked by TLAPS, that hold for every value of the constants.

* `tlc -config sw_exact.cfg MCSlidingWindow` (and the other `.cfg` files, each with the module
  its entry in `PROJECT.json` names) checks a model;
* `tlapm SlidingWindowProofs.tla` (and the other `*Proofs` modules) checks the proofs.

Source paths are relative to `src/`; `limiter.go` is `backend/internal/limiter/limiter.go`,
and so on for the packages under `backend/internal`; `main.go` is `backend/cmd/server/main.go`.

## 1. Inventory

### Gateway process (Go, one per instance)

| Part | State | Operations | Talks to |
|---|---|---|---|
| Sliding window, `limiter.go:30-48, 117-150` | in Redis: one sorted set per client and its expiry; in the process: `memberSeq` | `allowRedis`, the Lua script | Redis, called by `Allow` |
| Circuit breaker, `limiter.go:73-115, 182-223` | `redisHealthy`, `consecFailures`, `luaSHA`; the goroutine of the recovery check | `Allow`, `handleRedisFailure`, `startRedisRecoveryHealthCheck` | Redis (scripts, pings) |
| Local limiter, `limiter.go:152-180, 225-241` | `localLimiters`: client -> token bucket with its limit, window and `lastAccessed` | `allowLocal`, the cleanup loop | called by `Allow` |
| Gateway handler, `proxy.go` | none of its own | `ServeHTTP`, `forwardRequest` | limits, `Allow`, upstream, `Log` |
| Client limits, `database.go:214-227`, `handlers.go:166-201` | table `client_limits` | `GetClientLimit`, `UpsertClient` | PostgreSQL |
| Asynchronous logger, `logger.go`, `database.go:182-209` | channel, worker batches, three counters; table `request_logs` | `Log`, `worker`, `flush`, `drainAndFlush`, `Close`, `InsertLogsBatch` | PostgreSQL |
| Start and shutdown, `main.go` | what is running | open, serve, `Shutdown`, `Close` | all of the above |
| Migrations, `database.go:81-128` | the schema, the seed rows | `runMigrations` | PostgreSQL |
| Analytics, `database.go:229-`, `handlers.go` | none | read-only queries | PostgreSQL |
| Admin API, `handlers.go` | none | health, clients, analytics, statistics | PostgreSQL, breaker, logger |
| Middleware, `middleware.go` | none | request id, access log, recovery, CORS | wraps both servers |
| Configuration, `config.go` | the `Config` record | `Load` | environment |
| HTTP helpers, `httputil/response.go` | none | `WriteJSON` | |

### Around it

| Part | State | Operations |
|---|---|---|
| Load generator, `backend/cmd/loadgen/main.go` | atomic counters, latencies | hand out jobs, send, summarise |
| Dashboard, `dashboard/src` | the response shown by each hook | poll, fetch on a changed filter |
| Mock API, `mock-api/main.go` | none | answers after a random delay |
| nginx and docker-compose | none | spreads requests over the instances |

### How the parts interact, and what is hard about it

* **Gateways share Redis and nothing else.** Each stamps a call with its own clock, each
  script runs atomically but late and in any order, Redis may restart with an older
  snapshot. *Correct:* the set stands for exactly the calls admitted and still in a window;
  no window sees more admissions than its limit, as far as clocks and delays allow; nobody
  is refused without that many admissions.
* **Requests and the recovery check share three words of memory** and take steps between
  each other's loads and stores. Late failures, counted before a recovery, act after it.
  *Correct:* an open breaker has exactly one goroutine that will close it; it closes only on
  a ping that has been answered; it opens and closes for good when Redis stays down or up;
  every call is answered.
* **Handlers, workers and main meet in the logger.** The channel is bounded and drops,
  transactions fail as a whole, `quit` races the channel, main waits for the workers,
  handlers may outlive `Shutdown`. *Correct:* no entry disappears silently; sizes hold; the
  statistics add up; a batch is eventually written; the process stops, with nothing left.
* **The local limiter** is a `sync.Map` used with separate `Load` and `Store`. Two first
  requests both store a full bucket, two different rows in flight replace the bucket by a
  full one again and again, the cleanup deletes a bucket a request has just taken.
  *Correct:* each bucket admits what its row allows and only requests of that row; the
  cleanup forgets no token that has been spent. The number of buckets is not bounded by the
  code, so the gateway's total is not either.
* **A request passes from one limiter to the other.** A Redis reply may be lost after the
  quota was spent, or the script may run after its caller gave up, and the call is then decided
  again locally; the upstream fails in several ways after the call was admitted. *Correct:*
  nothing is admitted for free; every decision leaves exactly one entry that says what was
  decided; the reply says what the entry says; every request is answered.
* **A limit is read before it is used**, at any gateway, while upserts run, time out and run
  late, and gateways start and seed. *Correct:* a limit the administrator was told is set is the
  one in force.
* **Two instances start together** on an empty database, and PostgreSQL may be away when they
  do. *Correct:* the seeds come together, a gateway that found PostgreSQL serves with tables,
  not every gateway ends in `log.Fatalf`.
* **The load generator** counts in shared atomics and keeps latencies per worker. *Correct:* the
  report accounts for every request and its percentiles are percentiles.
* **The dashboard** keeps the response that arrives last, not the one it asked for last, and
  three queries cut and group the same rows in three ways. *Correct:* the page repairs itself;
  the views agree.

`PROJECT.json` lists each of these under `hazards`, at the line where it bites.

## 2. The modules

| Module | Models | Composes / implements |
|---|---|---|
| `RateLimit` | what a client is promised: a sliding-window limit against one clock, accurate up to `Slack` | the abstract specification |
| `SlidingWindow` | the callers of the script, the script, Redis | implements `RateLimit` |
| `CircuitBreaker` | requests and recovery checks in one gateway | |
| `LocalLimiter` | the local token buckets of one client and the cleanup loop | |
| `AsyncLogger` | handlers, workers, transactions, main's shutdown | |
| `Gateway` | requests from the middleware to the reply | composes `CircuitBreaker` with a window and buckets; implements `CircuitBreaker` |
| `ClientLimits` | `client_limits`: starts, migrations, seeds, upserts, lookups | |
| `LoadGenerator` | `cmd/loadgen` | |
| `Dashboard` | the analytics queries and the hooks that fetch them | |
| `MC*` | small instances whose constants need definitions | extend the modules above |
| `*Proofs` | the theorems | extend the modules above; `SlidingWindowProofs` proves also what `RateLimit` promises, `GatewayProofs` uses `CircuitBreakerProofs` |

### SlidingWindow

One client, since the script touches one key. Time is counted in ticks of Redis's clock (a
tick stands for a millisecond, the unit of the scores).

| Definition | Code |
|---|---|
| `Send` | `limiter.go:117-127`: the stamp of the gateway's clock, `memberSeq + 1`, the arguments |
| `Live`, `Kept`, `Room`, `Added` | the key if it has not expired; what `ZREMRANGEBYSCORE` leaves; `ZCARD < limit`; `ZADD`, which overwrites an equal member |
| `ScriptAdmits`, `ScriptRefuses` | `limiter.go:30-48` as one atomic step; both purge, only an admission sets the expiry |
| `RedisSave`, `RedisCrash` | Redis outside the repository: it comes back with its last snapshot |
| `verdict`, `runAt`, `counted` | history: what was decided, when, and which admissions no crash has forgotten |

The arguments of a call stay in `args` until its script runs; scripts run in any order, at
most `MaxDelay` after the stamp, or never. A reply that is lost leaves the script's effect:
that is a script that ran. The gateway's clock is off by one of `ClockError[g]`, chosen anew
for every call, so a clock may also jump backwards. `Member` keeps the nanosecond as a tick
and a `SubTick` beside the sequence number, so two calls can share either.

### CircuitBreaker

Every atomic operation of the code is an action, because two goroutines can take steps
between any two of them: `AddFailure` (`limiter.go:188`), `CheckHealthy` and `Swap`
(`189-190`), `Spawn` (`192`), `Close` and `Zero` (`208-209`). A call that fails with a missing
script and is repeated with the source text counts as one call, since nothing is written in
between. A call to a running Redis may fail when `Lossy`: the deadline is 5 ms and the context
ends when the client hangs up (`proxy.go:75`). `Init` allows a start without Redis: then
`luaSHA` is empty and the first recovery check loads the script.

`luaSHA` is a Go string, a pointer and a length, that the recovery check writes while
requests read it without synchronisation. The torn state has its length and not yet its
pointer: a request that sees it passes the comparison of line 132 and follows a nil pointer
at line 133. This is a choice the build is free to make, not one it always makes.

`/health/deep` reports the flag (`handlers.go:59`), so it lags behind Redis by the failures
it takes to open the breaker; `ThresholdActed` says that a threshold once reached has somebody
who acts on it.

### LocalLimiter

One client of one gateway. `Begin` reads the clock, loads the entry and, if there is none for
the row, makes a new bucket (`limiter.go:152-164`): the last two are local to the request, so
they are one step with the load. `Store`, `Touch` (the unlocked `lastAccessed = now`, with the
time read in `Begin`) and `Admit` or `Refuse` are steps of their own, with other requests and
the cleanup in between. `lastAccessed` is written and read without a lock; the reader compares
its monotonic word only, so a torn read is an old or a new value, which the order of the steps
already covers. `CleanLook` and `CleanDelete` are the look at `lastAccessed` and the `Delete`
by key, which removes whatever entry the client has by then.

The bucket is `golang.org/x/time/rate`'s (external): `Level` is its content, counted in
1/window tokens so that it is an integer; rounding of its floating-point content is left out.

### AsyncLogger

An entry is named after the request it is about; the channel and the batches are sets,
because nothing depends on their order.

| Definition | Code |
|---|---|
| `LogEnqueues`, `LogDrops`, `CountDrop` | the two branches of `Log` (`logger.go:52-60`); the counter has its own lock |
| `Receive`, `TickFlush`, `SeeQuit` | the three branches of the worker's `select`: any that is ready may be taken |
| `Receive` in stage "drain", `DrainEnds` | `drainAndFlush`, until the channel is empty |
| `Commits`, `CommitsInDoubt`, `RollsBack` | `InsertLogsBatch` (`database.go:182-209`): all or nothing, or a commit whose answer is lost |
| `CountLogged`, `CountError` | what `flush` records; the worker drops the batch either way |
| `Signal`, `CloseLogger`, `Join`, `DeferredClose` | `main.go:105-119` and the deferred `Close` of line 44 |
| `Kill` | the end of the process by any other means |

`CloseLogger` happens when `Shutdown` has returned, which it does after 15 s even if handlers
are still serving; those are remembered in `late`. A request without a client id is answered
before anything is logged (`proxy.go:57-60`) and is not an entry.

A second `Close` closes a closed channel and panics (`main.go:44, 116`, `logger.go:72`):
`DeferredClose` models it. It comes after `Join`, so nothing is lost by it but the exit status.

### Gateway

The requests of one client at one gateway, within one window: no call leaves the window and no
token comes back, because `SlidingWindow` and `LocalLimiter` have the clock and this module has
the hand-over between them. The breaker is `CircuitBreaker` itself (`Breaker == INSTANCE
CircuitBreaker`), so every atomic operation of it is a step of its own here too.

| Definition | Code |
|---|---|
| `Chain`, `Stamps`, `Answer` | the order of the layers in `main.go:57`, and what it implies: whose headers are on a reply, who writes the line of the access log |
| `Panic` | `Recovery` writes a 500 with the headers already set; `AccessLog`, inside it, does not come to its line |
| `TurnAway` | no such path, or no client id (`middleware.go`); the handler's own check of the client id (`proxy.go:57-60`) cannot be reached behind that layer |
| `Lookup` | the row or, when PostgreSQL does not answer, the defaults (`proxy.go:68-73`) |
| `Allow`, `RedisDecides`, `RedisDecided`, `RedisFails`, `UseSHA`, `BreakerStep` | `Manager.Allow`, with the script's effect on the window |
| `ScriptRunsUnheard` | a script whose caller has given up runs all the same |
| `LocalLoad`, `LocalStore`, `LocalTake` | `allowLocal`; a bucket is named after the request that made it |
| `Refuse`, `UpstreamAnswers`, `UpstreamFails`, `UpstreamBreaksOff` | `proxy.go:86-157`: the entry given to `Log` and the reply |

A reply "cut" is one the upstream gave after the server had stopped writing: `WriteTimeout` is
10 s (`config.go:58`), the upstream call may take 30 s (`proxy.go:37`).

### ClientLimits

PostgreSQL commits what it runs, answers or does not, and may run a statement after its caller
gave up (`late`). `tables` and `rows` are its state. A limit stands for the pair of limit and
window; a row with `SeedLimit` is recognised as a seed.

| Definition | Code |
|---|---|
| `Start`, `PingFails`, `PingSucceeds` | `Init`: a server that does not answer is only warned about, and the migrations are skipped for good |
| `CreateLooks`, `CreateCommits`, `CreateFails` | `CREATE TABLE IF NOT EXISTS` looks and creates in two steps, so PostgreSQL refuses the slower of two gateways, which ends in `log.Fatalf`; no restart policy brings it back (`docker-compose.yml`), `Crash` is an operator's restart or a crash |
| `Count`, `Seed` | only an empty table is seeded, by one `INSERT` whose error is ignored |
| `SendUpsert`, `UpsertRuns`, `UpsertRefused`, `UpsertGivenUp`, `RunsLate` | `handlers.go:166-201`, with its 3 s |
| `LookupReads`, `LookupFails` | `database.go:214-227`, and the defaults of `proxy.go:70-73` |
| `told`, `expect` | history: what an administrator was told is set, and what a lookup may therefore expect |

### LoadGenerator

`Push` and `CloseJobs` are main's first loop, `Receive`, `Fire`, `CountSent`, `Tally` and `HandIn`
a worker, `Wait` is `wg.Wait`, `Merge` one round of the loop that merges the latencies, `Report`
`printReport`: `sort.Slice` leaves some ascending permutation of what it got (`Permuted`,
`Ascending`). The flags are clamped in `Init` (`AtLeastOne`). `Pct` is the nearest rank in integers; the code computes
`ceil(p / 100 * n)` in floating point, which is the same rank for p = 50, 90, 95 and 99 and n up
to two million (computed outside TLA+).  The goroutine of the progress ticker only prints.

### Dashboard

A row is committed by the logger some time after it was stamped. `Summary`, `Trend` and `Live`
are the three queries: the same filter, three ranges, two groupings. `Choose` and `Poll` start
calls, which the server answers (`Query`) and the network delivers in any order (`Arrive`), or
which fail (`Fail`). An answer under way stands for the rows committed when it was made;
averages and percentiles are represented by the rows they range over.

## 3. The runs

| Run | Instance | What it asks |
|---|---|---|
| `sw_exact` | 2 gateways, 4 calls, limit 2 in 2 ticks, one crash | with exact clocks, is the script the exact sliding window (`RateLimit` with no slack), is the set the record of the calls, and does one process ever build a member twice? |
| `sw_loose` | 2 gateways, 3 calls, rows 1/5 and 2/4, clocks ±1, delay 1 | with bad clocks, late scripts and changing rows, does the limit hold up to 3 ticks? |
| `sw_apart` | clocks one tick apart | *violation:* is accuracy independent of the instance? |
| `cb_breaker` | 3 requests, 2 checkers, threshold 2 | one guardian, no threshold reached in vain, no rise without a ping; does the breaker close and open for good? |
| `ll_buckets` | 3 requests, rows 1/2 and 2/1, stalls up to 2, 13 instants | does each bucket keep to its row, and does the cleanup give tokens back? |
| `al_logger` | 3 requests, 2 workers, channel 2, batch 2, failing PostgreSQL | everything the logger promises |
| `al_poison` | 2 entries, one of them refused | *violation:* is every acceptable entry logged? |
| `gw_requests` | 2 requests, row 1, default 2, threshold 1, lossy Redis | is anything admitted for free, are entries and replies true, is every request answered, and is the breaker inside that of `CircuitBreaker`? |
| `gw_panic` | the same, Redis not lossy | *violation:* does the access log have every request? |
| `cl_limits` | 2 gateways, 2 clients, 2 upserts (one may be invalid), 1 lookup, 1 crash | is an acknowledged limit used, do seeds come together, are tables there, does one gateway live? |
| `lg_load` | 1 or 2 workers, up to 4 requests, flags below 1 | is the report complete, are its percentiles right, does the run end? |
| `db_views` | 3 rows, 2 clients, 2 calls at once, minutes of 2 ticks, a day of 3 | do the views agree, are whole minutes whole, does the page repair itself? |

Why the bounds are enough. A limit goes wrong when one call too many is admitted or refused:
that takes limit + 1 calls, and one more to have something to purge, so limits of 1 and 2 with
3 or 4 calls. Time runs long enough for a call to leave its window and for the key to expire
(`MaxTime` exceeds `MaxSkew`, the longest delay and the smallest window together). The windows
of `sw_loose` are longer than its slack of 3 ticks (`MaxDelay + 2 * MaxSkew`): with shorter
ones the bound would speak of empty intervals. One crash is enough to restore a snapshot that
is older than, or equal to, what is in memory. The breaker needs one request to open it, one
whose failure is late, one more between them, and a second checker that could exist beside
the first. The buckets need one request that stalls, one that overtakes it and
one that comes when the bucket has been idle (for `MinIdle` = 6 or five windows, with clocks up
to 12), and two rows to replace each other. The logger needs a full channel (three entries, capacity two), a batch that fills
and one that does not, and two workers who race for the last entry of the drain. The gateway
needs one request that is admitted at Redis and one that finds the window full or the bucket
taken, two limits that differ so that buckets replace each other, and a threshold of 1 so that
the breaker opens between the two; one checker suffices, since `GatewayHasOneGuardian` is proved
for any number. The table needs two gateways to race, a seeded client to overwrite, one upsert
that is given up and one acknowledged after it, and a crash to start again on a table in use.
The load generator needs a job more than the channel and the workers hold; the samples of up to
four latencies have ranks where a rounding either way names another one. The dashboard needs an
allowed and a blocked row of one client, a row of another, a slow call and a fast one, and a
range that starts within a minute. Its three hooks share one code and no state, so one of them
stands for all. Symmetry is
used for calls, instants and gateways with equal clocks, and for requests in safety
runs, never with a liveness property. `CHECK_DEADLOCK FALSE` stands where a bound
or the end of the process stops the system; `cb_breaker` checks for deadlock.

### Fairness

Safety runs assume none. `FairSpec` of `CircuitBreaker` is weakly fair to each goroutine: the
Go scheduler runs what can run, every Redis call returns because its context has a deadline
(`proxy.go:75`, `limiter.go:202, 212`), and the ticker of the recovery check keeps ticking.
`BusySpec` adds that idle request goroutines start again; `Opens` needs it, since only
requests find out that Redis is down. Neither assumes anything of Redis: `Recovers` and
`Opens` say what follows *if* it stays up or down. The run has `Lossy = FALSE`: a
running Redis that keeps missing its deadline may open the breaker again and again, and the
code does not promise otherwise.

`FairSpec` of `AsyncLogger` is weakly fair to each worker (a transaction ends by its 10 s
deadline, `logger.go:114`, and tickers tick) and to main once it has been told to stop
(`Shutdown` ends by its 15 s). No handler has to finish, no signal has to come, and the choice
between the ready branches of `select` is not fair: weak fairness of the worker as a whole is
enough, because there are finitely many entries.

`FairSpec` of `Gateway` is weakly fair to each request that has been looked up and to each
checker: Redis calls have 5 ms, the upstream 30 s (`proxy.go:37, 75`). Nothing makes a request
arrive, a script run late or Redis come back. `LoadGenerator` is weakly fair to main and to each
worker, whose HTTP client has a timeout. `Dashboard` is fair to the logger's flushes, the
browser's intervals and each call under way; the user and the server are free, and `Repairs`
says what follows if both leave the page alone.

### What the violations show

Each one is a disagreement between the code and its own documentation; `PROJECT.json` quotes
both sides under `findings`.

* `sw_apart`: nginx's configuration says accuracy does not depend on the instance. The scores
  are the gateways' own clocks, so a gateway that is ahead purges calls early. `sw_loose` and
  `AdmissionsBounded` say what is true instead: accuracy up to the delay and twice the error.
* `al_poison`: every approved request must be logged, says `inst.txt`; one entry PostgreSQL
  refuses takes its whole batch with it.
* `gw_panic`: two findings in one run. `Allow` falls back to the local limiter, says its
  comment; after a start without Redis there is an instant in which it can panic instead
  (`luaSHA`, above). And the access log logs every request, says its comment; it writes its line
  after the handler returned, not in a `defer`, so a request that panics, answered with a 500 by
  `Recovery` outside it, leaves no line.

## 4. The proofs

| Theorem | Says | Inductive invariant |
|---|---|---|
| `RateLimitSafe` | of the abstract specification alone: no interval of `MinWindow - Slack` sees more remembered admissions than `MaxLimit` | `Promised`: `TypeOK`, `Decided`, `WindowBound` |
| `AccountingHolds`, `SlidingWindowTyped` | the sorted set stands for exactly the calls it should | `TypeOK`, `Timely`, `Accounting` |
| `ProcessMembersNeverShared` | one process never builds a member twice | `Numbered`: besides, no sequence number used exceeds `seq` |
| `ScriptImplementsRateLimit` | `DistinctSpec => RateLimit!Spec` with slack `MaxDelay + 2 * MaxSkew` | the same as `AccountingHolds`, and `MembersDistinct` |
| `AdmissionsBounded` | hence `WindowBound` for the script | from the two above |
| `BreakerTyped`, `BreakerHasOneGuardian`, `BreakerClosesAfterPing`, `BreakerActsAtThreshold` | the safety of the breaker | `TypeOK`, `OneGuardian`, `ClosersPinged` |
| `BucketsTyped`, `CleanupGivesNothingBack` | a bucket is never overdrawn; what is deleted is full, but for the tokens taken meanwhile | `TypeOK`, `Underway`, `Private`, `Marked`, `Doomed` |
| `BucketsKeepTheRate` | between any two of its admissions a bucket gives at most its limit and the earnings of the time between, to requests of its row only | the above, `OwnRow`, `Paid` and `BucketBound` |
| `EntriesConserved`, `SizesRespected`, `ShutdownDrains` | the safety of the logger | `TypeOK`, `Conservation`, `WithinSizes`, `Draining` |
| `LoggerTyped`, `StatsAccount` | the statistics never run ahead and add up in the end | the above, `Uncounted` and `Tallies` |
| `GatewayImplementsBreaker`, `GatewayHasOneGuardian` | every step of a gateway is one of its breaker's or leaves it alone; hence the breaker's invariant holds in it | none: step by step |
| `GatewayTyped`, `AdmissionsPaidFor` | whoever is admitted holds a place or a token; places and tokens keep to the limits | `Shape` (`Positions`, `Decisions`, `Buckets`, `Places`, `Limits`), `WindowFits`, `TokensKept` |
| `DecisionsLogged`, `RepliesMatchEntries` | one true entry per decision, and the reply that goes with it | `Shape`, `Entries` |
| `LimitsTyped`, `ToldLimitsHold` | the limit an administrator was told is the one in force | `UpsertsFormed`, `LookupsFormed`, `Settled`, `Expected` |
| `SeedsComeTogether` | seed rows come together, if no upsert asks for the seeds' own limit | the above and `SeedsTogether` |
| `TablesBeforeService`, `NotAllFatal` | tables are there for whoever saw PostgreSQL; not every gateway ends | `TablesInv`; `RaceInv` |
| `LoadTyped`, `ReportComplete` | the report counts every request once, its latencies are those of the allowed ones | `TypeOK`, `JobsCounted`, `LatenciesKept`, `Outcomes`, `Phases` |
| `PercentilesHold` | a percentile has at least its share of the latencies at or below it, and less below | the same |
| `DashboardTyped` | no row is committed before it is stamped; answers keep their form | `TypeOK` |
| `ViewsAgreeAlways`, `MinutesAreWhole` | trend, summary and clients add up; a minute that begins within the range is shown whole | `TypeOK` |

They hold for any number of gateways, calls, rows, requests, checkers, entries and workers and
any sizes, under the named assumptions of each module (`SlidingWindowAssumption`,
`BreakerAssumption`, `LocalLimiterAssumption`, `LoggerAssumption`, `GatewayAssumption`,
`ClientLimitsAssumption`, `LoadGeneratorAssumption`, `DashboardAssumption`), which TLC evaluates in every run (`RateLimitAssumption` is proved of the
instance of `RateLimit`, `RateLimitApplies`): finitely many calls or entries, limits and windows that are natural numbers, clock errors
within `MaxSkew`, a positive threshold, stalls short enough for the idle time, a logger that has a worker, a channel and a batch size.

**The sliding window.** `Accounting` relates the sorted set to the calls: each counted call is
in the set with its own stamp and the key outlives its smallest window, or it is so old that no
window reaches it (`Outdated`); and each member stands for a counted call. `Timely` bounds the
distance between stamp, sending and running, without which the purge by one call's clock says
nothing of another's. The same two facts are kept for the snapshot on disk, or a crash would
break them. The step of an admission then needs two counting lemmas: `RoomMeansRoom` maps the
recent calls into the kept members, one to one because members are distinct, so room in the set
is room in the abstract window; `NoRoomMeansFull` maps the kept members into the recent calls,
so a full set is a full abstract window. Every other step stutters, ticks or forgets.

**The breaker.** `OneGuardian` is inductive but for the claim that the checker that raises the
flag has had an answer since it fell; `ClosersPinged` supplies it.

**The buckets.** Why is an idle bucket full? Because a window after its last token it is
(`Contents`), and the last token is at most `2 * MaxStall` younger than `lastAccessed` says
(`Marked`): a request takes its token up to one stall after it touched the bucket, and a slower
one may meanwhile have set `lastAccessed` back by another. Five windows leave room for that.
`Doomed` then carries the account from the look to the delete, and `Private` says that a bucket
not yet stored has no other user, so that one stored in between is full as well.

How many requests does a bucket admit in a stretch of time? `BucketBound` asks it of every two
admissions, and is not inductive: it says nothing of the tokens left. `Paid` keeps a balance
from each admission on: what the bucket has given since, and what it still holds, is at most a
full bucket and the earnings up to its `last` (`Budget`). Refilling raises both sides alike,
taking a token moves it from one summand to the other, and the newest admission bounds its
pairs with all earlier ones. `OwnRow` says that the bucket of a request is one of its row,
although rows change while requests are under way.

**The logger.** `Draining` adds to `Conservation` how far the shutdown is: a worker in its last
flush has seen the channel empty after `quit` was closed, so whatever is in it now comes from a
handler in `late`. For the statistics, each counter lags behind the fate of the entries by the
ones at a flush that has ended and is not counted (`Counting`), and by the drops not counted
(`Dropping`); `Uncounted` says that no two workers have the same entry to count, so what is
counted later is exactly what is missing now (`Tallies`).

**The gateway.** The refinement needs no invariant: each action of `Gateway` conjoins the
breaker's own. That lets `GatewayProofs` instantiate `CircuitBreakerProofs` and take over
`OneGuardian` and the types of the breaker's variables rather than prove them again. For the
spending, the place of a request in `Allow` says what it may hold: while it fails over
(`Failing`) it may have a place nobody has told it of, when it is admitted without a bucket it
has one (`Places`). `TokensKept` is an account of each bucket, and holds because a request is
decided once (`Decisions`) and a bucket is full when it is made and nobody's before
(`Buckets`). The window grows only where there is room by the limit of the one who asks, so it
fits the larger of the two.

**The table.** `Settled` is the heart: as long as nothing is pending for a client, what was
told is in its row. The seeds cannot break it, because one row that is there fails the whole
`INSERT` and a row that was told is there; a late statement cannot, because it is pending. For
the starts, `RaceInv` keeps a witness: the gateway that created the tables is past the race and
can never lose it again, started anew or not.

**The load generator.** `JobsCounted` follows the jobs: what was sent is in the channel, with a
worker or counted, and what is counted as sent has its outcome counted too or is about to. For
the latencies, which each worker keeps for itself, a sum over the workers would need induction;
`LatenciesKept` counts the *places* of all their lists instead, pairs of a worker and an index,
so a `Tally` adds one element to a set and a round of `Merge` a row of pairs that is disjoint
from the rows before it (`Phases`). At the end the rows merged are all there are, since whoever
is no worker of this run kept nothing. `Ranked` is about the operators alone: in an ascending
sequence the first `k` elements are no larger than the one at rank `k`, and only those before it
smaller; with `k` the rounded-up rank that is what a percentile means.

**The dashboard.** That the points of an answer add up is again a sum without an end known in
advance. `Total` counts it as so many marks on each line, a set of pairs; `SumOfGroups` glues the
one-to-one maps from the marks of each line to the rows of its group into one from all marks to
all rows, which takes that no row is in two groups and none is in no group. The rows of a day are
such groups, and so are the rows of a client. The live view is whole because a row of a minute
is no older than its beginning (`UnitBegins`).

**Only model-checked.** The liveness properties (`Recovers`, `Opens`, `EntriesSettle`,
`ShutdownEnds`, `Responds`, `Finishes`, `Repairs`), which are out of the prover's reach.
`DistinctSpec` assumes that two *processes* do not build the same
member: `memberSeq` starts at 0 in each, so it takes the same nanosecond and the same number.

## 5. What is not modelled

* A listener that cannot bind, connection pools, HTTP headers other than those the chain stamps,
  JSON, wording. A preflight request to the admin server is answered by `CORS`, outside
  `InstanceHeader` (`main.go:80`), and carries no instance; `Gateway` is the proxy server.
* Averages and percentiles of the analytics queries, which PostgreSQL computes; `ListClients`.
* The presentation of the dashboard, the mock API, `httputil`.
* nginx. It may send a request to any gateway that serves, and the models of what gateways share
  allow that. By default it also repeats an idempotent request at the other gateway when a
  connection is closed without an answer, which is what a "cut" reply looks like to it: such a
  request is decided, forwarded and logged twice. Each of the two is a request of `Gateway`.
* Scripts repeated by the Redis client: its retries back off for 8 ms or more while the
  deadline of a call is 5 ms (`proxy.go:75`).
* `LOG_BUFFER_SIZE=0`, which gives an unbuffered channel, and the zero or negative settings
  `config.go` accepts although the code cannot run with them: excluded by the
  assumptions of the models and listed as a hazard.
* `CIRCUIT_BREAKER_LIMIT`: read by `config.go:72` and never used; the threshold is 3 in
  `limiter.go:78` and a constant of the model.
* An unknown client gets 60/60, written in the code (`database.go:222`), an unreachable database
  the configured defaults: both are in `ClientLimits`, and nothing says which is meant.

## 6. Plan

Done, in this order: `RateLimit`, `SlidingWindow`, `CircuitBreaker`, `AsyncLogger`,
`LocalLimiter`, `Gateway`, `ClientLimits`, `LoadGenerator`, `Dashboard`, and the proofs of all
of them. Left:

1. Two gateways behind nginx, with the request it repeats.
2. Of the logger, the gateway and the table, what the models could promise with more history:
   the order of the entries of one worker, the replies of one client across two limits.
