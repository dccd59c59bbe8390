# Verification of the currency hedge calculator

TLA+ models, TLC configurations and TLAPS proofs for the exposure service in this repository:
an HTTP API (Go, echo) that prices authorized payments at the current FX rate, says what
waiting to capture them has cost, and ranks them. Paths below are relative to `src/`.

## 1. Inventory

`main.go` loads the settings, wires the application (`app.go`) and runs it until a signal. A
request passes through the middleware in the order of `app.go:67-76`, outermost first:
recover, request id, observability, body limit, timeout, CORS, API key, rate limit,
idempotency, request log, then the exposure handler, which calls the exposure service, which
calls the rates provider once or twice for every transaction.

| component | state it keeps | operations | what makes it correct |
|---|---|---|---|
| Idempotency middleware (`internal/framework/server/middleware_idempotency.go`) | records by method, path and key, under a mutex | look up, evict, record, complete, delete, replay | one execution per key; a replay is the answer to the same key and payload; keys are released |
| Request timeout (`middleware_security.go:29`) | none; the handler goes on in its goroutine | answer 503, cancel the context | the late handler still completes its record and nothing else; what is cached is served in time |
| Rate limiter (`middleware_security.go:67`) | token bucket and last use by client, under a mutex | admit, refuse, evict idle clients | budget per span of time; eviction gives no tokens back and takes none |
| API key, body limit, observability (`server`) | none | pass, answer, count | order of the layers; each answer counted as what it was |
| Rates provider (`internal/service/rates/client.go`) | none of its own | current rate (cache, primary source with retries, fallback source, expired cache), historical rate | order of the sources, retry budget, age of what is quoted as fresh |
| Quote cache (`cache.go`) | last quote by pair, with an expiry | get fresh, get any, set | a quote is of its pair, unaltered, never lost |
| HTTP connector, backoff (`http_connector`, `backoff`) | none | one GET; a delay; a wait that can be cancelled | which failures are final; delays as documented |
| Exposure service (`internal/service/exposure/service.go`) | local to a request | validate, price, judge, accumulate, sort, report | a whole report or none; sums that agree; verdicts that agree |
| Exposure handler (`handler.go`) | none | bind, map errors to status codes | the status tells whose fault it was |
| Transactions store (`transactions/store.go`) | a file, read on demand | list pending | none beyond the read |
| Metrics (`metrics/collector.go`) | counters, last 4096 latencies | count, snapshot | the counters reconcile; the percentile is of recent requests |
| Life cycle (`app.go`, `main.go`, `context`, `server.go:144-160`) | listener, error channel, signal | start, shut down | a signal ends the process; who is served in the grace period is not cut off |
| Configuration (`config`) | settings, read once | validate, normalise, hand to the constructors | every accepted setting takes effect |
| CORS, request log, logger, `runner.RunParallel` | none | - | not modelled, see section 5 |

The components interact by calls. What requests share is the idempotency store, the quote
cache, the rate limiter's table and the metrics; each is guarded by a mutex that is held for
one critical section at a time. What is hard:

* **between critical sections** of one request any number of others run: the idempotency
  record is looked up again after the handler; the cache is filled long after the miss; requests,
  latencies and errors are counted one after the other;
* **times go stale**: the clock is read before a lock is taken (idempotency, rate limiter), the
  staleness of a quote is computed when it is fetched, `now` is read before a loop of upstream calls;
* **the timeout** answers the client while the handler goes on, in the same response object;
* **upstream failures** are retried, waited for, replaced by a second source and by an expired
  quote, while the context may be cancelled at any point, all within one budget of time;
* **shutdown** waits for open requests no longer than a grace period; **a restart** forgets
  everything;
* **settings** are judged in two places, the validation and the constructors.

`PROJECT.json` lists each hazard at its line with the properties that watch over it.

## 2. Modules

| module | models | code |
|---|---|---|
| `IdempotencyContract` | what the middleware promises: a slot per key that is free, running or done, and the one verdict a request gets | abstract |
| `Idempotency` | the middleware under concurrent requests, with timeout and restart; implements the contract | `middleware_idempotency.go`, `middleware_security.go:29-38` |
| `TokenBucket` | what the rate limiter promises: a bucket per client that nothing but time and admissions changes | abstract |
| `RateLimiter` | the table of limiters that are created, marked and evicted; implements `TokenBucket` | `middleware_security.go:67-116` |
| `RatesProvider` | provider and cache under concurrent callers | `client.go`, `cache.go`, `connector.go`, `backoff.go:45-64` |
| `Backoff` | the delay of the retry loop in integers of a fixed width | `backoff.go:14-43` |
| `RequestBudget` | one request's transactions, each with its historical lookup, retries, waits, fallback and cache, against its deadline; extends `Backoff` | `service.go:154-197`, `client.go`, `backoff.go`, `middleware_security.go:29-38` |
| `Exposure` | one request to the exposure service and its answer | `service.go`, `handler.go`, `store.go` |
| `Metrics` | the window of latencies and the percentile of a snapshot | `collector.go:91-127` |
| `Pipeline` | the layers composed, with `TokenBucket`, `IdempotencyContract` and `Metrics` as instances | `app.go:67-79`, `middleware_security.go`, `handler.go` |
| `Configuration` | validation, and what the constructors make of the settings | `config.go`, constructors |
| `Lifecycle` | start, listener, signal, shutdown, exit; with `Configuration` as instance | `main.go`, `app.go:85-110`, `signal.go`, `server.go:144-160` |
| `IdempotencyProofs`, `RateLimiterProofs`, `PipelineProofs`, `LifecycleProofs`, `RatesProviderProofs`, `ExposureProofs`, `RequestBudgetProofs` | theorems about the module in their name | |
| `SumTheorems` | lemmas about induction, and about sums of integers over finite sets, that the proofs cite | |
| `MC...` | constants of the instances that TLC checks | |

Operators with the comment "Mutant:" are plausible mistakes in the definition that follows
them. They are not part of the specifications; each property is known to fail when one of them
takes the place of its definition.

### Idempotency

`store[id]` points to the request that created the record and `rec[r]` is that record: records are
heap objects that outlive their place in the map, which is what the late reads are about. `Arrive`
is everything up to the clock reading of line 85, before the mutex. `Execute`, `RefuseDuplicate`,
`RefuseInProcess` and `BeginReplay` are the outcomes of the first critical section (87-135), each
with the eviction of line 88. `Replay` is the unlocked read of line 125. `FinishOk`, `FinishFailed`
and `FinishUnwritten` are the return of the handler together with the second critical section
(137-161), by what the recorder saw: a 2xx or 3xx, a 4xx or 5xx, or nothing because the chain
returned an error (the response object then still says 200). The handler's own steps touch none of
this state. `Timeout` is the 503 of the timeout middleware or a client that is gone, `Deliver` the
answer that is sent otherwise, `Restart` a new process with an empty store: after it a key may be
executed again, which the contract permits, since the state is in memory (README.md:198). A response is
named by the request that computed it; headers are part of it.

`Tick` lets time pass only while no request between its clock reading and its last critical
section is older than `MaxLag`. The code has no such number, but the request timeout (8 s by
default) cancels the context of every upstream call and every wait, so that the handler ends
soon after. Where the properties need it, `MaxLag <= TTL` is assumed: 24 hours by default.

### RateLimiter

`entries[c]` is the entry of a client, its bucket (golang.org/x/time/rate, external) as the
level it had at the time it was last charged. `Arrive` reads the clock before the mutex; `Limit`
is the whole critical section: `Touched` (find or create, mark as seen at the earlier reading),
`Evicted` (every entry whose mark is older than two windows), `Paid` (Allow, by the present
time). Time is counted so that a token costs `Interval` ticks, the integer division of the code,
and one tick refills one; for that a window must be at least as many nanoseconds as there are
requests in it. `MaxLag` bounds the wait for the mutex. `MaxLag <= Window` is assumed, by
default a minute for a few map operations per waiting request: with more, an entry could be
evicted that was charged less than a window ago.

### RatesProvider

Every caller makes one call. `Call...` is validation and cache lookup; `PrimarySucceeds`,
`PrimaryFails`, `Retry` and `AbandonRetry` are `fetchWithRetry`; `FallbackSucceeds` and
`FallbackFails` line 113; `Store` the `Set`; `StaleLookup` lines 119-130. `Historical...` is the
retry loop of its own that the historical lookup has. `Cancel` cancels a caller's context at
any point; an upstream call issued afterwards is `doomed`. The answers of the two upstream
services are nondeterministic: any age for the primary source and the fallback, which are told
apart from the timestamp the service sees (`published`); rates themselves are not modelled, only
the pair that they are of. Day 0 is a Sunday. The timestamp of an answer may lag the clock
when it is stored by `MaxLag`.

### Backoff and RequestBudget

`Duration` is the loop of `backoff.go`: doubling in two's complement of `2 * Limit` values, with
the cap tested inside. `Exponential` is the closed form in unbounded integers, with the power of two
(`Power`) as a recursive function, which can be reasoned about. `RequestBudget`
uses it for the waits of one request, transaction by transaction, as the loop of
`CalculateExposure` takes them. One without an authorization rate starts with the retry loop of the
historical source (`loop`), which ends the request with an error if it gives up. Then come the cache
(`Lookup`), the retry loop of the primary source (`Answered`, `CallFails`, `Wait`, `GiveUp`), the
fallback (`FallbackFails`) and the expired quote (`StaleLookup`). An expired quote that is served
stays expired, so that the next transaction of the pair goes through all of it again; a hit of
`Lookup` is therefore possible but not certain for every pair of `cached`. Calls and waits spend time
up to the deadline (`Spend`), at which the context cancels what is in hand (`Overdue`), the middleware
answers (`Expire`) and the calculation goes on in its goroutine without an effect for the client.
The assumption on the settings is what the validation accepts, with maxima below a quarter of the
range of a duration (146 years). Left out are transactions in one currency, which ask no source, and
other requests that fill the cache meanwhile: they could only spare this one work.

### Exposure

The request moves through `Begin` (or one of the refusals), then for each transaction
`Validate`, `HistoricalRate` if the payload has no rate, and `CurrentRate`, which prices, judges
and accumulates; `RateFails` is the early return of either call, `Report` all that follows the
loop. `Tick` interleaves with the calls, so that quotes can be younger than `now` and
`generated_at` later. The provider may answer any of `Rates`, with any age up to `Oldest`, with
or without its own stale flag: this includes every quote that `RatesProvider` allows.

Numbers are exact: amounts and percentages are integers counting 1/`Scale`, and every rate
divides `Scale` (an assumption that TLC evaluates), so each quotient of the code is an integer.
Rounding is to a multiple of `Unit` instead of 1/10000, half away from zero as `math.Round`
does; properties about rounded values state how far rounding can move them. Floating-point
error, overflow to infinity and NaN are therefore outside the model. `sort.Slice` is any
permutation that its comparison allows; iteration over the maps adds nothing to that, since the
groups are sorted afterwards. Two refusals of the code cannot happen as `app.go` wires it (a
provider without historical rates, no transaction source) and are left out. The
`/v1/exposure/calculate/test` endpoint is the request with no transactions and `useTestData`.

### Pipeline and Metrics

A request is in two goroutines: `outer` is observability, body limit and timeout, `inner` the layers
from the API key on, which go on after a timeout. `status[r]` is the response object that both use,
`answer[r]` what the client is sent. `Receive`, `Return` or `Timeout`, `AddLatency` and `AddError`
are the outer steps in order; each of the last two is a critical section of the collector. `After`
is the order of the `Use` calls. The rate limiter and the idempotency middleware appear as the
abstract modules that the detailed ones implement, over a time in which nothing is refilled and
nothing expires: `Limiter!Admit` with `Burst` tokens for one client, `Keys!Execute`, `InProcess`,
`Replay`, `Complete` and `Abort` with one payload. A request that no route takes ("nowhere") passes
all layers and ends in the router's error, which echo writes after observability has seen it. If it
is a POST ("lost", with the records `LostIds`) it is subject to idempotency like any other, takes a
record, and the router's error completes that record as an empty 200, which the next POST with the
key is sent. The body limit refuses a length that is declared (413); a body that turns out too long
when idempotency reads it is refused there (400), after its token has been spent. `Metrics` adds the
window: `AddLatency` keeps the last `Window` (the process has served the requests of `Earlier`
before), `Snapshot` (a request to `/metrics` that runs among the others) takes, of any order that
the sort can leave a copy in, the element at the truncated index.

### Configuration and Lifecycle

`Load` refuses or accepts the settings and normalises the list of currencies, `Wire` hands them
to the constructors, with every default and every silent "install nothing" of theirs. `Kept` is
the list after each iteration of the normalisation. Numbers
are integers, or `NaN` where the type is float64 (strconv.ParseFloat accepts it). `Lifecycle`
drives it: `Load`, `BootFails`, `Boot`, then the goroutine of the listener (`Listen`,
`ListenerBreaks`), `Signal`, the `select` of `App.Run` as two actions of which either may be
taken when both are ready (`SeeSignal`, `SeeFailure`), and `Shutdown`, which returns when no
request is open (`Drained`) or when the grace period is over (`GraceOver`). Requests are
accepted as `open`, served within the request timeout (`Budget`), or `stalled`: the client does
not send or read, and no timeout of `http.Server` is set (`server.go:60`). A signal before
`App.Run` has the default effect.

## 3. Runs

| run | instance | what it shows |
|---|---|---|
| `idempotency_safety` | 3 requests, 1 key, 2 payloads, TTL 2, lag 2, time 4, 1 restart | exclusion, retention, correct replays, released keys |
| `idempotency_refinement` | 2 requests, 2 keys, fair | every step is one of `IdempotencyContract` or a stutter; keys are released and requests answered |
| `idempotency_unwritten` | 2 requests | **violation**: an unwritten response is replayed as an empty 200 |
| `rate_limiter` | 4 requests of 2 clients, 2 per window of 4, lag 4, time 10 | the budget is neither exceeded nor withheld; the table implements `TokenBucket` |
| `provider_safety` | 2 callers, 2 currencies (a third unsupported), 2 attempts, time 4 | order of sources, retry budget, integrity and age of quotes, counters |
| `provider_historical` | 1 caller, 3 attempts, Friday to Monday, fair | business days; every call returns |
| `provider_missing_pair` | | **violation**: a pair unknown upstream is answered as an outage |
| `provider_fallback_age` | | **violation**: an old fallback rate is returned as fresh |
| `request_budget` | default settings, two transactions of one pair, three of two pairs, and every strategy up to 31 of 64 | no timeout if the transactions fit one after the other, no error if all pairs are cached; delays are exponential; calculations end |
| `exposure_safety` | 19 requests of up to 4 transactions, 2 rates, quotes up to 2 old with an SLA of 1, time 3 | whole reports, agreeing sums, order, agreeing verdicts |
| `pipeline_accounting` | 3 requests, 2 keys (one of no route), 2 tokens, window of 3 of which 2 are filled | refusals leave no trace; metrics reconcile; the percentile is of recent requests |
| `lifecycle_shutdown` | 2 requests, grace 2, budgets of 1, 3 and 5, 70 settings, fair | clean exits serve all, failures have a cause, settings take effect, a signal ends the process |

**Bounds.** Two requests already show every pair of critical sections of the idempotency middleware
in every order; the third is what a stale record needs (one that created it, one that replaced it,
one that replays). One key suffices because records of different keys meet only in the eviction,
which the refinement run covers with two. `TTL = MaxLag = 2` is the tightest case that `MaxLag <=
TTL` admits, and time 4 lets a record expire and its successor run. The rate limiter needs one
client whose entry is evicted and made again and another whose request evicts it: two requests spend
the first one's bucket, the third evicts, the fourth would profit; time 10 is past two windows of 4,
and `MaxLag = Window` is again the tightest case. Two callers suffice for the cache: what one caller
can see of others is the item they stored last. Two attempts have a first and a last, a third adds a
middle one (`provider_historical`). `request_budget` has the default settings in tenths of a second;
two transactions of one pair, and three of two pairs of which two have no rate of their own, each
with a timeout that is just enough and with one that is a unit short; and eight attempts so that
every strategy reaches its maximum within the width. Exposure requests have up to three valid
transactions, so that a group of two, another group and ties of the ranking occur; the rates give
losses from 9 % to 73 % (one of 50 % exactly at a threshold), none, and gains of 9 % and 82 %.
Quotes may be fresh, as old as the SLA, or older without a flag, so that the test of the age
decides. Three requests in the pipeline give a replay or a conflict and a refusal by a limit of two,
and add to two earlier latencies: the window of three fills, then drops the oldest, and the rank is
0 and 1. In `lifecycle_shutdown` budgets lie on both sides of the grace period, and the settings are
those that differ from usual ones in one place. `MaxTime`, `MaxRestarts`, `MaxAge` and `Oldest`
bound TLC only.

Runs with `CHECK_DEADLOCK FALSE` are those in which every request is issued once, so that the
system stops when all have been answered. `Exposure`, `RequestBudget` and `Lifecycle` have an
explicit final step instead.

**Fairness.** Weak fairness of what a goroutine does next: Go schedules every runnable
goroutine, mutexes are held for finite sections, upstream calls have a client timeout and waits
a timer (`Idempotency`, `RatesProvider`, `RequestBudget`). In `Lifecycle` the main goroutine
takes one of the ready cases of its select and returns from `Shutdown`, time passes, and a
request that has spent its budget is answered. No fairness for clients, cancellation, restarts,
signals or the listener, and none for timeouts or the clock in `Idempotency` and `RatesProvider`.

**Findings.** The three violations are disagreements between the code and its documentation,
quoted in `PROJECT.json`: README.md:151 (idempotency), `provider.go:10` and README.md:158
(freshness). Divergences that are visible in the models without a run of their own:

* With `SERVER_IDEMPOTENCY_TTL` below the duration of a request, the eviction of
  `middleware_idempotency.go:171` removes a record in flight and the key is executed again, where
  README.md:153 promises 409. `config.go:101` accepts any positive TTL; the models assume
  `MaxLag <= TTL`.
* `types.go:113` calls `recommendation` a "Backward compatible alias" of `next_action`, but
  `service.go:208` decides it by the exposure alone: an expired authorization can be
  `capture_now` in one while the other asks for a new authorization. `Exposure` has both as in the code.
* README.md:28 promises "falling back to secondary/cached quotes when live calls fail". By
  default a request has 8 s, an upstream call 5 s, and there are three attempts: when the primary
  source hangs, the deadline passes in the second attempt, and the client gets the 503 although
  a quote is cached. The budget is that of the whole request, and every transaction spends its
  own part of it: an expired quote that is served is not renewed (`client.go:119-127`), so the next
  transaction of the pair waits for both sources again, and so does each historical lookup for its
  own. `CachedQuoteIsServed` says when the budgets suffice.
* A timeout is counted as an error only if the response object has an error status when
  observability reads it (`middleware_security.go:130`): the 503 is sent past it.
  `MetricsReconcile` bounds the count by this.
* The validation says "must be >= 0" (`config.go:120`, `:126`), and accepts NaN.
  `SettingsTakeEffect` holds with it: the NaN takes effect, and no transaction is high risk.
* The 95th percentile is the element at a truncated index (`collector.go:110`): for small windows
  the element below the nearest rank.

## 4. Proofs

Each theorem holds for every number of requests, keys, clients and payloads and every value of
the bounds, under the assumptions named in the modules.

**`IdempotencyProofs`.** Without any assumption on the TTL: `TypeCorrect` and `InFlightCorrect` (a
record is in flight only while its creator runs). The invariant is `BaseInv`: a record describes
its creator, and what the store points to is a record filed under the creator's key.

Under `MaxLag <= TTL`: `OneRunPerKeyCorrect`, `ReplayCorrect`, `KeptCorrect`,
`ResponseImmutableCorrect`, `NoReexecutionCorrect` and `Refinement`. The properties are not
inductive by themselves. `IInv` adds to `BaseInv`:

* `BoundedLag`: clock readings are past, and recent for requests still in the middleware;
* `RunnerOwnsKey`: the record under the key of a running request is its own, in flight. This is
  the heart: eviction needs a record older than the TTL by a reading that is at most the clock,
  and the record of a running request is at most `MaxLag` old (lemma `EvictionIsOld`);
* `CompletedByCreator`: a completed record holds its creator's response. It follows from
  `RunnerOwnsKey`, because the second lookup then finds the request's own record;
* `ReplayerMatches`, `ReplayedMatches`: what a replaying request points to was completed for its
  key and payload, at most a TTL before, and stays so.

One lemma per group of actions shows that a step preserves `IInv`; the action properties and
the refinement use `IInv` in the states of the step.

**`RateLimiterProofs`.** `InvariantHolds`, `Refinement`, `BudgetRespectedCorrect` and
`RefusedOnlyOverBudgetCorrect`, under `MaxLag <= Window`. `ChargedByMark` says that a bucket was
charged at most `MaxLag` after the time its entry is marked with; an entry that is evicted by a
reading of the clock two windows later has not been charged for a window, is full, and equals
the one that would replace it. This makes eviction a stutter of `TokenBucket`; a tick refills.
`BudgetRespected` needs, for every admission, that the admissions since
then fit with what the bucket holds now (`WithinBudget`); `RefusedOnlyOverBudget` the converse: a
bucket that is not full has been spent by the admissions of some span up to now (`AllSpent`).

**`PipelineProofs`.** `RefusedLeavesNoTraceCorrect` from `FlowInv`: a request has touched only the
layers it has reached, the statuses 401 and 429 are final and were set there, nobody but echo writes
404, 413 and 503, and what was answered is what the chain returned. One lemma covers every step of
the outer goroutine and one every step of the inner (`OuterStep`, `InnerStep`).
`MetricsReconcileCorrect` adds `CountInv`: each counter is the size of the set of requests that have
passed its step, and what the `Earlier` ones have left (`EarlierIsCounted`).
`PercentileOfRecentCorrect` adds `WindowInv`: the window is the end of the history, for dropping
what is too old after each addition is dropping it in the end (`LastOfMore`), and no addition
changes what the last snapshot covered. The rank of the element that a snapshot takes follows by
counting: the samples below it stand at positions before its own, and those at and before its
position are not above it (`RankOfOrdered`), whichever order the sort leaves equal latencies in.

**`LifecycleProofs`.** `CleanExitServedAllCorrect` and `FailureHasCauseCorrect`. The invariant relates
the age of requests to what is left of the grace period: nobody is accepted while the server
drains, so a request that is open has been so since the shutdown began (`OpenAllAlong`).
`SettingsTakeEffectCorrect` says that validation and constructors leave no value between them, for
every environment. `SettingsInv` keeps what was accepted until it is wired; each test of a
constructor is then one of the validation, up to the list of currencies, which is normalised twice:
that the first pass leaves a list without blanks and repetitions is proved by induction over its
iterations (`KeptIsClean`). Assumed are the fields of a setting, that durations are integers and
`NaN` is none (`EnvironmentsAssumption`), and that the default list of the code has neither blanks
nor repetitions (`DefaultsAssumption`).

**`RatesProviderProofs`.** `FallbackOrderCorrect`, `RetryBudgetCorrect`, `CachePristineCorrect`,
`QuoteMatchesPairCorrect`, `NotStaleBoundCorrect`, `HistoricalBusinessDayCorrect`,
`NoRetryAfterPermanentCorrect` and `OnceCachedAlwaysServedCorrect`, for every number of callers and
attempts. `CacheInv`: what is cached is an undegraded quote of its key, from the primary source or
the fallback, and expires within `SLA + MaxLag + CacheTTL` of its timestamp. To this come four parts
about each caller: what it asks for (`Asked`); its calls are its attempts, and the fallback is
called at most once and only after it gave up (`Counted`); what it is about to store is recent or
flagged (`ToStore`); and what it returned is of the kind its sources allow (`Returned`). Callers
meet only in the cache, so that a step can disturb no part but its own caller's (lemma `StepOf`).
That `None` is no item, result or failure is assumed (`NoneAssumption`).

`MetricsAccountCorrect`: the counters of hits, misses and failures are sums over the callers, and a
step adds to them what it adds to the part of its own caller (`StepAccounts`). A hit is known
afterwards by a fresh quote that was returned without an upstream call (`FromCache`), which no caller
has before the step that ends its call (`NotServedYet`). It needs that the calls of a retry loop are of
the loop's own source (`OwnLoop`), and finitely many callers (`ProviderAssumption`).

**`ExposureProofs`.** `AllOrNothingCorrect`, `OneInstantCorrect`, `RankingIsWorstFirstCorrect`,
`TrendMeansHighRiskCorrect`, `NoUrgencyWithoutLossCorrect` and `UrgencyOrdersLossesCorrect`, for every
set of requests, rates, spread, scale and rounding unit, under `ExposureAssumption` and
`RequestAssumption` (the types of what is posted). The invariant of the loop says that each item
follows from its transaction and from `now` (`ItemsJudged`). `NoUrgencyWithoutLoss` has an exception
that the proof finds: at a threshold of 0 a transaction whose value has not changed satisfies
`exposurePercentage <= -threshold` (`service.go:207`), and is recommended for capture now. The
invariant further says that the group of a pair counts
exactly its flagged items, the sum of its percentages being above as many times the threshold if
there are none (`PairsTally`): that is why the second test of the trend never decides. The report is
made in one step from the items, so each property of it is a consequence of the invariant in the
state before.

`AggregatesReconcileCorrect` takes the exact sums first (`TallyInv`): the totals, the groups by
currency and the pairs have grown, with each item, by what the item says, wherever it was put
(`SumOfPut`). The report then rounds each term: n terms move a sum by at most n half units
(`SumsDiffer`), and sorting renames the terms of a sum without changing it (`SumOfRenamed`).

**`RequestBudgetProofs`.** `DurationCorrect`: for every strategy whose doubled maximum can be
represented, every attempt and every width, the loop returns the exponential delay, capped. By
induction over its iterations the delay in two's complement is the exact one as long as none has
reached the maximum (`DoubledIsPower`), and doubling what is below the maximum cannot wrap.
`DelayIsExponentialCorrect` follows for the waits of a request. `CachedQuoteIsServedCorrect`:
`InTime` bounds, for each step of the work on a transaction, the time that can have passed since the
request began by the transactions before it and the calls and waits it has had (`LoopsAddUp`,
`TransactionsAddUp`); if the worst case of all transactions, taken one after the other, fits into
the timeout, the deadline is never met. `ErrorHasCause`: a calculation ends in an error only in a
historical lookup, or for a pair that the cache has no quote of.

**`SumTheorems`.** The induction theorems of the library cannot be used, since they take an
operator as a parameter. Induction is done over sets instead: a set of numbers that holds 0 and the
successor of each member holds all of them (`NumbersByInduction`, by the least member of the
complement), and a family of subsets of a finite set has a smallest one (`SmallestSubset`). From
these come the existence of the recursive functions behind `SumFunctionOnSet`, `Doubled`, `Power`
and `Kept`, and with it their defining equations.

Each of these invariants was checked with TLC on the small instances before it was proved. Every
invariant and action property of the passing runs is a theorem. Only model-checked is liveness
(`KeyReleased`, `EveryoneAnswered`, `EveryCallReturns`, `CalculationEnds`, `SignalEndsProcess`), which
is out of the prover's reach, as is what rests on `ENABLED`: that a snapshot or a report is never
blocked because no order of its elements exists is seen in the runs, where both happen in every
size. The refinements into `TokenBucket` and `IdempotencyContract` are proved; that
`Pipeline` may use the abstract modules for the detailed ones rests on them and is not a theorem
of its own.

## 5. Not modelled

* CORS (echo middleware: no state; it stands between timeout and API key and answers preflight
  requests), the request log, the logger.
* `runner.RunParallel`: nothing in the repository calls it.
* How echo limits a body, buffers a response and pools its contexts. `Pipeline` keeps one
  response object per request as long as either goroutine runs.
* Panics. None is known to be reachable in a handler; one would leave its record in flight until
  the TTL, since `Recover` stands outside (`server.go:55`).
* The path that needs no key is compared with "/healthz", whatever `SERVER_HEALTH_PATH` says
  (`middleware_security.go:48`); the model has one health route, the usual one.
* A rate limit window of fewer nanoseconds than its requests (`Interval` 0).
* Floating point: rounding errors, overflow to infinity, NaN within the service.
* Parsing of the environment (caarlos0/env), the wire format of requests and upstream answers,
  deployment files, the OpenAPI document and the test data.

Several limits of the code have no property because nothing in the repository promises
otherwise: sums over several settlement currencies, two quotes of one pair in one report.

## 6. Plan

1. Idempotency: contract, middleware, proofs. *Done.*
2. RatesProvider. *Done, with proofs.*
3. Exposure. *Done, with proofs.*
4. RateLimiter refining TokenBucket. *Done, with proofs.*
5. Lifecycle with Configuration. *Done, with proofs of the safety properties.*
6. Backoff, RequestBudget, Metrics. *Done, with proofs.*
7. Pipeline. *Done, with proofs.*

To come: that every list has an order that a sort can leave it in (`SortedOrders` and
`RankedOrders` are never empty), and a theorem that the detailed layers may take the place of the
abstract ones in `Pipeline`.
