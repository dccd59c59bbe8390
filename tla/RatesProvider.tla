----------------------------- MODULE RatesProvider -----------------------------
(***************************************************************************)
(* The live FX provider (internal/service/rates) under concurrent callers: *)
(* cache, primary source with retries, fallback source, stale cache, and   *)
(* the historical lookup with its own retry loop.                          *)
(*                                                                         *)
(* The cache is the only state that callers share.  A caller holds its     *)
(* mutex for one map access at a time, so between a miss and the Set of    *)
(* what was fetched any number of other callers may miss, fetch and set.   *)
(* The context of a caller can be cancelled at any time: an upstream call  *)
(* that is issued afterwards fails, one that was issued before may succeed.*)
(***************************************************************************)
EXTENDS Integers, FiniteSetsExt

CONSTANTS
    Callers,        \* goroutines, each with one call to the provider
    Currencies,     \* currency codes, normalised
    Blank,          \* the empty currency code
    Supported,      \* FX_SUPPORTED_CURRENCIES
    None,           \* absence of a value
    MaxAttempts,    \* FX_RETRY_MAX_ATTEMPTS
    CacheTTL,       \* FX_CACHE_TTL
    SLA,            \* FX_QUOTE_FRESHNESS_SLA
    HistoricalDays, \* days that historical rates are asked for; day 0 is a Sunday
    MaxLag,         \* bound on the time from an upstream's answer to its Set
    MaxTime         \* bound on the clock, for model checking

ASSUME ProviderAssumption ==
    /\ IsFiniteSet(Callers)
    /\ MaxAttempts \in Nat \ {0}
    /\ CacheTTL \in Nat \ {0}
    /\ SLA \in Nat \ {0}
    /\ HistoricalDays \subseteq Nat
    /\ MaxLag \in Nat
    /\ MaxTime \in Nat
    /\ Supported \subseteq Currencies
    /\ Blank \notin Supported

VARIABLES
    clock,      \* time.Now().UTC()
    cache,      \* MemoryCache.items, by pair
    pc,         \* what each caller is about to do
    pair,       \* <<settlement, presentment>> that each caller asked for
    day,        \* the day a historical caller asked for
    attempt,    \* the attempt of the current retry loop
    doomed,     \* the upstream call was issued with a cancelled context
    cancelled,  \* the context of the caller is cancelled
    fetched,    \* quote that was fetched and not yet stored, and when
    lastErr,    \* last error of the retry loop
    result,     \* what the caller was returned
    calls,      \* upstream calls made for the caller, by source
    collector   \* cache and upstream counters of metrics.Collector

callerVars == <<pair, day>>
vars == <<clock, cache, pc, pair, day, attempt, doomed, cancelled, fetched, lastErr, result,
          calls, collector>>

--------------------------------------------------------------------------------
(* Types *)

\* Without a configured set every code is accepted.
Allowed == IF Supported = {} THEN Currencies \ {Blank} ELSE Supported

Pairs == {p \in Allowed \X Allowed : p[1] # p[2]}

Sources == {"live", "fallback", "historical", "identity"}

\* published is the time the rate is of; the service sees the timestamp alone.
\* degraded is the suffix "-stale-cache" of the source.
Quote == [pair : Currencies \X Currencies, timestamp : Nat, published : Int,
          source : Sources, stale : BOOLEAN, degraded : BOOLEAN]

Item == [quote : Quote, expiresAt : Nat]

Failures == {"permanent", "transient", "missing", "cancelled"}

Results == [kind : {"quote"}, quote : Quote, at : Nat]
           \cup [kind : {"unsupported", "unavailable", "cancelled"}]

ASSUME NoneAssumption == None \notin Item /\ None \notin Results /\ None \notin Failures

Fail(kind) == [kind |-> kind]
Return(q) == [kind |-> "quote", quote |-> q, at |-> clock]

TypeOK ==
    /\ clock \in Nat
    /\ cache \in [Pairs -> Item \cup {None}]
    /\ pc \in [Callers -> {"idle", "primary", "backoff", "fallback", "storing", "lookup",
                           "historical", "historicalBackoff", "done"}]
    /\ pair \in [Callers -> (Currencies \X Currencies) \cup {None}]
    /\ day \in [Callers -> HistoricalDays \cup {None}]
    /\ attempt \in [Callers -> 0 .. MaxAttempts]
    /\ doomed \in [Callers -> BOOLEAN]
    /\ cancelled \in [Callers -> BOOLEAN]
    /\ fetched \in [Callers -> [quote : Quote, at : Nat] \cup {None}]
    /\ lastErr \in [Callers -> Failures \cup {None}]
    /\ result \in [Callers -> Results \cup {None}]
    /\ calls \in [Callers -> [primary : Nat, fallback : Nat, historical : Nat]]
    /\ collector \in [hits : Nat, misses : Nat, failures : Nat]

Init ==
    /\ clock = 0
    /\ cache = [p \in Pairs |-> None]
    /\ pc = [c \in Callers |-> "idle"]
    /\ pair = [c \in Callers |-> None]
    /\ day = [c \in Callers |-> None]
    /\ attempt = [c \in Callers |-> 0]
    /\ doomed = [c \in Callers |-> FALSE]
    /\ cancelled = [c \in Callers |-> FALSE]
    /\ fetched = [c \in Callers |-> None]
    /\ lastErr = [c \in Callers |-> None]
    /\ result = [c \in Callers |-> None]
    /\ calls = [c \in Callers |-> [primary |-> 0, fallback |-> 0, historical |-> 0]]
    /\ collector = [hits |-> 0, misses |-> 0, failures |-> 0]

--------------------------------------------------------------------------------
(* The call: validation (of both operations), identity, cache *)

\* An upstream call is issued; it fails if the context is already cancelled.
Issue(c, where, source) ==
    /\ pc' = [pc EXCEPT ![c] = where]
    /\ doomed' = [doomed EXCEPT ![c] = cancelled[c]]
    /\ calls' = [calls EXCEPT ![c][source] = @ + 1]

Finish(c, r) ==
    /\ pc' = [pc EXCEPT ![c] = "done"]
    /\ result' = [result EXCEPT ![c] = r]

Ask(c, p) ==
    /\ pc[c] = "idle"
    /\ pair' = [pair EXCEPT ![c] = p]

\* An empty code, or a pair of which a currency is not configured.
CallUnsupported(c) ==
    /\ \E p \in Currencies \X Currencies :
          /\ Ask(c, p)
          /\ \/ Blank \in {p[1], p[2]}
             \/ p[1] # p[2] /\ ~({p[1], p[2]} \subseteq Allowed)
    /\ Finish(c, Fail("unsupported"))
    /\ UNCHANGED <<clock, cache, day, attempt, doomed, cancelled, fetched, lastErr, calls,
                   collector>>

\* A currency in terms of itself: rate 1, whether or not it is configured; of now, or of
\* the day asked for.
CallIdentity(c) ==
    /\ \E s \in Currencies \ {Blank}, t \in {clock} \cup HistoricalDays :
          /\ Ask(c, <<s, s>>)
          /\ Finish(c, Return([pair |-> <<s, s>>, timestamp |-> t, published |-> t,
                               source |-> "identity", stale |-> FALSE, degraded |-> FALSE]))
    /\ UNCHANGED <<clock, cache, day, attempt, doomed, cancelled, fetched, lastErr, calls,
                   collector>>

\* Mutant: the expiry is not looked at.
IsFreshEver(p) == cache[p] # None

\* GetFresh: an item counts until its expiry has passed.
IsFresh(p) == cache[p] # None /\ clock <= cache[p].expiresAt

CallHit(c) ==
    /\ \E p \in Pairs :
          /\ Ask(c, p)
          /\ IsFresh(p)
          /\ Finish(c, Return(cache[p].quote))
    /\ collector' = [collector EXCEPT !.hits = @ + 1]
    /\ UNCHANGED <<clock, cache, day, attempt, doomed, cancelled, fetched, lastErr, calls>>

CallMiss(c) ==
    /\ \E p \in Pairs : Ask(c, p) /\ ~IsFresh(p)
    /\ collector' = [collector EXCEPT !.misses = @ + 1]
    /\ attempt' = [attempt EXCEPT ![c] = 1]
    /\ Issue(c, "primary", "primary")
    /\ UNCHANGED <<clock, cache, day, cancelled, fetched, lastErr, result>>

Call(c) == CallUnsupported(c) \/ CallIdentity(c) \/ CallHit(c) \/ CallMiss(c)

--------------------------------------------------------------------------------
(* The primary source: fetchWithRetry *)

\* Mutants: one attempt too many, a missing pair is final, a 4xx is retried.
GivesUpLate(c, failure) == failure = "permanent" \/ attempt[c] = MaxAttempts + 1
GivesUpOnMissing(c, failure) == failure # "transient" \/ attempt[c] = MaxAttempts
GivesUpNever(c, failure) == attempt[c] = MaxAttempts

\* The retry loop ends with this failure: it is permanent, or it was the last attempt.
GivesUp(c, failure) == failure = "permanent" \/ attempt[c] = MaxAttempts

\* What an upstream may answer: with a cancelled context nothing but an error.
FailuresOf(c) == IF doomed[c] THEN {"transient"} ELSE {"permanent", "transient", "missing"}

\* The primary source answers with its own timestamp, or with none (then it is now).
PrimarySucceeds(c) ==
    /\ pc[c] = "primary"
    /\ ~doomed[c]
    /\ \E t \in 0 .. clock :
          fetched' = [fetched EXCEPT ![c] =
              [quote |-> [pair |-> pair[c], timestamp |-> t, published |-> t,
                          source |-> "live", stale |-> clock - t > SLA, degraded |-> FALSE],
               at |-> clock]]
    /\ pc' = [pc EXCEPT ![c] = "storing"]
    /\ UNCHANGED <<clock, cache, callerVars, attempt, doomed, cancelled, lastErr, result,
                   calls, collector>>

\* Mutant: only the last failure of the loop is counted.
PrimaryFailsCountedOnce(c) ==
    /\ pc[c] = "primary"
    /\ \E failure \in FailuresOf(c) :
          /\ lastErr' = [lastErr EXCEPT ![c] = failure]
          /\ IF GivesUp(c, failure)
             THEN /\ Issue(c, "fallback", "fallback")
                  /\ collector' = [collector EXCEPT !.failures = @ + 1]
             ELSE pc' = [pc EXCEPT ![c] = "backoff"] /\ UNCHANGED <<doomed, calls, collector>>
    /\ UNCHANGED <<clock, cache, callerVars, attempt, cancelled, fetched, result>>

\* HTTP status, transport, decoding, result other than success, or no such pair.
PrimaryFails(c) ==
    /\ pc[c] = "primary"
    /\ collector' = [collector EXCEPT !.failures = @ + 1]
    /\ \E failure \in FailuresOf(c) :
          /\ lastErr' = [lastErr EXCEPT ![c] = failure]
          /\ IF GivesUp(c, failure)
             THEN Issue(c, "fallback", "fallback")
             ELSE pc' = [pc EXCEPT ![c] = "backoff"] /\ UNCHANGED <<doomed, calls>>
    /\ UNCHANGED <<clock, cache, callerVars, attempt, cancelled, fetched, result>>

\* backoff.Sleep returns because the delay is over ...
Retry(c) ==
    /\ pc[c] = "backoff"
    /\ attempt' = [attempt EXCEPT ![c] = @ + 1]
    /\ Issue(c, "primary", "primary")
    /\ UNCHANGED <<clock, cache, callerVars, cancelled, fetched, lastErr, result, collector>>

\* ... or because the context is cancelled: the fallback is tried all the same.
AbandonRetry(c) ==
    /\ pc[c] = "backoff"
    /\ cancelled[c]
    /\ lastErr' = [lastErr EXCEPT ![c] = "cancelled"]
    /\ Issue(c, "fallback", "fallback")
    /\ UNCHANGED <<clock, cache, callerVars, attempt, cancelled, fetched, result, collector>>

--------------------------------------------------------------------------------
(* The fallback source, the cache, and the stale cache *)

\* The fallback's daily rate is stamped with the current time; its date is ignored.
FallbackSucceeds(c) ==
    /\ pc[c] = "fallback"
    /\ ~doomed[c]
    /\ \E t \in 0 .. clock :
          fetched' = [fetched EXCEPT ![c] =
              [quote |-> [pair |-> pair[c], timestamp |-> clock, published |-> t,
                          source |-> "fallback", stale |-> FALSE, degraded |-> FALSE],
               at |-> clock]]
    /\ pc' = [pc EXCEPT ![c] = "storing"]
    /\ UNCHANGED <<clock, cache, callerVars, attempt, doomed, cancelled, lastErr, result,
                   calls, collector>>

FallbackFails(c) ==
    /\ pc[c] = "fallback"
    /\ pc' = [pc EXCEPT ![c] = "lookup"]
    /\ UNCHANGED <<clock, cache, callerVars, attempt, doomed, cancelled, fetched, lastErr,
                   result, calls, collector>>

\* Mutant: the key is built the other way round.
KeySwapped(q) == <<q.pair[2], q.pair[1]>>

\* The key of the item is the pair of the quote.
Key(q) == q.pair

\* Set, and the caller is returned what it stored.
Store(c) ==
    /\ pc[c] = "storing"
    /\ cache' = [cache EXCEPT ![Key(fetched[c].quote)] =
                    [quote |-> fetched[c].quote, expiresAt |-> clock + CacheTTL]]
    /\ Finish(c, Return(fetched[c].quote))
    /\ fetched' = [fetched EXCEPT ![c] = None]
    /\ UNCHANGED <<clock, callerVars, attempt, doomed, cancelled, lastErr, calls, collector>>

Degrade(q) == [q EXCEPT !.stale = TRUE, !.degraded = TRUE]

\* Mutants: GetFresh instead of GetAny; the degraded quote goes back to the cache.
StaleLookupFresh(c) ==
    /\ pc[c] = "lookup"
    /\ Finish(c, IF IsFresh(pair[c])
                 THEN Return(Degrade(cache[pair[c]].quote))
                 ELSE Fail("unavailable"))
    /\ UNCHANGED <<clock, cache, callerVars, attempt, doomed, cancelled, fetched, lastErr,
                   calls, collector>>

StaleLookupAliased(c) ==
    /\ pc[c] = "lookup"
    /\ IF cache[pair[c]] # None
       THEN /\ cache' = [cache EXCEPT ![pair[c]].quote = Degrade(@)]
            /\ Finish(c, Return(Degrade(cache[pair[c]].quote)))
       ELSE /\ Finish(c, Fail("unavailable"))
            /\ UNCHANGED cache
    /\ UNCHANGED <<clock, callerVars, attempt, doomed, cancelled, fetched, lastErr, calls,
                   collector>>

\* GetAny: both sources failed, an item of any age will do.
StaleLookup(c) ==
    /\ pc[c] = "lookup"
    /\ Finish(c, IF cache[pair[c]] # None
                 THEN Return(Degrade(cache[pair[c]].quote))
                 ELSE Fail("unavailable"))
    /\ UNCHANGED <<clock, cache, callerVars, attempt, doomed, cancelled, fetched, lastErr,
                   calls, collector>>

--------------------------------------------------------------------------------
(* The historical lookup *)

\* Mutant: Sunday is moved back by one day, too.
AdjustHistoricalDateByOne(d) == IF d % 7 \in {0, 6} THEN d - 1 ELSE d

\* A weekend is moved back to the Friday before.
AdjustHistoricalDate(d) ==
    CASE d % 7 = 6 -> d - 1
      [] d % 7 = 0 -> d - 2
      [] OTHER     -> d

CallHistorical(c) ==
    /\ \E p \in Pairs : Ask(c, p)
    /\ \E d \in HistoricalDays : day' = [day EXCEPT ![c] = d]
    /\ attempt' = [attempt EXCEPT ![c] = 1]
    /\ Issue(c, "historical", "historical")
    /\ UNCHANGED <<clock, cache, cancelled, fetched, lastErr, result, collector>>

HistoricalSucceeds(c) ==
    /\ pc[c] = "historical"
    /\ ~doomed[c]
    /\ Finish(c, Return([pair |-> pair[c], timestamp |-> day[c],
                         published |-> AdjustHistoricalDate(day[c]),
                         source |-> "historical", stale |-> FALSE, degraded |-> FALSE]))
    /\ UNCHANGED <<clock, cache, callerVars, attempt, doomed, cancelled, fetched, lastErr,
                   calls, collector>>

HistoricalFails(c) ==
    /\ pc[c] = "historical"
    /\ \E failure \in FailuresOf(c) :
          /\ lastErr' = [lastErr EXCEPT ![c] = failure]
          /\ IF GivesUp(c, failure)
             THEN Finish(c, Fail("unavailable"))
             ELSE pc' = [pc EXCEPT ![c] = "historicalBackoff"] /\ UNCHANGED result
    /\ UNCHANGED <<clock, cache, callerVars, attempt, doomed, cancelled, fetched, calls,
                   collector>>

\* Mutant: the attempt is not counted (nor the call, so that the states stay finite).
HistoricalRetryForever(c) ==
    /\ pc[c] = "historicalBackoff"
    /\ pc' = [pc EXCEPT ![c] = "historical"]
    /\ doomed' = [doomed EXCEPT ![c] = cancelled[c]]
    /\ UNCHANGED <<clock, cache, callerVars, attempt, cancelled, fetched, lastErr, result, calls,
                   collector>>

HistoricalRetry(c) ==
    /\ pc[c] = "historicalBackoff"
    /\ attempt' = [attempt EXCEPT ![c] = @ + 1]
    /\ Issue(c, "historical", "historical")
    /\ UNCHANGED <<clock, cache, callerVars, cancelled, fetched, lastErr, result, collector>>

\* The error of the context is returned as it is.
HistoricalAbandon(c) ==
    /\ pc[c] = "historicalBackoff"
    /\ cancelled[c]
    /\ Finish(c, Fail("cancelled"))
    /\ UNCHANGED <<clock, cache, callerVars, attempt, doomed, cancelled, fetched, lastErr,
                   calls, collector>>

--------------------------------------------------------------------------------
(* The environment *)

\* The request times out or its client goes away.
Cancel(c) ==
    /\ pc[c] \notin {"idle", "done"}
    /\ ~cancelled[c]
    /\ cancelled' = [cancelled EXCEPT ![c] = TRUE]
    /\ UNCHANGED <<clock, cache, pc, callerVars, attempt, doomed, fetched, lastErr, result,
                   calls, collector>>

Tick ==
    /\ clock < MaxTime
    /\ \A c \in Callers : pc[c] = "storing" => clock - fetched[c].at < MaxLag
    /\ clock' = clock + 1
    /\ UNCHANGED <<cache, pc, callerVars, attempt, doomed, cancelled, fetched, lastErr,
                   result, calls, collector>>

Proceed(c) ==
    \/ PrimarySucceeds(c) \/ PrimaryFails(c) \/ Retry(c) \/ AbandonRetry(c)
    \/ FallbackSucceeds(c) \/ FallbackFails(c) \/ Store(c) \/ StaleLookup(c)
    \/ HistoricalSucceeds(c) \/ HistoricalFails(c) \/ HistoricalRetry(c) \/ HistoricalAbandon(c)

Next ==
    \/ \E c \in Callers : Call(c) \/ CallHistorical(c) \/ Proceed(c) \/ Cancel(c)
    \/ Tick

Spec == Init /\ [][Next]_vars

\* Upstream calls end: the HTTP client has a timeout.  Delays end, and goroutines run.
Fairness == \A c \in Callers : WF_vars(Proceed(c))

FairSpec == Spec /\ Fairness

--------------------------------------------------------------------------------
(* Properties *)

Quoted(c) == result[c] # None /\ result[c].kind = "quote"
GaveUp(c) == attempt[c] = MaxAttempts \/ lastErr[c] \in {"permanent", "cancelled"}

\* README.md:160: the fallback is asked only when the primary source has failed for good,
\* and neither a stale quote nor an error is returned before the fallback has failed.
FallbackOrder ==
    \A c \in Callers :
        /\ calls[c].fallback > 0 => GaveUp(c)
        /\ Quoted(c) /\ result[c].quote.degraded => calls[c].fallback = 1
        /\ result[c] = Fail("unavailable") => calls[c].fallback = 1 \/ calls[c].historical > 0

\* FX_RETRY_MAX_ATTEMPTS bounds the calls of one request, whatever is cancelled when; the
\* fallback is never retried (lines 155-161, 179-185 and 113).
RetryBudget ==
    \A c \in Callers :
        /\ calls[c].primary + calls[c].historical <= MaxAttempts
        /\ calls[c].fallback <= 1

\* A 4xx other than 429 is final: the source that answered so is not asked again for this
\* request (isRetryable, lines 316-322).
NoRetryAfterPermanent ==
    [][\A c \in Callers :
          lastErr[c] = "permanent" =>
              /\ calls'[c].primary = calls[c].primary
              /\ calls'[c].historical = calls[c].historical]_vars

\* Once a pair is cached it can always be served: an item is never lost, however the
\* callers interleave, and the lookup of last resort finds it at any age (line 119).
OnceCachedAlwaysServed ==
    [][/\ \A p \in Pairs : cache[p] # None => cache'[p] # None
       /\ \A c \in Callers :
             pc[c] = "lookup" /\ cache[pair[c]] # None => result'[c] # Fail("unavailable")]_vars

\* The cache holds what a source answered: a quote that was degraded for one caller is a
\* copy, and is not served to others as a hit (lines 119-127).
CachePristine ==
    \A p \in Pairs :
        cache[p] # None => /\ ~cache[p].quote.degraded
                           /\ cache[p].quote.source \in {"live", "fallback"}

\* A caller is quoted the pair it asked for, in the direction it asked for, whoever
\* stored the quote (cache.go:37 and :48 build the same key).
QuoteMatchesPair ==
    \A c \in Callers : Quoted(c) => result[c].quote.pair = pair[c]

\* A quote that is not flagged as stale is at most a freshness SLA and a cache TTL old,
\* plus the time it took to be stored: the flag is computed once, when the quote is
\* fetched (line 240), and the expiry counts from the Set (cache.go:39).
NotStaleBound ==
    \A c \in Callers :
        Quoted(c) /\ ~result[c].quote.stale /\ result[c].quote.source \in {"live", "fallback"}
        => result[c].at - result[c].quote.timestamp <= SLA + MaxLag + CacheTTL

\* README.md:159: the day that is looked up is the last business day up to the day asked
\* for.
HistoricalBusinessDay ==
    \A c \in Callers :
        Quoted(c) /\ result[c].quote.source = "historical" =>
            LET d == result[c].quote.published IN
            /\ d % 7 \notin {0, 6}
            /\ d <= day[c]
            /\ \A e \in d + 1 .. day[c] : e % 7 \in {0, 6}

\* The primary calls of c that have failed.
FailedPrimary(c) ==
    calls[c].primary -
        (IF pc[c] = "primary" \/ (calls[c].primary > 0 /\ calls[c].fallback = 0
                                  /\ pc[c] \in {"storing", "done"})
         THEN 1 ELSE 0)

\* c was answered from the cache without going upstream.
FromCache(c) ==
    Quoted(c) /\ calls[c].primary = 0 /\ result[c].quote.source \in {"live", "fallback"}

\* The counters agree with what was done: a hit for every caller that was served from the
\* cache and went nowhere else, a miss for every caller that went upstream, and a failure for
\* every failed attempt at the primary source and no other (client.go:99, 104, 191).
MetricsAccount ==
    /\ collector.hits = Cardinality({c \in Callers : FromCache(c)})
    /\ collector.misses = Cardinality({c \in Callers : calls[c].primary > 0})
    /\ collector.failures = SumFunction([c \in Callers |-> FailedPrimary(c)])

\* Every call returns, cancelled or not.
EveryCallReturns == \A c \in Callers : pc[c] # "idle" ~> pc[c] = "done"

\* provider.go:10: "ErrUnsupportedCurrencyPair indicates the external API does not support
\* the requested pair".  Refuted: the error is replaced by ErrRateUnavailable (line 130).
MissingPairIsUnsupported ==
    \A c \in Callers :
        lastErr[c] = "missing" /\ result[c] # None /\ result[c].kind # "quote"
        => result[c] = Fail("unsupported")

\* README.md:158: "older quotes are flagged as stale".  Refuted: a fallback rate is stamped
\* with the time of the call, however old it is (lines 277-284).
OldRateIsFlagged ==
    \A c \in Callers :
        Quoted(c) /\ result[c].at - result[c].quote.published > SLA + MaxLag + CacheTTL
                  /\ result[c].quote.source \in {"live", "fallback"}
        => result[c].quote.stale
================================================================================
