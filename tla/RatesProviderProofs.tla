------------------------- MODULE RatesProviderProofs -------------------------
(***************************************************************************)
(* Proofs about RatesProvider, for every number of callers, every set of   *)
(* currencies and every bound: how often the upstream services are called, *)
(* in which order, and what is quoted.                                     *)
(*                                                                         *)
(* The invariant has a part about the cache and one about each caller.     *)
(* Callers meet in the cache alone, so that a step disturbs the part of    *)
(* the caller that takes it, and a Store that of the cache.                *)
(***************************************************************************)
EXTENDS RatesProvider, SumTheorems, TLAPS

Upstream == {"primary", "backoff", "fallback", "storing", "lookup", "historical",
             "historicalBackoff"}

Bound == SLA + MaxLag + CacheTTL

\* An item is a quote of its key that some source answered, and expires in time.
CacheInv ==
  \A p \in Pairs :
    cache[p] # None =>
      /\ cache[p].quote.pair = p
      /\ ~cache[p].quote.degraded
      /\ cache[p].quote.source \in {"live", "fallback"}
      /\ ~cache[p].quote.stale => cache[p].expiresAt - cache[p].quote.timestamp <= Bound

\* What a caller asked for.
Asked(c) ==
  /\ pc[c] \in Upstream => pair[c] \in Pairs
  /\ pc[c] \in {"historical", "historicalBackoff"} =>
       day[c] \in HistoricalDays /\ calls[c].historical > 0

\* The calls that were made for a caller are its attempts and at most one fallback.
Counted(c) ==
  /\ calls[c].primary + calls[c].historical = attempt[c]
  /\ pc[c] = "idle" => attempt[c] = 0
  /\ pc[c] \in {"backoff", "historicalBackoff"} => attempt[c] < MaxAttempts
  /\ pc[c] \in {"idle", "primary", "backoff", "historical", "historicalBackoff"} =>
       calls[c].fallback = 0 /\ lastErr[c] # "permanent"
  /\ pc[c] \in {"fallback", "lookup"} => calls[c].fallback = 1
  /\ calls[c].fallback <= 1
  /\ calls[c].fallback > 0 => GaveUp(c)

\* What waits to be stored is recent, and not stale without a flag.
ToStore(c) ==
  pc[c] = "storing" =>
    /\ fetched[c] \in [quote : Quote, at : Nat]
    /\ fetched[c].quote.pair = pair[c]
    /\ ~fetched[c].quote.degraded
    /\ fetched[c].quote.source \in {"live", "fallback"}
    /\ fetched[c].at <= clock /\ clock - fetched[c].at <= MaxLag
    /\ ~fetched[c].quote.stale => fetched[c].at - fetched[c].quote.timestamp <= SLA

\* What a caller was returned.
Returned(c) ==
  /\ pc[c] # "done" => result[c] = None
  /\ Quoted(c) =>
       /\ result[c].quote.pair = pair[c]
       /\ result[c].quote.degraded => calls[c].fallback = 1
       /\ ~result[c].quote.stale /\ result[c].quote.source \in {"live", "fallback"} =>
            result[c].at - result[c].quote.timestamp <= Bound
       /\ result[c].quote.source = "historical" =>
            day[c] \in HistoricalDays /\ result[c].quote.published = AdjustHistoricalDate(day[c])
  /\ result[c] = Fail("unavailable") => calls[c].fallback = 1 \/ calls[c].historical > 0

CallerInv(c) == Asked(c) /\ Counted(c) /\ ToStore(c) /\ Returned(c)

IInv == TypeOK /\ CacheInv /\ \A c \in Callers : CallerInv(c)

-----------------------------------------------------------------------------
LEMMA PairsAreTyped == Pairs \subseteq Currencies \X Currencies
BY ProviderAssumption DEF Pairs, Allowed

LEMMA InitInv == Init => IInv
<1> SUFFICES ASSUME Init PROVE IInv
  OBVIOUS
<1>1. TypeOK
  BY ProviderAssumption DEF Init, TypeOK
<1>2. CacheInv
  BY DEF Init, CacheInv
<1>3. ASSUME NEW c \in Callers PROVE CallerInv(c)
  <2>1. /\ pc[c] = "idle" /\ attempt[c] = 0 /\ lastErr[c] = None /\ result[c] = None
        /\ calls[c].primary = 0 /\ calls[c].fallback = 0 /\ calls[c].historical = 0
    BY DEF Init
  <2>2. None # Fail("unavailable") /\ None # "permanent"
    BY NoneAssumption DEF Results, Fail, Failures
  <2>. QED
    BY <2>1, <2>2 DEF CallerInv, Asked, Counted, ToStore, Returned, Quoted, Upstream
<1>. QED
  BY <1>1, <1>2, <1>3 DEF IInv

\* A caller that takes a step disturbs no other.
Untouched(d) ==
  /\ pc'[d] = pc[d] /\ pair'[d] = pair[d] /\ day'[d] = day[d] /\ attempt'[d] = attempt[d]
  /\ fetched'[d] = fetched[d] /\ lastErr'[d] = lastErr[d] /\ result'[d] = result[d]
  /\ calls'[d] = calls[d]

LEMMA StepOf ==
  ASSUME IInv, NEW c \in Callers,
         clock' = clock, \A d \in Callers \ {c} : Untouched(d),
         TypeOK', CacheInv', CallerInv(c)'
  PROVE  IInv'
<1>1. ASSUME NEW d \in Callers, Untouched(d) PROVE CallerInv(d)'
  <2>1. CallerInv(d)
    BY DEF IInv
  <2>2. Asked(d)' /\ Counted(d)'
    BY <1>1, <2>1 DEF Untouched, CallerInv, Asked, Counted, GaveUp
  <2>3. ToStore(d)' /\ Returned(d)'
    BY <1>1, <2>1 DEF Untouched, CallerInv, ToStore, Returned, Quoted
  <2>. QED
    BY <2>2, <2>3 DEF CallerInv
<1>. QED
  BY <1>1 DEF IInv

-----------------------------------------------------------------------------
(* The call *)

LEMMA CallUnsupportedInv ==
  ASSUME IInv, NEW c \in Callers, CallUnsupported(c)
  PROVE  IInv'
<1>1. TypeOK /\ CallerInv(c) /\ pc[c] = "idle"
  BY DEF IInv, CallUnsupported, Ask
<1>2. PICK p \in Currencies \X Currencies : pair' = [pair EXCEPT ![c] = p]
  BY DEF CallUnsupported, Ask
<1>3. /\ pc' = [pc EXCEPT ![c] = "done"]
      /\ result' = [result EXCEPT ![c] = Fail("unsupported")]
      /\ UNCHANGED <<clock, cache, day, attempt, doomed, cancelled, fetched, lastErr, calls,
                     collector>>
  BY DEF CallUnsupported, Finish
<1>4. TypeOK'
  BY <1>1, <1>2, <1>3 DEF TypeOK, Results, Fail
<1>5. CacheInv'
  BY <1>3 DEF IInv, CacheInv
<1>6. CallerInv(c)'
  BY <1>1, <1>2, <1>3 DEF TypeOK, CallerInv, Asked, Counted, ToStore, Returned, Quoted, Fail, Upstream,
     GaveUp
<1>7. \A d \in Callers \ {c} : Untouched(d)
  BY <1>1, <1>2, <1>3 DEF TypeOK, Untouched
<1>. QED
  BY <1>3, <1>4, <1>5, <1>6, <1>7, StepOf

LEMMA CallIdentityInv ==
  ASSUME IInv, NEW c \in Callers, CallIdentity(c)
  PROVE  IInv'
<1>1. TypeOK /\ CallerInv(c) /\ pc[c] = "idle"
  BY DEF IInv, CallIdentity, Ask
<1>2. PICK s \in Currencies \ {Blank}, t \in {clock} \union HistoricalDays :
        /\ pair' = [pair EXCEPT ![c] = <<s, s>>]
        /\ Finish(c, Return([pair |-> <<s, s>>, timestamp |-> t, published |-> t,
                             source |-> "identity", stale |-> FALSE, degraded |-> FALSE]))
  BY DEF CallIdentity, Ask
<1> DEFINE q == [pair |-> <<s, s>>, timestamp |-> t, published |-> t,
                 source |-> "identity", stale |-> FALSE, degraded |-> FALSE]
<1>3. /\ pc' = [pc EXCEPT ![c] = "done"]
      /\ result' = [result EXCEPT ![c] = Return(q)]
      /\ UNCHANGED <<clock, cache, day, attempt, doomed, cancelled, fetched, lastErr, calls,
                     collector>>
  BY <1>2 DEF CallIdentity, Finish
<1>4. q \in Quote
  <2>1. t \in Nat /\ t \in Int
    BY <1>1, ProviderAssumption DEF TypeOK
  <2>. QED
    BY <2>1 DEF Quote, Sources
<1>5. TypeOK'
  BY <1>1, <1>2, <1>3, <1>4 DEF TypeOK, Results, Return
<1>6. CacheInv'
  BY <1>3 DEF IInv, CacheInv
<1>7. CallerInv(c)'
  BY <1>1, <1>2, <1>3 DEF TypeOK, CallerInv, Asked, Counted, ToStore, Returned, Quoted, Fail, Return,
     Upstream, GaveUp
<1>8. \A d \in Callers \ {c} : Untouched(d)
  BY <1>1, <1>2, <1>3 DEF TypeOK, Untouched
<1>. QED
  BY <1>3, <1>5, <1>6, <1>7, <1>8, StepOf

LEMMA CallHitInv ==
  ASSUME IInv, NEW c \in Callers, CallHit(c)
  PROVE  IInv'
<1>1. TypeOK /\ CallerInv(c) /\ pc[c] = "idle"
  BY DEF IInv, CallHit, Ask
<1>2. PICK p \in Pairs :
        /\ pair' = [pair EXCEPT ![c] = p]
        /\ IsFresh(p)
        /\ Finish(c, Return(cache[p].quote))
  BY DEF CallHit, Ask
<1>3. /\ pc' = [pc EXCEPT ![c] = "done"]
      /\ result' = [result EXCEPT ![c] = Return(cache[p].quote)]
      /\ collector' = [collector EXCEPT !.hits = @ + 1]
      /\ UNCHANGED <<clock, cache, day, attempt, doomed, cancelled, fetched, lastErr, calls>>
  BY <1>2 DEF CallHit, Finish
<1>4. /\ cache[p] # None /\ clock <= cache[p].expiresAt
      /\ cache[p].quote \in Quote /\ cache[p].expiresAt \in Nat
  BY <1>1, <1>2 DEF IsFresh, TypeOK, Item
<1>5. TypeOK'
  <2>1. Return(cache[p].quote) \in Results
    BY <1>1, <1>4 DEF TypeOK, Results, Return
  <2>2. p \in Currencies \X Currencies
    BY PairsAreTyped
  <2>3. collector' \in [hits : Nat, misses : Nat, failures : Nat]
    BY <1>1, <1>3 DEF TypeOK
  <2>. QED
    BY <1>1, <1>2, <1>3, <2>1, <2>2, <2>3 DEF TypeOK
<1>6. CacheInv'
  BY <1>3 DEF IInv, CacheInv
<1>7. CallerInv(c)'
  <2>1. /\ cache[p].quote.pair = p /\ ~cache[p].quote.degraded
        /\ cache[p].quote.source \in {"live", "fallback"}
        /\ ~cache[p].quote.stale => clock - cache[p].quote.timestamp <= Bound
    BY <1>1, <1>4, ProviderAssumption DEF IInv, CacheInv, TypeOK, Quote, Bound
  <2>2. result'[c] = [kind |-> "quote", quote |-> cache[p].quote, at |-> clock]
    BY <1>1, <1>3 DEF TypeOK, Return
  <2>3. Asked(c)' /\ Counted(c)' /\ ToStore(c)'
    BY <1>1, <1>2, <1>3 DEF TypeOK, CallerInv, Asked, Counted, ToStore, Upstream, GaveUp
  <2>4. Returned(c)'
    BY <1>1, <1>2, <1>3, <2>1, <2>2 DEF TypeOK, Returned, Quoted, Fail
  <2>. QED
    BY <2>3, <2>4 DEF CallerInv
<1>8. \A d \in Callers \ {c} : Untouched(d)
  BY <1>1, <1>2, <1>3 DEF TypeOK, Untouched
<1>. QED
  BY <1>3, <1>5, <1>6, <1>7, <1>8, StepOf

\* Counting one more call keeps the counts typed.
LEMMA CallsStayTyped ==
  ASSUME TypeOK, NEW c \in Callers
  PROVE  /\ [calls EXCEPT ![c].primary = @ + 1] \in [Callers -> [primary : Nat, fallback : Nat, historical : Nat]]
         /\ [calls EXCEPT ![c].fallback = @ + 1] \in [Callers -> [primary : Nat, fallback : Nat, historical : Nat]]
         /\ [calls EXCEPT ![c].historical = @ + 1] \in [Callers -> [primary : Nat, fallback : Nat, historical : Nat]]
<1>1. /\ calls \in [Callers -> [primary : Nat, fallback : Nat, historical : Nat]]
      /\ calls[c] \in [primary : Nat, fallback : Nat, historical : Nat]
  BY DEF TypeOK
<1>2. /\ [calls[c] EXCEPT !.primary = @ + 1] \in [primary : Nat, fallback : Nat, historical : Nat]
      /\ [calls[c] EXCEPT !.fallback = @ + 1] \in [primary : Nat, fallback : Nat, historical : Nat]
      /\ [calls[c] EXCEPT !.historical = @ + 1] \in [primary : Nat, fallback : Nat, historical : Nat]
  BY <1>1
<1>. QED
  BY <1>1, <1>2

LEMMA CallMissInv ==
  ASSUME IInv, NEW c \in Callers, CallMiss(c)
  PROVE  IInv'
<1>1. TypeOK /\ CallerInv(c) /\ pc[c] = "idle"
  BY DEF IInv, CallMiss, Ask
<1>2. PICK p \in Pairs : pair' = [pair EXCEPT ![c] = p]
  BY DEF CallMiss, Ask
<1>3. /\ pc' = [pc EXCEPT ![c] = "primary"]
      /\ doomed' = [doomed EXCEPT ![c] = cancelled[c]]
      /\ calls' = [calls EXCEPT ![c].primary = @ + 1]
      /\ attempt' = [attempt EXCEPT ![c] = 1]
      /\ collector' = [collector EXCEPT !.misses = @ + 1]
      /\ UNCHANGED <<clock, cache, day, cancelled, fetched, lastErr, result>>
  BY DEF CallMiss, Issue
<1>4. TypeOK'
  <2>1. p \in Currencies \X Currencies /\ 1 \in 0 .. MaxAttempts
    BY PairsAreTyped, ProviderAssumption
  <2>2. calls' \in [Callers -> [primary : Nat, fallback : Nat, historical : Nat]]
    BY <1>1, <1>3, CallsStayTyped
  <2>3. collector' \in [hits : Nat, misses : Nat, failures : Nat]
    BY <1>1, <1>3 DEF TypeOK
  <2>. QED
    BY <1>1, <1>2, <1>3, <2>1, <2>2, <2>3 DEF TypeOK
<1>5. CacheInv'
  BY <1>3 DEF IInv, CacheInv
<1>6. CallerInv(c)'
  BY <1>1, <1>2, <1>3 DEF TypeOK, CallerInv, Asked, Counted, ToStore, Returned, Quoted, Upstream,
     GaveUp
<1>7. \A d \in Callers \ {c} : Untouched(d)
  BY <1>1, <1>2, <1>3 DEF TypeOK, Untouched
<1>. QED
  BY <1>3, <1>4, <1>5, <1>6, <1>7, StepOf

LEMMA CallHistoricalInv ==
  ASSUME IInv, NEW c \in Callers, CallHistorical(c)
  PROVE  IInv'
<1>1. TypeOK /\ CallerInv(c) /\ pc[c] = "idle"
  BY DEF IInv, CallHistorical, Ask
<1>2. PICK p \in Pairs : pair' = [pair EXCEPT ![c] = p]
  BY DEF CallHistorical, Ask
<1>3. PICK t \in HistoricalDays : day' = [day EXCEPT ![c] = t]
  BY DEF CallHistorical
<1>4. /\ pc' = [pc EXCEPT ![c] = "historical"]
      /\ doomed' = [doomed EXCEPT ![c] = cancelled[c]]
      /\ calls' = [calls EXCEPT ![c].historical = @ + 1]
      /\ attempt' = [attempt EXCEPT ![c] = 1]
      /\ UNCHANGED <<clock, cache, cancelled, fetched, lastErr, result, collector>>
  BY DEF CallHistorical, Issue
<1>5. TypeOK'
  <2>1. p \in Currencies \X Currencies /\ 1 \in 0 .. MaxAttempts
    BY PairsAreTyped, ProviderAssumption
  <2>2. calls' \in [Callers -> [primary : Nat, fallback : Nat, historical : Nat]]
    BY <1>1, <1>4, CallsStayTyped
  <2>. QED
    BY <1>1, <1>2, <1>3, <1>4, <2>1, <2>2 DEF TypeOK
<1>6. CacheInv'
  BY <1>4 DEF IInv, CacheInv
<1>7. CallerInv(c)'
  BY <1>1, <1>2, <1>3, <1>4 DEF TypeOK, CallerInv, Asked, Counted, ToStore, Returned, Quoted, Upstream,
     GaveUp
<1>8. \A d \in Callers \ {c} : Untouched(d)
  BY <1>1, <1>2, <1>3, <1>4 DEF TypeOK, Untouched
<1>. QED
  BY <1>4, <1>5, <1>6, <1>7, <1>8, StepOf

-----------------------------------------------------------------------------
(* The sources *)

\* A quote is fetched: its age is not above the SLA, or it is flagged.
LEMMA FetchedInv ==
  ASSUME IInv, NEW c \in Callers, PrimarySucceeds(c) \/ FallbackSucceeds(c)
  PROVE  IInv'
<1>1. TypeOK /\ CallerInv(c) /\ pc[c] \in {"primary", "fallback"} /\ pair[c] \in Pairs
  BY DEF IInv, CallerInv, Asked, Upstream, PrimarySucceeds, FallbackSucceeds
<1>2. PICK q \in Quote :
        /\ fetched' = [fetched EXCEPT ![c] = [quote |-> q, at |-> clock]]
        /\ q.pair = pair[c] /\ ~q.degraded /\ q.source \in {"live", "fallback"}
        /\ ~q.stale => clock - q.timestamp <= SLA
  <2>1. clock \in Nat /\ pair[c] \in Currencies \X Currencies
    BY <1>1, PairsAreTyped DEF TypeOK
  <2>2. CASE PrimarySucceeds(c)
    <3>1. PICK t \in 0 .. clock :
            fetched' = [fetched EXCEPT ![c] =
              [quote |-> [pair |-> pair[c], timestamp |-> t, published |-> t,
                          source |-> "live", stale |-> clock - t > SLA, degraded |-> FALSE],
               at |-> clock]]
      BY <2>2 DEF PrimarySucceeds
    <3> DEFINE live == [pair |-> pair[c], timestamp |-> t, published |-> t,
                        source |-> "live", stale |-> clock - t > SLA, degraded |-> FALSE]
    <3>2. t \in Nat /\ t \in Int /\ (clock - t > SLA) \in BOOLEAN
      BY <2>1
    <3>3. live \in Quote
      BY <2>1, <3>2 DEF Quote, Sources
    <3>4. ~live.stale => clock - live.timestamp <= SLA
      <4>1. CASE clock - t > SLA
        BY <4>1
      <4>2. CASE ~(clock - t > SLA)
        BY <2>1, <3>2, <4>2, ProviderAssumption
      <4>. QED
        BY <4>1, <4>2
    <3>. QED
      BY <3>1, <3>3, <3>4
  <2>3. CASE FallbackSucceeds(c)
    <3>1. PICK t \in 0 .. clock :
            fetched' = [fetched EXCEPT ![c] =
              [quote |-> [pair |-> pair[c], timestamp |-> clock, published |-> t,
                          source |-> "fallback", stale |-> FALSE, degraded |-> FALSE],
               at |-> clock]]
      BY <2>3 DEF FallbackSucceeds
    <3> DEFINE daily == [pair |-> pair[c], timestamp |-> clock, published |-> t,
                         source |-> "fallback", stale |-> FALSE, degraded |-> FALSE]
    <3>2. t \in Int
      BY <2>1
    <3>3. daily \in Quote
      BY <2>1, <3>2 DEF Quote, Sources
    <3>4. clock - daily.timestamp <= SLA
      BY <2>1, ProviderAssumption
    <3>. QED
      BY <3>1, <3>3, <3>4
  <2>. QED
    BY <2>2, <2>3
<1>3. /\ pc' = [pc EXCEPT ![c] = "storing"]
      /\ UNCHANGED <<clock, cache, callerVars, attempt, doomed, cancelled, lastErr, result,
                     calls, collector>>
  BY DEF PrimarySucceeds, FallbackSucceeds
<1>4. TypeOK'
  BY <1>1, <1>2, <1>3 DEF TypeOK, callerVars
<1>5. CacheInv'
  BY <1>3 DEF IInv, CacheInv
<1>6. CallerInv(c)'
  <2>1. Asked(c)' /\ Counted(c)' /\ Returned(c)'
    BY <1>1, <1>3 DEF TypeOK, callerVars, CallerInv, Asked, Counted, Returned, Quoted, Upstream,
       GaveUp
  <2>2. fetched'[c] = [quote |-> q, at |-> clock] /\ pair'[c] = pair[c]
        /\ clock' = clock /\ clock \in Nat
    BY <1>1, <1>2, <1>3 DEF TypeOK, callerVars
  <2>3. ToStore(c)'
    BY <1>2, <2>2, ProviderAssumption DEF ToStore
  <2>. QED
    BY <2>1, <2>3 DEF CallerInv
<1>7. \A d \in Callers \ {c} : Untouched(d)
  BY <1>1, <1>2, <1>3 DEF TypeOK, Untouched, callerVars
<1>. QED
  BY <1>3, <1>4, <1>5, <1>6, <1>7, StepOf

\* The fallback is asked because the retry loop has ended.
LEMMA AskFallbackInv ==
  ASSUME IInv, NEW c \in Callers, pc[c] \in {"primary", "backoff"},
         NEW error \in Failures,
         error \in {"permanent", "cancelled"} \/ attempt[c] = MaxAttempts,
         lastErr' = [lastErr EXCEPT ![c] = error],
         Issue(c, "fallback", "fallback"),
         collector' \in [hits : Nat, misses : Nat, failures : Nat],
         UNCHANGED <<clock, cache, callerVars, attempt, cancelled, fetched, result>>
  PROVE  IInv'
<1>1. TypeOK /\ CallerInv(c)
  BY DEF IInv
<1>2. /\ pc' = [pc EXCEPT ![c] = "fallback"]
      /\ doomed' = [doomed EXCEPT ![c] = cancelled[c]]
      /\ calls' = [calls EXCEPT ![c].fallback = @ + 1]
  BY DEF Issue
<1>3. TypeOK'
  <2>1. calls' \in [Callers -> [primary : Nat, fallback : Nat, historical : Nat]]
    BY <1>1, <1>2, CallsStayTyped
  <2>. QED
    BY <1>1, <1>2, <2>1 DEF TypeOK, callerVars
<1>4. CacheInv'
  BY DEF IInv, CacheInv
<1>5. CallerInv(c)'
  BY <1>1, <1>2 DEF TypeOK, callerVars, CallerInv, Asked, Counted, ToStore, Returned, Quoted,
     Upstream, GaveUp
<1>6. \A d \in Callers \ {c} : Untouched(d)
  BY <1>1, <1>2 DEF TypeOK, Untouched, callerVars
<1>. QED
  BY <1>3, <1>4, <1>5, <1>6, StepOf

LEMMA PrimaryFailsInv ==
  ASSUME IInv, NEW c \in Callers, PrimaryFails(c)
  PROVE  IInv'
<1>1. TypeOK /\ CallerInv(c) /\ pc[c] = "primary"
  BY DEF IInv, PrimaryFails
<1>2. collector' \in [hits : Nat, misses : Nat, failures : Nat]
  <2>1. \/ collector' = collector
        \/ collector' = [collector EXCEPT !.failures = @ + 1]
    BY DEF PrimaryFails
  <2>2. collector \in [hits : Nat, misses : Nat, failures : Nat]
    BY <1>1 DEF TypeOK
  <2>. QED
    BY <2>1, <2>2
<1>3. PICK error \in FailuresOf(c) :
        /\ lastErr' = [lastErr EXCEPT ![c] = error]
        /\ IF GivesUp(c, error)
             THEN Issue(c, "fallback", "fallback")
             ELSE pc' = [pc EXCEPT ![c] = "backoff"] /\ UNCHANGED <<doomed, calls>>
  BY DEF PrimaryFails
<1>4. error \in Failures \ {"cancelled"}
  BY DEF FailuresOf, Failures
<1>5. UNCHANGED <<clock, cache, callerVars, attempt, cancelled, fetched, result>>
  BY DEF PrimaryFails
<1>6. CASE GivesUp(c, error)
  BY <1>1, <1>2, <1>3, <1>4, <1>5, <1>6, AskFallbackInv DEF GivesUp
<1>7. CASE ~GivesUp(c, error)
  <2>1. pc' = [pc EXCEPT ![c] = "backoff"] /\ UNCHANGED <<doomed, calls>>
    BY <1>3, <1>7
  <2>2. error # "permanent" /\ attempt[c] < MaxAttempts
    <3>1. error # "permanent" /\ attempt[c] # MaxAttempts
      BY <1>7 DEF GivesUp
    <3>2. attempt[c] \in 0 .. MaxAttempts
      BY <1>1 DEF TypeOK
    <3>. QED
      BY <3>1, <3>2, ProviderAssumption
  <2>3. TypeOK'
    BY <1>1, <1>2, <1>3, <1>4, <1>5, <2>1 DEF TypeOK, callerVars
  <2>4. CacheInv'
    BY <1>5 DEF IInv, CacheInv
  <2>5. CallerInv(c)'
    BY <1>1, <1>3, <1>5, <2>1, <2>2 DEF TypeOK, callerVars, CallerInv, Asked, Counted, ToStore,
       Returned, Quoted, Upstream, GaveUp
  <2>6. \A d \in Callers \ {c} : Untouched(d)
    BY <1>1, <1>3, <1>5, <2>1 DEF TypeOK, Untouched, callerVars
  <2>. QED
    BY <1>5, <2>3, <2>4, <2>5, <2>6, StepOf
<1>. QED
  BY <1>6, <1>7

LEMMA AbandonRetryInv ==
  ASSUME IInv, NEW c \in Callers, AbandonRetry(c)
  PROVE  IInv'
<1>1. "cancelled" \in Failures
  BY DEF Failures
<1>2. collector' \in [hits : Nat, misses : Nat, failures : Nat]
  BY DEF AbandonRetry, IInv, TypeOK
<1>. QED
  BY <1>1, <1>2, AskFallbackInv DEF AbandonRetry

LEMMA RetryInv ==
  ASSUME IInv, NEW c \in Callers, Retry(c) \/ HistoricalRetry(c)
  PROVE  IInv'
<1>1. /\ TypeOK /\ CallerInv(c) /\ pc[c] \in {"backoff", "historicalBackoff"}
      /\ attempt[c] \in Nat /\ attempt[c] < MaxAttempts
  BY DEF IInv, Retry, HistoricalRetry, CallerInv, Counted, TypeOK
<1>2. /\ attempt' = [attempt EXCEPT ![c] = @ + 1]
      /\ doomed' = [doomed EXCEPT ![c] = cancelled[c]]
      /\ UNCHANGED <<clock, cache, callerVars, cancelled, fetched, lastErr, result, collector>>
  BY DEF Retry, HistoricalRetry, Issue
<1>3. attempt' \in [Callers -> 0 .. MaxAttempts]
  <2>1. attempt[c] + 1 \in 0 .. MaxAttempts
    BY <1>1, ProviderAssumption
  <2>. QED
    BY <1>1, <1>2, <2>1 DEF TypeOK
<1>4. CacheInv'
  BY <1>2 DEF IInv, CacheInv
<1>5. CASE Retry(c)
  <2>1. /\ pc[c] = "backoff"
        /\ pc' = [pc EXCEPT ![c] = "primary"]
        /\ calls' = [calls EXCEPT ![c].primary = @ + 1]
    BY <1>5 DEF Retry, Issue
  <2>2. TypeOK'
    BY <1>1, <1>2, <1>3, <2>1 DEF TypeOK, callerVars
  <2>3. CallerInv(c)'
    BY <1>1, <1>2, <2>1 DEF TypeOK, callerVars, CallerInv, Asked, Counted, ToStore, Returned, Quoted,
       Upstream, GaveUp
  <2>4. \A d \in Callers \ {c} : Untouched(d)
    BY <1>1, <1>2, <2>1 DEF TypeOK, Untouched, callerVars
  <2>. QED
    BY <1>2, <1>4, <2>2, <2>3, <2>4, StepOf
<1>6. CASE HistoricalRetry(c)
  <2>1. /\ pc[c] = "historicalBackoff"
        /\ pc' = [pc EXCEPT ![c] = "historical"]
        /\ calls' = [calls EXCEPT ![c].historical = @ + 1]
    BY <1>6 DEF HistoricalRetry, Issue
  <2>2. TypeOK'
    BY <1>1, <1>2, <1>3, <2>1 DEF TypeOK, callerVars
  <2>3. CallerInv(c)'
    <3>1. /\ pc'[c] = "historical" /\ attempt'[c] = attempt[c] + 1
          /\ calls'[c].historical = calls[c].historical + 1
          /\ calls'[c].primary = calls[c].primary /\ calls'[c].fallback = calls[c].fallback
          /\ calls[c].historical \in Nat /\ calls[c].primary \in Nat
      BY <1>1, <1>2, <2>1 DEF TypeOK
    <3>2. Asked(c)'
      BY <1>1, <1>2, <2>1, <3>1 DEF callerVars, CallerInv, Asked, Upstream
    <3>3. Counted(c)' /\ ToStore(c)'
      BY <1>1, <1>2, <2>1, <3>1 DEF callerVars, CallerInv, Counted, ToStore, GaveUp
    <3>4. Returned(c)'
      BY <1>1, <1>2, <2>1, <3>1 DEF callerVars, CallerInv, Counted, Returned, Quoted
    <3>. QED
      BY <3>2, <3>3, <3>4 DEF CallerInv
  <2>4. \A d \in Callers \ {c} : Untouched(d)
    BY <1>1, <1>2, <2>1 DEF TypeOK, Untouched, callerVars
  <2>. QED
    BY <1>2, <1>4, <2>2, <2>3, <2>4, StepOf
<1>. QED
  BY <1>5, <1>6

LEMMA FallbackFailsInv ==
  ASSUME IInv, NEW c \in Callers, FallbackFails(c)
  PROVE  IInv'
<1>1. TypeOK /\ CallerInv(c) /\ pc[c] = "fallback"
  BY DEF IInv, FallbackFails
<1>2. /\ pc' = [pc EXCEPT ![c] = "lookup"]
      /\ UNCHANGED <<clock, cache, callerVars, attempt, doomed, cancelled, fetched, lastErr,
                     result, calls, collector>>
  BY DEF FallbackFails
<1>3. TypeOK' /\ CacheInv'
  BY <1>1, <1>2 DEF TypeOK, callerVars, IInv, CacheInv
<1>4. CallerInv(c)'
  BY <1>1, <1>2 DEF TypeOK, callerVars, CallerInv, Asked, Counted, ToStore, Returned, Quoted,
     Upstream, GaveUp
<1>5. \A d \in Callers \ {c} : Untouched(d)
  BY <1>1, <1>2 DEF TypeOK, Untouched, callerVars
<1>. QED
  BY <1>2, <1>3, <1>4, <1>5, StepOf

-----------------------------------------------------------------------------
(* What is stored, and what is returned from the cache *)

LEMMA StoreInv ==
  ASSUME IInv, NEW c \in Callers, Store(c)
  PROVE  IInv'
<1> DEFINE q == fetched[c].quote
           item == [quote |-> q, expiresAt |-> clock + CacheTTL]
<1>1. TypeOK /\ CallerInv(c) /\ pc[c] = "storing" /\ pair[c] \in Pairs /\ clock \in Nat
  BY DEF IInv, Store, CallerInv, Asked, Upstream, TypeOK
<1>2. /\ q \in Quote /\ fetched[c].at \in Nat
      /\ q.pair = pair[c] /\ ~q.degraded /\ q.source \in {"live", "fallback"}
      /\ clock - fetched[c].at <= MaxLag
      /\ ~q.stale => fetched[c].at - q.timestamp <= SLA
  BY <1>1 DEF CallerInv, ToStore
<1>3. /\ cache' = [cache EXCEPT ![pair[c]] = item]
      /\ pc' = [pc EXCEPT ![c] = "done"]
      /\ result' = [result EXCEPT ![c] = [kind |-> "quote", quote |-> q, at |-> clock]]
      /\ fetched' = [fetched EXCEPT ![c] = None]
      /\ UNCHANGED <<clock, callerVars, attempt, doomed, cancelled, lastErr, calls, collector>>
  BY <1>2 DEF Store, Key, Finish, Return
<1>4. ~q.stale => clock - q.timestamp <= SLA + MaxLag
  <2>1. q.timestamp \in Nat
    BY <1>2 DEF Quote
  <2>2. CASE ~q.stale
    BY <1>1, <1>2, <2>1, <2>2, ProviderAssumption
  <2>. QED
    BY <2>2
<1>5. TypeOK'
  <2>1. item \in Item
    BY <1>1, <1>2, ProviderAssumption DEF Item
  <2>2. [kind |-> "quote", quote |-> q, at |-> clock] \in Results
    BY <1>1, <1>2 DEF Results
  <2>. QED
    BY <1>1, <1>3, <2>1, <2>2 DEF TypeOK, callerVars
<1>6. CacheInv'
  <2>1. /\ item.quote = q /\ item.expiresAt = clock + CacheTTL
        /\ ~q.stale => item.expiresAt - q.timestamp <= Bound
    <3>1. q.timestamp \in Nat
      BY <1>2 DEF Quote
    <3>2. CASE ~q.stale
      BY <1>1, <1>4, <3>1, <3>2, ProviderAssumption DEF Bound
    <3>. QED
      BY <3>2
  <2>2. \A p \in Pairs : cache'[p] = IF p = pair[c] THEN item ELSE cache[p]
    BY <1>1, <1>3 DEF TypeOK
  <2>. QED
    BY <1>2, <2>1, <2>2 DEF IInv, CacheInv
<1>7. CallerInv(c)'
  <2>1. Asked(c)' /\ Counted(c)' /\ ToStore(c)'
    BY <1>1, <1>3 DEF TypeOK, callerVars, CallerInv, Asked, Counted, ToStore, Upstream, GaveUp
  <2>2. /\ result'[c] = [kind |-> "quote", quote |-> q, at |-> clock]
        /\ pc'[c] = "done" /\ pair'[c] = pair[c]
    BY <1>1, <1>3 DEF TypeOK, callerVars
  <2>3. ~q.stale => clock - q.timestamp <= Bound
    <3>1. q.timestamp \in Nat
      BY <1>2 DEF Quote
    <3>2. CASE ~q.stale
      BY <1>1, <1>4, <3>1, <3>2, ProviderAssumption DEF Bound
    <3>. QED
      BY <3>2
  <2>4. Returned(c)'
    BY <1>2, <2>2, <2>3 DEF Returned, Quoted, Fail
  <2>. QED
    BY <2>1, <2>4 DEF CallerInv
<1>8. \A d \in Callers \ {c} : Untouched(d)
  BY <1>1, <1>3 DEF TypeOK, Untouched, callerVars
<1>. QED
  BY <1>3, <1>5, <1>6, <1>7, <1>8, StepOf

\* An error is returned: nothing else changes that the invariant speaks of.
LEMMA FinishFailed ==
  ASSUME IInv, NEW c \in Callers, pc[c] \in Upstream,
         NEW kind \in {"unavailable", "cancelled"},
         kind = "unavailable" => calls[c].fallback = 1 \/ calls[c].historical > 0,
         Finish(c, Fail(kind)),
         lastErr' \in [Callers -> Failures \union {None}],
         \A d \in Callers \ {c} : lastErr'[d] = lastErr[d],
         calls[c].fallback > 0 => lastErr'[c] = lastErr[c],
         UNCHANGED <<clock, cache, callerVars, attempt, doomed, cancelled, fetched, calls,
                     collector>>
  PROVE  IInv'
<1>1. TypeOK /\ CallerInv(c)
  BY DEF IInv
<1>2. /\ pc' = [pc EXCEPT ![c] = "done"]
      /\ result' = [result EXCEPT ![c] = [kind |-> kind]]
  BY DEF Finish, Fail
<1>3. TypeOK'
  BY <1>1, <1>2 DEF TypeOK, callerVars, Results
<1>4. CacheInv'
  BY DEF IInv, CacheInv
<1>5. CallerInv(c)'
  <2>1. Asked(c)' /\ Counted(c)' /\ ToStore(c)'
    BY <1>1, <1>2 DEF TypeOK, callerVars, CallerInv, Asked, Counted, ToStore, Upstream, GaveUp
  <2>2. result'[c] = [kind |-> kind] /\ pc'[c] = "done"
    BY <1>1, <1>2 DEF TypeOK
  <2>3. Returned(c)'
    BY <2>2 DEF Returned, Quoted, Fail
  <2>. QED
    BY <2>1, <2>3 DEF CallerInv
<1>6. \A d \in Callers \ {c} : Untouched(d)
  BY <1>1, <1>2 DEF TypeOK, Untouched, callerVars
<1>. QED
  BY <1>3, <1>4, <1>5, <1>6, StepOf

LEMMA StaleLookupInv ==
  ASSUME IInv, NEW c \in Callers, StaleLookup(c)
  PROVE  IInv'
<1>1. /\ TypeOK /\ CallerInv(c) /\ pc[c] = "lookup" /\ pc[c] \in Upstream
      /\ pair[c] \in Pairs /\ calls[c].fallback = 1 /\ clock \in Nat
  BY DEF IInv, StaleLookup, CallerInv, Asked, Counted, Upstream, TypeOK
<1>2. UNCHANGED <<clock, cache, callerVars, attempt, doomed, cancelled, fetched, lastErr,
                  calls, collector>>
  BY DEF StaleLookup
<1>3. CASE cache[pair[c]] = None
  <2>1. Finish(c, Fail("unavailable"))
    BY <1>3 DEF StaleLookup
  <2>2. lastErr' \in [Callers -> Failures \union {None}]
    BY <1>1, <1>2 DEF TypeOK
  <2>. QED
    BY <1>1, <1>2, <2>1, <2>2, FinishFailed
<1>4. CASE cache[pair[c]] # None
  <2> DEFINE q == cache[pair[c]].quote
             worse == [q EXCEPT !.stale = TRUE, !.degraded = TRUE]
  <2>1. /\ pc' = [pc EXCEPT ![c] = "done"]
        /\ result' = [result EXCEPT ![c] = [kind |-> "quote", quote |-> worse, at |-> clock]]
    BY <1>4 DEF StaleLookup, Finish, Return, Degrade
  <2>2. q \in Quote /\ q.pair = pair[c] /\ q.source \in {"live", "fallback"}
    BY <1>1, <1>4 DEF TypeOK, Item, IInv, CacheInv
  <2>3. /\ worse \in Quote /\ worse.pair = pair[c] /\ worse.source \in {"live", "fallback"}
        /\ worse.stale
    BY <2>2 DEF Quote
  <2> HIDE DEF worse
  <2>4. TypeOK'
    <3>1. [kind |-> "quote", quote |-> worse, at |-> clock] \in Results
      BY <1>1, <2>3 DEF Results
    <3>. QED
      BY <1>1, <1>2, <2>1, <3>1 DEF TypeOK, callerVars
  <2>5. CacheInv'
    BY <1>2 DEF IInv, CacheInv
  <2>6. CallerInv(c)'
    <3>1. Asked(c)' /\ Counted(c)' /\ ToStore(c)'
      BY <1>1, <1>2, <2>1 DEF TypeOK, callerVars, CallerInv, Asked, Counted, ToStore, Upstream, GaveUp
    <3>2. /\ result'[c] = [kind |-> "quote", quote |-> worse, at |-> clock]
          /\ pc'[c] = "done" /\ pair'[c] = pair[c] /\ calls'[c].fallback = 1
      BY <1>1, <1>2, <2>1 DEF TypeOK, callerVars
    <3>3. Returned(c)'
      BY <2>3, <3>2 DEF Returned, Quoted, Fail
    <3>. QED
      BY <3>1, <3>3 DEF CallerInv
  <2>7. \A d \in Callers \ {c} : Untouched(d)
    BY <1>1, <1>2, <2>1 DEF TypeOK, Untouched, callerVars
  <2>. QED
    BY <1>2, <2>4, <2>5, <2>6, <2>7, StepOf
<1>. QED
  BY <1>3, <1>4

-----------------------------------------------------------------------------
(* The historical lookup *)

LEMMA HistoricalSucceedsInv ==
  ASSUME IInv, NEW c \in Callers, HistoricalSucceeds(c)
  PROVE  IInv'
<1> DEFINE q == [pair |-> pair[c], timestamp |-> day[c],
                 published |-> AdjustHistoricalDate(day[c]),
                 source |-> "historical", stale |-> FALSE, degraded |-> FALSE]
<1>1. /\ TypeOK /\ CallerInv(c) /\ pc[c] = "historical" /\ clock \in Nat
      /\ pair[c] \in Pairs /\ day[c] \in HistoricalDays
  BY DEF IInv, HistoricalSucceeds, CallerInv, Asked, Upstream, TypeOK
<1>2. /\ pc' = [pc EXCEPT ![c] = "done"]
      /\ result' = [result EXCEPT ![c] = [kind |-> "quote", quote |-> q, at |-> clock]]
      /\ UNCHANGED <<clock, cache, callerVars, attempt, doomed, cancelled, fetched, lastErr,
                     calls, collector>>
  BY DEF HistoricalSucceeds, Finish, Return
<1>3. q \in Quote
  <2>1. pair[c] \in Currencies \X Currencies /\ day[c] \in Nat
    BY <1>1, PairsAreTyped, ProviderAssumption
  <2>2. AdjustHistoricalDate(day[c]) \in Int
    BY <2>1 DEF AdjustHistoricalDate
  <2>. QED
    BY <2>1, <2>2 DEF Quote, Sources
<1>4. TypeOK'
  <2>1. [kind |-> "quote", quote |-> q, at |-> clock] \in Results
    BY <1>1, <1>3 DEF Results
  <2>. QED
    BY <1>1, <1>2, <2>1 DEF TypeOK, callerVars
<1>5. CacheInv'
  BY <1>2 DEF IInv, CacheInv
<1>6. CallerInv(c)'
  <2>1. Asked(c)' /\ Counted(c)' /\ ToStore(c)'
    BY <1>1, <1>2 DEF TypeOK, callerVars, CallerInv, Asked, Counted, ToStore, Upstream, GaveUp
  <2>2. /\ result'[c] = [kind |-> "quote", quote |-> q, at |-> clock]
        /\ pc'[c] = "done" /\ pair'[c] = pair[c] /\ day'[c] = day[c]
    BY <1>1, <1>2 DEF TypeOK, callerVars
  <2>3. Returned(c)'
    BY <1>1, <2>2 DEF Returned, Quoted, Fail
  <2>. QED
    BY <2>1, <2>3 DEF CallerInv
<1>7. \A d \in Callers \ {c} : Untouched(d)
  BY <1>1, <1>2 DEF TypeOK, Untouched, callerVars
<1>. QED
  BY <1>2, <1>4, <1>5, <1>6, <1>7, StepOf

LEMMA HistoricalFailsInv ==
  ASSUME IInv, NEW c \in Callers, HistoricalFails(c)
  PROVE  IInv'
<1>1. /\ TypeOK /\ CallerInv(c) /\ pc[c] = "historical" /\ pc[c] \in Upstream
      /\ calls[c].historical > 0 /\ calls[c].fallback = 0
  BY DEF IInv, HistoricalFails, CallerInv, Asked, Counted, Upstream
<1>2. PICK error \in FailuresOf(c) :
        /\ lastErr' = [lastErr EXCEPT ![c] = error]
        /\ IF GivesUp(c, error)
             THEN Finish(c, Fail("unavailable"))
             ELSE pc' = [pc EXCEPT ![c] = "historicalBackoff"] /\ UNCHANGED result
  BY DEF HistoricalFails
<1>3. error \in Failures
  BY DEF FailuresOf, Failures
<1>4. UNCHANGED <<clock, cache, callerVars, attempt, doomed, cancelled, fetched, calls,
                  collector>>
  BY DEF HistoricalFails
<1>5. /\ lastErr' \in [Callers -> Failures \union {None}] /\ lastErr'[c] = error
      /\ \A d \in Callers \ {c} : lastErr'[d] = lastErr[d]
  BY <1>1, <1>2, <1>3 DEF TypeOK
<1>6. CASE GivesUp(c, error)
  BY <1>1, <1>2, <1>4, <1>5, <1>6, FinishFailed
<1>7. CASE ~GivesUp(c, error)
  <2>1. pc' = [pc EXCEPT ![c] = "historicalBackoff"] /\ UNCHANGED result
    BY <1>2, <1>7
  <2>2. error # "permanent" /\ attempt[c] < MaxAttempts
    <3>1. error # "permanent" /\ attempt[c] # MaxAttempts
      BY <1>7 DEF GivesUp
    <3>2. attempt[c] \in 0 .. MaxAttempts
      BY <1>1 DEF TypeOK
    <3>. QED
      BY <3>1, <3>2, ProviderAssumption
  <2>3. TypeOK'
    BY <1>1, <1>4, <1>5, <2>1 DEF TypeOK, callerVars
  <2>4. CacheInv'
    BY <1>4 DEF IInv, CacheInv
  <2>5. CallerInv(c)'
    BY <1>1, <1>4, <1>5, <2>1, <2>2 DEF TypeOK, callerVars, CallerInv, Asked, Counted, ToStore,
       Returned, Quoted, Upstream, GaveUp
  <2>6. \A d \in Callers \ {c} : Untouched(d)
    BY <1>1, <1>4, <1>5, <2>1 DEF TypeOK, Untouched, callerVars
  <2>. QED
    BY <1>4, <2>3, <2>4, <2>5, <2>6, StepOf
<1>. QED
  BY <1>6, <1>7

LEMMA HistoricalAbandonInv ==
  ASSUME IInv, NEW c \in Callers, HistoricalAbandon(c)
  PROVE  IInv'
<1>1. pc[c] \in Upstream /\ lastErr' \in [Callers -> Failures \union {None}]
  BY DEF HistoricalAbandon, Upstream, IInv, TypeOK
<1>. QED
  BY <1>1, FinishFailed DEF HistoricalAbandon

-----------------------------------------------------------------------------
(* The environment *)

LEMMA CancelInv ==
  ASSUME IInv, NEW c \in Callers, Cancel(c)
  PROVE  IInv'
<1>1. TypeOK /\ CallerInv(c)
  BY DEF IInv
<1>2. /\ cancelled' = [cancelled EXCEPT ![c] = TRUE]
      /\ UNCHANGED <<clock, cache, pc, callerVars, attempt, doomed, fetched, lastErr, result,
                     calls, collector>>
  BY DEF Cancel
<1>3. TypeOK' /\ CacheInv'
  BY <1>1, <1>2 DEF TypeOK, callerVars, IInv, CacheInv
<1>4. CallerInv(c)'
  BY <1>1, <1>2 DEF callerVars, CallerInv, Asked, Counted, ToStore, Returned, Quoted, GaveUp
<1>5. \A d \in Callers \ {c} : Untouched(d)
  BY <1>2 DEF Untouched, callerVars
<1>. QED
  BY <1>2, <1>3, <1>4, <1>5, StepOf

LEMMA TickInv ==
  ASSUME IInv, Tick
  PROVE  IInv'
<1>1. /\ clock \in Nat /\ clock' = clock + 1
      /\ \A c \in Callers : pc[c] = "storing" => clock - fetched[c].at < MaxLag
      /\ UNCHANGED <<cache, pc, callerVars, attempt, doomed, cancelled, fetched, lastErr,
                     result, calls, collector>>
  BY DEF Tick, IInv, TypeOK
<1>2. TypeOK' /\ CacheInv'
  BY <1>1 DEF IInv, TypeOK, CacheInv, callerVars
<1>3. ASSUME NEW c \in Callers PROVE CallerInv(c)'
  <2>1. CallerInv(c)
    BY DEF IInv
  <2>2. Asked(c)' /\ Counted(c)' /\ Returned(c)'
    BY <1>1, <2>1 DEF callerVars, CallerInv, Asked, Counted, Returned, Quoted, GaveUp
  <2>3. ToStore(c)'
    <3>1. CASE pc[c] = "storing"
      <4>1. /\ fetched[c] \in [quote : Quote, at : Nat]
            /\ fetched[c].at <= clock /\ clock - fetched[c].at < MaxLag
        BY <1>1, <2>1, <3>1 DEF CallerInv, ToStore
      <4>2. fetched[c].at <= clock + 1 /\ clock + 1 - fetched[c].at <= MaxLag
        BY <1>1, <4>1, ProviderAssumption
      <4>. QED
        BY <1>1, <2>1, <3>1, <4>2 DEF CallerInv, ToStore, callerVars
    <3>2. CASE pc[c] # "storing"
      BY <1>1, <3>2 DEF ToStore
    <3>. QED
      BY <3>1, <3>2
  <2>. QED
    BY <2>2, <2>3 DEF CallerInv
<1>. QED
  BY <1>2, <1>3 DEF IInv

LEMMA NextInv == IInv /\ [Next]_vars => IInv'
<1> SUFFICES ASSUME IInv, [Next]_vars PROVE IInv'
  OBVIOUS
<1>1. CASE UNCHANGED vars
  <2>1. TypeOK' /\ CacheInv'
    BY <1>1 DEF vars, callerVars, IInv, TypeOK, CacheInv
  <2>2. ASSUME NEW c \in Callers PROVE CallerInv(c)'
    BY <1>1 DEF vars, callerVars, IInv, CallerInv, Asked, Counted, ToStore, Returned, Quoted, GaveUp
  <2>. QED
    BY <2>1, <2>2 DEF IInv
<1>2. ASSUME NEW c \in Callers, Call(c) \/ CallHistorical(c) PROVE IInv'
  BY <1>2, CallUnsupportedInv, CallIdentityInv, CallHitInv, CallMissInv, CallHistoricalInv DEF Call
<1>3. ASSUME NEW c \in Callers, Proceed(c) PROVE IInv'
  BY <1>3, FetchedInv, PrimaryFailsInv, RetryInv, AbandonRetryInv, FallbackFailsInv, StoreInv,
     StaleLookupInv, HistoricalSucceedsInv, HistoricalFailsInv, HistoricalAbandonInv DEF Proceed
<1>. QED
  BY <1>1, <1>2, <1>3, CancelInv, TickInv DEF Next

LEMMA InvariantHolds == Spec => []IInv
BY InitInv, NextInv, PTL DEF Spec

-----------------------------------------------------------------------------
(* The properties *)

LEMMA InvImpliesReturned ==
  ASSUME IInv
  PROVE  FallbackOrder /\ CachePristine /\ QuoteMatchesPair /\ NotStaleBound
<1>1. \A c \in Callers : Counted(c) /\ Returned(c)
  BY DEF IInv, CallerInv
<1>2. FallbackOrder
  BY <1>1 DEF Counted, Returned, FallbackOrder
<1>3. CachePristine
  BY DEF IInv, CacheInv, CachePristine
<1>4. QuoteMatchesPair
  BY <1>1 DEF Returned, QuoteMatchesPair
<1>5. NotStaleBound
  BY <1>1 DEF Returned, NotStaleBound, Bound
<1>. QED
  BY <1>2, <1>3, <1>4, <1>5

\* For every number of callers the fallback is asked only when the primary source has
\* failed for good, and neither a stale quote nor an error is returned before it has failed.
THEOREM FallbackOrderCorrect == Spec => []FallbackOrder
BY InvariantHolds, InvImpliesReturned, PTL

\* No quote that was degraded for one caller is in the cache for the others.
THEOREM CachePristineCorrect == Spec => []CachePristine
BY InvariantHolds, InvImpliesReturned, PTL

\* Callers are quoted the pair that they asked for, whoever stored the quote.
THEOREM QuoteMatchesPairCorrect == Spec => []QuoteMatchesPair
BY InvariantHolds, InvImpliesReturned, PTL

\* However the callers interleave, what is quoted without a flag is at most the freshness
\* SLA, the lag of its Set and a cache TTL old.
THEOREM NotStaleBoundCorrect == Spec => []NotStaleBound
BY InvariantHolds, InvImpliesReturned, PTL

\* FX_RETRY_MAX_ATTEMPTS bounds the upstream calls of a request, whatever is cancelled when.
THEOREM RetryBudgetCorrect == Spec => []RetryBudget
<1>1. ASSUME IInv PROVE RetryBudget
  <2> SUFFICES ASSUME NEW c \in Callers
               PROVE  /\ calls[c].primary + calls[c].historical <= MaxAttempts
                      /\ calls[c].fallback <= 1
    BY DEF RetryBudget
  <2>1. attempt[c] \in 0 .. MaxAttempts /\ Counted(c)
    BY <1>1 DEF IInv, TypeOK, CallerInv
  <2>. QED
    BY <2>1, ProviderAssumption DEF Counted
<1>. QED
  BY <1>1, InvariantHolds, PTL

\* The shift of a weekend finds the last business day, from whatever day.
LEMMA LastBusinessDay ==
  ASSUME NEW t \in Nat
  PROVE  LET d == AdjustHistoricalDate(t)
         IN  /\ d % 7 \notin {0, 6}
             /\ d <= t
             /\ \A e \in d + 1 .. t : e % 7 \in {0, 6}
<1>1. CASE t % 7 = 6
  <2>1. AdjustHistoricalDate(t) = t - 1
    BY <1>1 DEF AdjustHistoricalDate
  <2>2. (t - 1) % 7 = 5 /\ \A e \in (t - 1) + 1 .. t : e = t
    BY <1>1
  <2>. QED
    BY <1>1, <2>1, <2>2
<1>2. CASE t % 7 = 0
  <2>1. AdjustHistoricalDate(t) = t - 2
    BY <1>2 DEF AdjustHistoricalDate
  <2>2. (t - 2) % 7 = 5 /\ (t - 1) % 7 = 6 /\ \A e \in (t - 2) + 1 .. t : e \in {t - 1, t}
    BY <1>2
  <2>. QED
    BY <1>2, <2>1, <2>2
<1>3. CASE t % 7 \notin {0, 6}
  <2>1. AdjustHistoricalDate(t) = t
    BY <1>3 DEF AdjustHistoricalDate
  <2>. QED
    BY <1>3, <2>1
<1>. QED
  BY <1>1, <1>2, <1>3

\* A historical rate is that of the last business day up to the day asked for.
THEOREM HistoricalBusinessDayCorrect == Spec => []HistoricalBusinessDay
<1>1. ASSUME IInv PROVE HistoricalBusinessDay
  <2> SUFFICES ASSUME NEW c \in Callers, Quoted(c), result[c].quote.source = "historical"
               PROVE  LET d == result[c].quote.published
                      IN  /\ d % 7 \notin {0, 6}
                          /\ d <= day[c]
                          /\ \A e \in d + 1 .. day[c] : e % 7 \in {0, 6}
    BY DEF HistoricalBusinessDay
  <2>1. day[c] \in Nat /\ result[c].quote.published = AdjustHistoricalDate(day[c])
    BY <1>1, ProviderAssumption DEF IInv, CallerInv, Returned
  <2>. QED
    BY <2>1, LastBusinessDay
<1>. QED
  BY <1>1, InvariantHolds, PTL

\* Who may still call the primary or the historical source has not been refused by it.
LEMMA StepAfterPermanent ==
  ASSUME IInv, [Next]_vars, NEW c \in Callers, lastErr[c] = "permanent"
  PROVE  /\ calls'[c].primary = calls[c].primary
         /\ calls'[c].historical = calls[c].historical
<1>1. /\ calls \in [Callers -> [primary : Nat, fallback : Nat, historical : Nat]]
      /\ pc[c] \notin {"idle", "primary", "backoff", "historical", "historicalBackoff"}
  BY DEF IInv, TypeOK, CallerInv, Counted
<1>2. CASE UNCHANGED calls
  BY <1>2
<1>3. ASSUME NEW d \in Callers,
             CallMiss(d) \/ CallHistorical(d) \/ PrimaryFails(d) \/ Retry(d) \/ AbandonRetry(d)
               \/ HistoricalRetry(d)
      PROVE  /\ calls'[c].primary = calls[c].primary
             /\ calls'[c].historical = calls[c].historical
  <2>1. pc[d] \in {"idle", "primary", "backoff", "historicalBackoff"}
    BY <1>3 DEF CallMiss, CallHistorical, PrimaryFails, Retry, AbandonRetry, HistoricalRetry, Ask
  <2>2. c # d
    BY <1>1, <2>1
  <2>3. \/ UNCHANGED calls
        \/ \E source \in {"primary", "fallback", "historical"} :
             calls' = [calls EXCEPT ![d][source] = @ + 1]
    BY <1>3 DEF CallMiss, CallHistorical, PrimaryFails, Retry, AbandonRetry, HistoricalRetry, Issue
  <2>. QED
    BY <1>1, <2>2, <2>3
<1>4. \/ UNCHANGED calls
      \/ \E d \in Callers :
           CallMiss(d) \/ CallHistorical(d) \/ PrimaryFails(d) \/ Retry(d) \/ AbandonRetry(d)
             \/ HistoricalRetry(d)
  BY DEF Next, vars, Call, Proceed, CallUnsupported, CallIdentity, CallHit, PrimarySucceeds,
     FallbackSucceeds, FallbackFails, Store, StaleLookup, HistoricalSucceeds, HistoricalFails,
     HistoricalAbandon, Cancel, Tick
<1>. QED
  BY <1>2, <1>3, <1>4

\* A source that has answered with a final error is not asked again for the request.
THEOREM NoRetryAfterPermanentCorrect == Spec => NoRetryAfterPermanent
<1>1. IInv /\ [Next]_vars =>
        [\A c \in Callers :
           lastErr[c] = "permanent" =>
             /\ calls'[c].primary = calls[c].primary
             /\ calls'[c].historical = calls[c].historical]_vars
  BY StepAfterPermanent
<1>. QED
  BY <1>1, InvariantHolds, PTL DEF Spec, NoRetryAfterPermanent

\* No step takes an item out of the cache.
LEMMA CacheKept ==
  ASSUME IInv, [Next]_vars, NEW p \in Pairs, cache[p] # None
  PROVE  cache'[p] # None
<1>1. CASE UNCHANGED cache
  BY <1>1
<1>2. ASSUME NEW c \in Callers, Store(c) PROVE cache'[p] # None
  <2> DEFINE item == [quote |-> fetched[c].quote, expiresAt |-> clock + CacheTTL]
  <2>1. cache' = [cache EXCEPT ![Key(fetched[c].quote)] = item]
    BY <1>2 DEF Store
  <2>2. pc[c] = "storing" /\ ToStore(c) /\ clock \in Nat
    BY <1>2 DEF Store, IInv, CallerInv, TypeOK
  <2>3. item \in Item
    BY <2>2, ProviderAssumption DEF ToStore, Item
  <2>4. item # None
    BY <2>3, NoneAssumption
  <2>5. cache \in [Pairs -> Item \union {None}]
    BY DEF IInv, TypeOK
  <2> HIDE DEF item
  <2>. QED
    BY <2>1, <2>4, <2>5
<1>3. UNCHANGED cache \/ \E c \in Callers : Store(c)
  BY DEF Next, vars, Call, Proceed, CallUnsupported, CallIdentity, CallHit, CallMiss, CallHistorical,
     PrimarySucceeds, PrimaryFails, Retry, AbandonRetry, FallbackSucceeds, FallbackFails, StaleLookup,
     HistoricalSucceeds, HistoricalFails, HistoricalRetry, HistoricalAbandon, Cancel, Tick
<1>. QED
  BY <1>1, <1>2, <1>3

\* Who looks up the cache as a last resort is returned what is there.
LEMMA LookupServed ==
  ASSUME IInv, [Next]_vars, NEW c \in Callers, pc[c] = "lookup", cache[pair[c]] # None
  PROVE  result'[c] # Fail("unavailable")
<1>1. result[c] = None /\ result \in [Callers -> Results \union {None}]
  BY DEF IInv, TypeOK, CallerInv, Returned
<1>2. None # Fail("unavailable")
  BY NoneAssumption DEF Results, Fail
<1>3. CASE StaleLookup(c)
  <2>1. result'[c] = Return(Degrade(cache[pair[c]].quote))
    BY <1>1, <1>3 DEF StaleLookup, Finish
  <2>. QED
    BY <2>1 DEF Return, Fail
<1>4. CASE result'[c] = result[c]
  BY <1>1, <1>2, <1>4
<1>5. ASSUME NEW d \in Callers,
             Call(d) \/ Store(d) \/ StaleLookup(d) \/ HistoricalSucceeds(d) \/ HistoricalFails(d)
               \/ HistoricalAbandon(d)
      PROVE  StaleLookup(c) \/ result'[c] = result[c]
  <2>1. CASE d = c
    BY <1>5, <2>1 DEF Call, CallUnsupported, CallIdentity, CallHit, CallMiss, Ask, Store,
       HistoricalSucceeds, HistoricalFails, HistoricalAbandon
  <2>2. CASE d # c
    <3>1. UNCHANGED result \/ \E x : result' = [result EXCEPT ![d] = x]
      BY <1>5 DEF Call, CallUnsupported, CallIdentity, CallHit, CallMiss, Store, StaleLookup,
         HistoricalSucceeds, HistoricalFails, HistoricalAbandon, Finish
    <3>. QED
      BY <1>1, <2>2, <3>1
  <2>. QED
    BY <2>1, <2>2
<1>6. \/ UNCHANGED result
      \/ \E d \in Callers :
           Call(d) \/ Store(d) \/ StaleLookup(d) \/ HistoricalSucceeds(d) \/ HistoricalFails(d)
             \/ HistoricalAbandon(d)
  BY DEF Next, vars, Proceed, CallHistorical, PrimarySucceeds, PrimaryFails, Retry, AbandonRetry,
     FallbackSucceeds, FallbackFails, HistoricalRetry, Cancel, Tick
<1>. QED
  BY <1>3, <1>4, <1>5, <1>6

\* Once a pair is cached it is never lost, however the callers interleave, and it is found
\* when both sources fail.
THEOREM OnceCachedAlwaysServedCorrect == Spec => OnceCachedAlwaysServed
<1>1. IInv /\ [Next]_vars =>
        [/\ \A p \in Pairs : cache[p] # None => cache'[p] # None
         /\ \A c \in Callers :
              pc[c] = "lookup" /\ cache[pair[c]] # None => result'[c] # Fail("unavailable")]_vars
  BY CacheKept, LookupServed
<1>. QED
  BY <1>1, InvariantHolds, PTL DEF Spec, OnceCachedAlwaysServed

-----------------------------------------------------------------------------
(* The counters of the collector agree with the calls that were made.       *)

\* Of which source the calls of a retry loop are.
OwnLoop(c) ==
  /\ pc[c] \in {"primary", "backoff", "fallback", "storing", "lookup"} => calls[c].primary > 0
  /\ pc[c] \in {"historical", "historicalBackoff"} => calls[c].primary = 0

FailedCalls == [c \in Callers |-> FailedPrimary(c)]
Missed == {c \in Callers : calls[c].primary > 0}
Hit == {c \in Callers : FromCache(c)}

AccountInv == (\A c \in Callers : OwnLoop(c)) /\ MetricsAccount

\* Who has no result yet was not served from the cache.
LEMMA NotServedYet ==
  ASSUME IInv, NEW c \in Callers, pc[c] # "done"
  PROVE  result[c] = None /\ ~FromCache(c)
BY DEF IInv, CallerInv, Returned, FromCache, Quoted

\* How much a step of caller c adds to the counters, c the only caller that it concerns.
LEMMA StepAccounts ==
  ASSUME IInv, IInv', AccountInv, NEW c \in Callers,
         \A d \in Callers \ {c} :
             pc'[d] = pc[d] /\ calls'[d] = calls[d] /\ result'[d] = result[d],
         OwnLoop(c)',
         ~FromCache(c),
         collector'.hits = collector.hits + (IF FromCache(c)' THEN 1 ELSE 0),
         calls[c].primary > 0 => calls'[c].primary > 0,
         collector'.misses = collector.misses
           + (IF calls[c].primary = 0 /\ calls'[c].primary > 0 THEN 1 ELSE 0),
         collector'.failures = collector.failures + (FailedPrimary(c)' - FailedPrimary(c))
  PROVE  AccountInv'
<1>1. /\ IsFiniteSet(Callers)
      /\ calls \in [Callers -> [primary : Nat, fallback : Nat, historical : Nat]]
      /\ calls' \in [Callers -> [primary : Nat, fallback : Nat, historical : Nat]]
  BY ProviderAssumption DEF IInv, TypeOK
<1>2. \A d \in Callers : OwnLoop(d)'
  BY DEF AccountInv, OwnLoop
<1>3. collector'.misses = Cardinality(Missed')
  <2>1. IsFiniteSet(Missed) /\ Cardinality(Missed) \in Nat
    BY <1>1, FS_Subset, FS_CardinalityType DEF Missed
  <2>2. collector.misses = Cardinality(Missed)
    BY DEF AccountInv, MetricsAccount, Missed
  <2>3. CASE calls[c].primary = 0 /\ calls'[c].primary > 0
    <3>1. c \notin Missed /\ Missed' = Missed \cup {c}
      BY <1>1, <2>3 DEF Missed
    <3>2. Cardinality(Missed \cup {c}) = Cardinality(Missed) + 1
      BY <2>1, <3>1, FS_AddElement
    <3> QED
      BY <2>2, <2>3, <3>1, <3>2
  <2>4. CASE ~(calls[c].primary = 0 /\ calls'[c].primary > 0)
    <3>1. calls[c].primary \in Nat /\ calls'[c].primary \in Nat
      BY <1>1
    <3>2. Missed' = Missed
      BY <1>1, <2>4, <3>1 DEF Missed
    <3> QED
      BY <2>1, <2>2, <2>4, <3>2
  <2> QED
    BY <2>3, <2>4
<1>4. collector'.failures = SumFunction(FailedCalls')
  <2> DEFINE f == FailedCalls
             g == FailedCalls'
  <2>1. /\ \A d \in Callers : f[d] = FailedPrimary(d) /\ f[d] \in Int
        /\ DOMAIN f = Callers
    BY <1>1 DEF FailedCalls, FailedPrimary
  <2>2. /\ \A d \in Callers : g[d] = FailedPrimary(d)' /\ g[d] \in Int
        /\ DOMAIN g = Callers
    BY <1>1 DEF FailedCalls, FailedPrimary
  <2>3. \A d \in Callers \ {c} : f[d] = g[d]
    BY <2>1, <2>2 DEF FailedPrimary
  <2>4. SumFunctionOnSet(f, Callers) = collector.failures
    BY <2>1 DEF AccountInv, MetricsAccount, SumFunction, FailedCalls
  <2> HIDE DEF f, g
  <2>5. SumFunctionOnSet(g, Callers) = SumFunctionOnSet(f, Callers) + (g[c] - f[c])
    <3>1. IsFiniteSet(Callers) /\ c \in Callers
      BY <1>1
    <3>2. \A d \in Callers : f[d] \in Int /\ g[d] \in Int
      BY <2>1, <2>2
    <3> QED
      BY ONLY <3>1, <3>2, <2>3, SumOfChange
  <2>6. collector'.failures = SumFunctionOnSet(g, Callers)
    BY <2>1, <2>2, <2>4, <2>5
  <2> QED
    BY <2>2, <2>6 DEF SumFunction, g
<1>5. collector'.hits = Cardinality(Hit')
  <2>1. IsFiniteSet(Hit) /\ Cardinality(Hit) \in Nat
    BY <1>1, FS_Subset, FS_CardinalityType DEF Hit
  <2>2. collector.hits = Cardinality(Hit)
    BY DEF AccountInv, MetricsAccount, Hit
  <2>3. \A d \in Callers \ {c} : FromCache(d)' <=> FromCache(d)
    BY DEF FromCache, Quoted
  <2>4. CASE FromCache(c)'
    <3>1. c \notin Hit /\ Hit' = Hit \cup {c}
      BY <2>3, <2>4 DEF Hit
    <3>2. Cardinality(Hit \cup {c}) = Cardinality(Hit) + 1
      BY <2>1, <3>1, FS_AddElement
    <3> QED
      BY <2>2, <2>4, <3>1, <3>2
  <2>5. CASE ~FromCache(c)'
    <3>1. Hit' = Hit
      BY <2>3, <2>5 DEF Hit
    <3> QED
      BY <2>1, <2>2, <2>5, <3>1
  <2> QED
    BY <2>4, <2>5
<1> QED
  BY <1>2, <1>3, <1>4, <1>5 DEF AccountInv, MetricsAccount, Missed, Hit, FailedCalls

\* Steps that neither call the primary source nor hear from it in vain.
LEMMA SameAccount ==
  ASSUME IInv, IInv', AccountInv, NEW c \in Callers,
         \A d \in Callers \ {c} :
             pc'[d] = pc[d] /\ calls'[d] = calls[d] /\ result'[d] = result[d],
         OwnLoop(c)',
         ~FromCache(c),
         collector'.hits = collector.hits + (IF FromCache(c)' THEN 1 ELSE 0),
         calls'[c].primary = calls[c].primary,
         collector'.misses = collector.misses, collector'.failures = collector.failures,
         FailedPrimary(c)' = FailedPrimary(c)
  PROVE  AccountInv'
<1>1. /\ calls \in [Callers -> [primary : Nat, fallback : Nat, historical : Nat]]
      /\ collector \in [hits : Nat, misses : Nat, failures : Nat]
  BY DEF IInv, TypeOK
<1>2. FailedPrimary(c) \in Int /\ calls[c].primary \in Nat
  BY <1>1 DEF FailedPrimary
<1>3. collector'.misses = collector.misses
        + (IF calls[c].primary = 0 /\ calls'[c].primary > 0 THEN 1 ELSE 0)
  BY <1>1, <1>2
<1>4. collector'.failures = collector.failures + (FailedPrimary(c)' - FailedPrimary(c))
  BY <1>1, <1>2
<1> QED
  BY <1>3, <1>4, StepAccounts

LEMMA CallAccount ==
  ASSUME IInv, IInv', AccountInv, NEW c \in Callers, Call(c) \/ CallHistorical(c)
  PROVE  AccountInv'
<1>1. /\ calls \in [Callers -> [primary : Nat, fallback : Nat, historical : Nat]]
      /\ collector \in [hits : Nat, misses : Nat, failures : Nat]
      /\ pc \in [Callers -> {"idle", "primary", "backoff", "fallback", "storing", "lookup",
                             "historical", "historicalBackoff", "done"}]
      /\ result \in [Callers -> Results \cup {None}]
  BY DEF IInv, TypeOK
<1>2. pc[c] = "idle"
  BY DEF Call, CallUnsupported, CallIdentity, CallHit, CallMiss, CallHistorical, Ask
<1>3. calls[c].primary = 0 /\ calls[c].historical = 0 /\ calls[c].fallback = 0
  BY <1>1, <1>2 DEF IInv, CallerInv, Counted
<1>4. FailedPrimary(c) = 0 /\ ~FromCache(c) /\ result[c] = None
  BY <1>2, <1>3, NotServedYet DEF FailedPrimary
<1>5. CASE CallUnsupported(c) \/ CallIdentity(c) \/ CallHit(c)
  <2> DEFINE r == result'[c]
  <2>1. /\ pc' = [pc EXCEPT ![c] = "done"] /\ calls' = calls
        /\ result' = [result EXCEPT ![c] = r]
    BY <1>1, <1>5 DEF CallUnsupported, CallIdentity, CallHit, Finish
  <2>2. FailedPrimary(c)' = 0 /\ OwnLoop(c)'
    BY <1>1, <1>3, <2>1 DEF FailedPrimary, OwnLoop
  <2>3. \A d \in Callers \ {c} :
          pc'[d] = pc[d] /\ calls'[d] = calls[d] /\ result'[d] = result[d]
    BY <1>1, <2>1
  <2>4. CASE CallUnsupported(c) \/ CallIdentity(c)
    <3>1. collector' = collector
      BY <2>4 DEF CallUnsupported, CallIdentity
    <3>2. ~FromCache(c)'
      <4>1. CASE CallUnsupported(c)
        <5>1. r = Fail("unsupported")
          BY <1>1, <4>1 DEF CallUnsupported, Finish
        <5> QED
          BY <5>1 DEF FromCache, Quoted, Fail
      <4>2. CASE CallIdentity(c)
        <5>1. r.quote.source = "identity"
          BY <1>1, <4>2 DEF CallIdentity, Finish, Return
        <5> QED
          BY <5>1 DEF FromCache
      <4> QED
        BY <2>4, <4>1, <4>2
    <3>3. collector'.hits = collector.hits + (IF FromCache(c)' THEN 1 ELSE 0)
      BY <1>1, <3>1, <3>2
    <3> QED
      BY <1>4, <2>1, <2>2, <2>3, <3>1, <3>3, SameAccount
  <2>5. CASE CallHit(c)
    <3>1. PICK p \in Pairs : IsFresh(p) /\ r = Return(cache[p].quote)
      BY <1>1, <2>5 DEF CallHit, Finish
    <3>2. cache[p].quote.source \in {"live", "fallback"}
      BY <3>1 DEF IsFresh, IInv, CacheInv
    <3>3. r.kind = "quote" /\ r.quote = cache[p].quote
      BY <3>1 DEF Return
    <3>4. r # None
      <4>1. r \in Results
        BY <1>1, <3>1, <3>3, NoneAssumption DEF IInv, TypeOK, Results, Return, IsFresh, Item
      <4> QED
        BY <4>1, NoneAssumption
    <3>5. calls'[c].primary = 0
      BY <1>3, <2>1
    <3>6. FromCache(c)'
      BY <3>2, <3>3, <3>4, <3>5 DEF FromCache, Quoted
    <3>7. collector' = [collector EXCEPT !.hits = @ + 1]
      BY <2>5 DEF CallHit
    <3>8. /\ collector'.hits = collector.hits + (IF FromCache(c)' THEN 1 ELSE 0)
          /\ collector'.misses = collector.misses /\ collector'.failures = collector.failures
      BY <1>1, <3>6, <3>7
    <3> QED
      BY <1>4, <2>1, <2>2, <2>3, <3>8, SameAccount
  <2> QED
    BY <1>5, <2>4, <2>5
<1>6. CASE CallHistorical(c)
  <2>1. /\ pc' = [pc EXCEPT ![c] = "historical"]
        /\ calls' = [calls EXCEPT ![c].historical = @ + 1]
        /\ collector' = collector /\ result' = result
    BY <1>6 DEF CallHistorical, Issue
  <2>2. /\ calls'[c].primary = 0
        /\ \A d \in Callers \ {c} :
             pc'[d] = pc[d] /\ calls'[d] = calls[d] /\ result'[d] = result[d]
    BY <1>1, <1>3, <2>1
  <2>3. FailedPrimary(c)' = 0 /\ OwnLoop(c)' /\ ~FromCache(c)'
    BY <1>1, <1>4, <2>1, <2>2 DEF FailedPrimary, OwnLoop, FromCache, Quoted
  <2>4. collector'.hits = collector.hits + (IF FromCache(c)' THEN 1 ELSE 0)
    BY <1>1, <2>1, <2>3
  <2> QED
    BY <1>3, <1>4, <2>1, <2>2, <2>3, <2>4, SameAccount
<1>7. CASE CallMiss(c)
  <2>1. /\ pc' = [pc EXCEPT ![c] = "primary"]
        /\ calls' = [calls EXCEPT ![c].primary = @ + 1]
        /\ collector' = [collector EXCEPT !.misses = @ + 1]
        /\ result' = result
    BY <1>7 DEF CallMiss, Issue
  <2>2. /\ calls'[c].primary = 1
        /\ \A d \in Callers \ {c} :
             pc'[d] = pc[d] /\ calls'[d] = calls[d] /\ result'[d] = result[d]
    BY <1>1, <1>3, <2>1
  <2>3. FailedPrimary(c)' = 0 /\ OwnLoop(c)' /\ ~FromCache(c)'
    BY <1>1, <1>4, <2>1, <2>2 DEF FailedPrimary, OwnLoop, FromCache, Quoted
  <2>4. /\ collector'.misses = collector.misses + 1 /\ collector'.failures = collector.failures
        /\ collector.failures \in Int
        /\ collector'.hits = collector.hits + (IF FromCache(c)' THEN 1 ELSE 0)
    BY <1>1, <2>1, <2>3
  <2>5. collector'.failures = collector.failures + (FailedPrimary(c)' - FailedPrimary(c))
    BY <1>4, <2>3, <2>4
  <2> QED
    BY <1>3, <1>4, <2>2, <2>3, <2>4, <2>5, StepAccounts
<1> QED
  BY <1>5, <1>6, <1>7 DEF Call

\* A failed attempt is counted when it fails; a retry is in flight again.
LEMMA LoopAccount ==
  ASSUME IInv, IInv', AccountInv, NEW c \in Callers,
         PrimaryFails(c) \/ Retry(c) \/ AbandonRetry(c) \/ HistoricalRetry(c)
  PROVE  AccountInv'
<1>1. /\ calls \in [Callers -> [primary : Nat, fallback : Nat, historical : Nat]]
      /\ calls[c] \in [primary : Nat, fallback : Nat, historical : Nat]
      /\ collector \in [hits : Nat, misses : Nat, failures : Nat]
      /\ pc \in [Callers -> {"idle", "primary", "backoff", "fallback", "storing", "lookup",
                             "historical", "historicalBackoff", "done"}]
      /\ OwnLoop(c) /\ collector.hits \in Int
  BY DEF IInv, TypeOK, AccountInv
<1>0. /\ result' = result /\ ~FromCache(c) /\ ~FromCache(c)'
      /\ collector'.hits = collector.hits
  <2>1. /\ result' = result /\ pc[c] # "done"
        /\ collector' = collector \/ collector' = [collector EXCEPT !.failures = @ + 1]
    BY DEF PrimaryFails, Retry, AbandonRetry, HistoricalRetry, Issue
  <2>2. result[c] = None /\ ~FromCache(c)
    BY <2>1, NotServedYet
  <2> QED
    BY <1>1, <2>1, <2>2 DEF FromCache, Quoted
<1>2. CASE PrimaryFails(c)
  <2>1. /\ pc[c] = "primary"
        /\ \/ pc' = [pc EXCEPT ![c] = "backoff"] /\ calls' = calls
           \/ /\ pc' = [pc EXCEPT ![c] = "fallback"]
              /\ calls' = [calls EXCEPT ![c].fallback = @ + 1]
        /\ collector' = [collector EXCEPT !.failures = @ + 1]
    BY <1>2 DEF PrimaryFails, Issue
  <2>2. calls'[c].primary = calls[c].primary
        /\ \A d \in Callers \ {c} :
             pc'[d] = pc[d] /\ calls'[d] = calls[d] /\ result'[d] = result[d]
    BY <1>0, <1>1, <2>1
  <2>3. pc'[c] \in {"backoff", "fallback"}
    BY <1>1, <2>1
  <2>4. /\ FailedPrimary(c) = calls[c].primary - 1
        /\ FailedPrimary(c)' = calls[c].primary
        /\ OwnLoop(c)'
    BY <1>1, <2>1, <2>2, <2>3 DEF FailedPrimary, OwnLoop
  <2>5. /\ collector'.misses = collector.misses
        /\ collector'.failures = collector.failures + 1
        /\ collector.misses \in Int /\ collector.failures \in Int /\ calls[c].primary \in Int
    BY <1>1, <2>1
  <2>6. collector'.failures = collector.failures + (FailedPrimary(c)' - FailedPrimary(c))
    BY <2>4, <2>5
  <2>7. collector'.misses = collector.misses
          + (IF calls[c].primary = 0 /\ calls'[c].primary > 0 THEN 1 ELSE 0)
    BY <2>2, <2>5
  <2> QED
    BY <1>0, <1>1, <2>2, <2>4, <2>6, <2>7, StepAccounts
<1>3. CASE Retry(c)
  <2>1. /\ pc[c] = "backoff"
        /\ pc' = [pc EXCEPT ![c] = "primary"]
        /\ calls' = [calls EXCEPT ![c].primary = @ + 1]
        /\ collector' = collector
    BY <1>3 DEF Retry, Issue
  <2>2. /\ calls'[c].primary = calls[c].primary + 1 /\ calls'[c].fallback = calls[c].fallback
        /\ calls[c].primary \in Nat /\ pc'[c] = "primary"
        /\ \A d \in Callers \ {c} :
             pc'[d] = pc[d] /\ calls'[d] = calls[d] /\ result'[d] = result[d]
    BY <1>0, <1>1, <2>1
  <2>3. FailedPrimary(c)' = FailedPrimary(c) /\ OwnLoop(c)' /\ FailedPrimary(c) \in Int
    BY <2>1, <2>2 DEF FailedPrimary, OwnLoop
  <2>4. calls[c].primary > 0
    BY <1>1, <2>1 DEF OwnLoop
  <2>5. collector.misses \in Int /\ collector.failures \in Int
    BY <1>1
  <2>6. collector'.misses = collector.misses
          + (IF calls[c].primary = 0 /\ calls'[c].primary > 0 THEN 1 ELSE 0)
    BY <2>1, <2>4, <2>5
  <2>7. collector'.failures = collector.failures + (FailedPrimary(c)' - FailedPrimary(c))
    BY <2>1, <2>3, <2>5
  <2>8. calls'[c].primary > 0
    BY <2>2
  <2> QED
    BY <1>0, <1>1, <2>2, <2>3, <2>6, <2>7, <2>8, StepAccounts
<1>4. CASE AbandonRetry(c)
  <2>1. /\ pc[c] = "backoff"
        /\ pc' = [pc EXCEPT ![c] = "fallback"]
        /\ calls' = [calls EXCEPT ![c].fallback = @ + 1]
        /\ collector' = collector
    BY <1>4 DEF AbandonRetry, Issue
  <2>2. /\ calls'[c].primary = calls[c].primary /\ pc'[c] = "fallback"
        /\ \A d \in Callers \ {c} :
             pc'[d] = pc[d] /\ calls'[d] = calls[d] /\ result'[d] = result[d]
    BY <1>0, <1>1, <2>1
  <2>3. FailedPrimary(c)' = FailedPrimary(c) /\ OwnLoop(c)'
    BY <1>1, <2>1, <2>2 DEF FailedPrimary, OwnLoop
  <2> QED
    BY <1>0, <1>1, <2>1, <2>2, <2>3, SameAccount
<1>5. CASE HistoricalRetry(c)
  <2>1. /\ pc[c] = "historicalBackoff"
        /\ pc' = [pc EXCEPT ![c] = "historical"]
        /\ calls' = [calls EXCEPT ![c].historical = @ + 1]
        /\ collector' = collector
    BY <1>5 DEF HistoricalRetry, Issue
  <2>2. /\ calls'[c].primary = calls[c].primary /\ calls[c].primary = 0 /\ pc'[c] = "historical"
        /\ \A d \in Callers \ {c} :
             pc'[d] = pc[d] /\ calls'[d] = calls[d] /\ result'[d] = result[d]
    BY <1>0, <1>1, <2>1 DEF OwnLoop
  <2>3. FailedPrimary(c)' = FailedPrimary(c) /\ OwnLoop(c)'
    BY <2>1, <2>2 DEF FailedPrimary, OwnLoop
  <2> QED
    BY <1>0, <1>1, <2>1, <2>2, <2>3, SameAccount
<1> QED
  BY <1>2, <1>3, <1>4, <1>5

\* The other steps of a call make no upstream call and count nothing.
LEMMA QuietAccount ==
  ASSUME IInv, IInv', AccountInv, NEW c \in Callers,
         \/ PrimarySucceeds(c) \/ FallbackSucceeds(c) \/ FallbackFails(c) \/ Store(c)
         \/ StaleLookup(c) \/ HistoricalSucceeds(c) \/ HistoricalFails(c) \/ HistoricalAbandon(c)
  PROVE  AccountInv'
<1>1. /\ calls \in [Callers -> [primary : Nat, fallback : Nat, historical : Nat]]
      /\ pc \in [Callers -> {"idle", "primary", "backoff", "fallback", "storing", "lookup",
                             "historical", "historicalBackoff", "done"}]
      /\ OwnLoop(c) /\ Counted(c) /\ collector.hits \in Int
      /\ result \in [Callers -> Results \cup {None}]
  BY DEF IInv, TypeOK, AccountInv, CallerInv
<1>2. calls' = calls /\ collector' = collector
  BY DEF PrimarySucceeds, FallbackSucceeds, FallbackFails, Store, StaleLookup,
     HistoricalSucceeds, HistoricalFails, HistoricalAbandon
<1>3. \/ pc[c] = "primary" /\ pc' = [pc EXCEPT ![c] = "storing"]
      \/ pc[c] = "fallback" /\ pc' = [pc EXCEPT ![c] = "storing"]
      \/ pc[c] = "fallback" /\ pc' = [pc EXCEPT ![c] = "lookup"]
      \/ pc[c] \in {"storing", "lookup", "historical", "historicalBackoff"}
           /\ pc' = [pc EXCEPT ![c] = "done"]
      \/ pc[c] = "historical" /\ pc' = [pc EXCEPT ![c] = "historicalBackoff"]
  BY DEF PrimarySucceeds, FallbackSucceeds, FallbackFails, Store, StaleLookup,
     HistoricalSucceeds, HistoricalFails, HistoricalAbandon, Finish
<1>4. \A d \in Callers \ {c} :
        pc'[d] = pc[d] /\ calls'[d] = calls[d] /\ result'[d] = result[d]
  <2>1. result' = [result EXCEPT ![c] = result'[c]]
    BY <1>1 DEF PrimarySucceeds, FallbackSucceeds, FallbackFails, Store, StaleLookup,
       HistoricalSucceeds, HistoricalFails, HistoricalAbandon, Finish
  <2> QED
    BY <1>1, <1>2, <1>3, <2>1
<1>5. /\ pc[c] = "primary" => calls[c].fallback = 0 /\ calls[c].primary > 0
      /\ pc[c] \in {"fallback", "lookup"} => calls[c].fallback = 1
      /\ pc[c] \in {"primary", "fallback", "storing", "lookup"} => calls[c].primary > 0
      /\ pc[c] \in {"historical", "historicalBackoff"} => calls[c].primary = 0
  BY <1>1 DEF Counted, OwnLoop
<1>6. calls'[c] = calls[c] /\ pc'[c] \in {"storing", "lookup", "done", "historicalBackoff"}
  BY <1>1, <1>2, <1>3
<1>7. OwnLoop(c)'
  <2>1. /\ pc'[c] = "historicalBackoff" => pc[c] = "historical"
        /\ pc'[c] \in {"storing", "lookup"} => pc[c] \in {"primary", "fallback"}
    BY <1>1, <1>3
  <2> QED
    BY <1>5, <1>6, <2>1 DEF OwnLoop
<1>8. FailedPrimary(c)' = FailedPrimary(c)
  <2>1. \/ pc[c] = "primary" /\ pc'[c] = "storing"
        \/ pc[c] \in {"fallback", "lookup"} /\ pc'[c] \in {"storing", "lookup", "done"}
        \/ pc[c] = "storing" /\ pc'[c] = "done"
        \/ pc[c] \in {"historical", "historicalBackoff"} /\ pc'[c] \in {"done", "historicalBackoff"}
    BY <1>1, <1>3
  <2> QED
    BY <1>5, <1>6, <2>1 DEF FailedPrimary
<1>9. ~FromCache(c) /\ ~FromCache(c)'
  <2>1. pc[c] # "done"
    BY <1>3
  <2>2. result[c] = None /\ ~FromCache(c)
    BY <2>1, NotServedYet
  <2>3. CASE pc[c] \in {"primary", "fallback", "storing", "lookup"}
    <3>1. calls'[c].primary > 0 /\ calls'[c].primary \in Nat
      BY <1>1, <1>5, <1>6, <2>3
    <3> QED
      BY <2>2, <3>1 DEF FromCache
  <2>4. CASE pc[c] \in {"historical", "historicalBackoff"}
    <3>1. \/ result'[c] = result[c]
          \/ result'[c].kind # "quote"
          \/ result'[c].quote.source = "historical"
      BY <1>1, <2>4 DEF PrimarySucceeds, FallbackSucceeds, FallbackFails, Store, StaleLookup,
         HistoricalSucceeds, HistoricalFails, HistoricalAbandon, Finish, Return, Fail
    <3> QED
      BY <2>2, <3>1 DEF FromCache, Quoted
  <2> QED
    BY <1>3, <2>2, <2>3, <2>4
<1>10. collector'.hits = collector.hits + (IF FromCache(c)' THEN 1 ELSE 0)
  BY <1>1, <1>2, <1>9
<1> QED
  BY <1>2, <1>4, <1>6, <1>7, <1>8, <1>9, <1>10, SameAccount

\* A hit was counted for every call that the cache answered at once, a miss for every call that
\* went upstream, and a failure for every failed attempt at the primary source, at every moment of any number of concurrent calls.
THEOREM MetricsAccountCorrect == Spec => []MetricsAccount
<1>1. Init => AccountInv
  <2> SUFFICES ASSUME Init PROVE AccountInv
    OBVIOUS
  <2>1. \A c \in Callers : /\ pc[c] = "idle" /\ calls[c].primary = 0
                           /\ FailedPrimary(c) = 0 /\ result[c] = None
    BY DEF Init, FailedPrimary
  <2>2. (\A c \in Callers : OwnLoop(c)) /\ Missed = {} /\ Hit = {}
    BY <2>1 DEF OwnLoop, Missed, Hit, FromCache, Quoted
  <2>3. SumFunctionOnSet(FailedCalls, Callers) = 0
    <3>1. IsFiniteSet(Callers)
      BY ProviderAssumption
    <3>2. \A c \in Callers : FailedCalls[c] = 0
      BY <2>1 DEF FailedCalls
    <3> QED
      BY <3>1, <3>2, SumOfZeros
  <2>4. collector.hits = 0 /\ collector.misses = 0 /\ collector.failures = 0
    BY DEF Init
  <2> QED
    BY <2>2, <2>3, <2>4, FS_EmptySet
    DEF AccountInv, MetricsAccount, SumFunction, FailedCalls, Missed, Hit
<1>2. IInv /\ IInv' /\ AccountInv /\ [Next]_vars => AccountInv'
  <2> SUFFICES ASSUME IInv, IInv', AccountInv, [Next]_vars PROVE AccountInv'
    OBVIOUS
  <2>1. CASE UNCHANGED <<pc, calls, collector, result>>
    <3>1. \A c \in Callers : /\ FailedPrimary(c)' = FailedPrimary(c) /\ (OwnLoop(c) => OwnLoop(c)')
                             /\ FromCache(c)' <=> FromCache(c)
      BY <2>1 DEF FailedPrimary, OwnLoop, FromCache, Quoted
    <3>2. [c \in Callers |-> FailedPrimary(c)]' = [c \in Callers |-> FailedPrimary(c)]
      BY <3>1
    <3>3. Hit' = Hit
      BY <3>1 DEF Hit
    <3> QED
      BY <2>1, <3>1, <3>2, <3>3, Zenon DEF AccountInv, MetricsAccount, Hit
  <2>2. ASSUME NEW c \in Callers, Call(c) \/ CallHistorical(c) \/ Proceed(c)
        PROVE  AccountInv'
    BY <2>2, CallAccount, LoopAccount, QuietAccount DEF Proceed
  <2> QED
    BY <2>1, <2>2 DEF Next, vars, Cancel, Tick
<1>3. AccountInv => MetricsAccount
  BY DEF AccountInv
<1> QED
  BY <1>1, <1>2, <1>3, InvariantHolds, PTL DEF Spec
=============================================================================
