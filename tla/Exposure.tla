-------------------------------- MODULE Exposure --------------------------------
(***************************************************************************)
(* One request to the exposure service (internal/service/exposure): the    *)
(* loop over its transactions, each of which is validated, priced with two *)
(* rates that the provider may fail to give, judged and accumulated, and   *)
(* the report that is built from the accumulators at the end.              *)
(*                                                                         *)
(* The provider is called while the loop runs, so the clock moves between  *)
(* `now', read once before the loop, and generated_at, read after it.      *)
(*                                                                         *)
(* Amounts and percentages are integers that count 1/Scale: every rate     *)
(* divides Scale, so that the quotients of the code are exact.  Rounding   *)
(* to 4 decimals is rounding to a multiple of Unit.  Currency codes stand  *)
(* for their normalised form.                                              *)
(***************************************************************************)
EXTENDS Integers, Sequences, FiniteSetsExt

CONSTANTS
    Requests,           \* the request bodies that may be posted
    TestData,           \* the transactions of the test data file
    None,               \* absence of a value
    Blank,              \* the empty currency code
    Supported,          \* supportedCurrencySet
    MaxTransactions,    \* maxTransactions
    DefaultThreshold,   \* defaultRiskThreshold, in percent
    Bps,                \* settlementSpreadBPS + providerMarkupBPS
    SLA,                \* quoteFreshnessSLA
    Lifetime,           \* seven days, the assumed life of an authorization
    HighWindow,         \* 24 hours
    MediumWindow,       \* 72 hours
    Rates,              \* the rates that the provider can answer
    Scale,              \* fractions of an amount or of a percent
    Unit,               \* what an amount is rounded to a multiple of
    Oldest,             \* age that a quote can have
    MaxTime             \* bound on the clock, for model checking

Effective(rate) == IF Bps <= 0 THEN rate ELSE (rate * (10000 + Bps)) \div 10000

ASSUME ExposureAssumption ==
    /\ MaxTransactions \in Nat \ {0}
    /\ DefaultThreshold \in Nat
    /\ Bps \in Int
    /\ SLA \in Nat \ {0}
    /\ HighWindow \in Nat \ {0}
    /\ MediumWindow \in Nat \ {0}
    /\ Lifetime \in Nat \ {0}
    /\ HighWindow < MediumWindow /\ MediumWindow < Lifetime
    /\ Scale \in Nat \ {0}
    /\ Unit \in Nat \ {0}
    /\ Oldest \in Nat
    /\ MaxTime \in Nat
    /\ Rates \subseteq Nat \ {0}
    /\ \A r \in Rates : Scale % r = 0 /\ Effective(r) # 0 /\ Scale % Effective(r) = 0

\* A transaction as it is posted; None stands for a time that is left out, id 0 for a blank one.
Transaction ==
    [id : Nat, authorizedAt : Int \cup {None}, authorizationTimestamp : Int \cup {None},
     expiresAt : Int \cup {None}, authorizedAmount : Int, captureAmount : Int,
     presentment : STRING, settlement : STRING, authorizationRate : Int,
     paymentClosed : BOOLEAN, transactionClosed : BOOLEAN]

ASSUME RequestAssumption ==
    /\ None \notin Int /\ None # "authorization_expired"
    /\ TestData \in Seq(Transaction)
    /\ \A request \in Requests :
          /\ request.transactions \in Seq(Transaction)
          /\ request.threshold \in Int \cup {None}

VARIABLES
    clock,      \* s.clock.Now()
    pc,         \* where CalculateExposure is
    transactions, \* the transactions of the request, or those of the test data
    threshold,  \* the risk threshold in force, in percent
    now,        \* the time read before the loop
    authRate,   \* authorizationRate of the transaction in hand
    items,      \* exposures
    totals,     \* the counters and sums of the loop
    breakdown,  \* breakdown, by presentment currency
    pairs,      \* pairBreakdown, by <<presentment, settlement>>
    report,     \* the response body of a success
    answer,     \* the HTTP status and the error code
    exported    \* HighRiskExposure of metrics.Collector

vars == <<clock, pc, transactions, threshold, now, authRate, items, totals, breakdown, pairs,
          report, answer, exported>>

loopVars == <<items, totals, breakdown, pairs>>

--------------------------------------------------------------------------------
(* Rounding and rates *)

Abs(x) == IF x < 0 THEN -x ELSE x

\* math.Round(value * 10000) / 10000 of a ratio: half away from zero.
RoundRatio(num, den) ==
    LET up == Unit * ((2 * Abs(num) + Unit * den) \div (2 * Unit * den))
    IN  IF num < 0 THEN -up ELSE up

Round(x) == RoundRatio(x, 1)

--------------------------------------------------------------------------------
(* Judging one transaction *)

AuthorizedAt(t) == IF t.authorizedAt # None THEN t.authorizedAt ELSE t.authorizationTimestamp

\* Never the zero time: a transaction without any time of authorization is invalid.
ExpiresAt(t) == IF t.expiresAt # None THEN t.expiresAt ELSE AuthorizedAt(t) + Lifetime

Captured(t) == IF t.captureAmount <= 0 THEN t.authorizedAmount ELSE t.captureAmount

Invalid(t) ==
    \/ t.id = 0
    \/ AuthorizedAt(t) = None
    \/ t.authorizedAmount <= 0
    \/ t.captureAmount < 0
    \/ t.captureAmount > t.authorizedAmount
    \/ Blank \in {t.presentment, t.settlement}
    \/ Supported # {} /\ ~({t.presentment, t.settlement} \subseteq Supported)

ExpiryRisk(remaining) ==
    CASE remaining <= 0            -> "expired"
      [] remaining \in 1 .. HighWindow -> "high"
      [] remaining \in HighWindow + 1 .. MediumWindow -> "medium"
      [] remaining > MediumWindow  -> "low"

ExpiryScore(risk) == [expired |-> 100, high |-> 90, medium |-> 65, low |-> 30][risk]

\* Mutant: the cap of line 476 is missing.
FXSeverityUncapped(percent) ==
    IF percent >= 0 THEN 5 * Scale ELSE Max({5 * Scale, 8 * Abs(percent)})

\* Mutant: the test for a gain (line 473) is missing.
FXSeverityOfSize(percent) == Max({5 * Scale, Min({100 * Scale, 8 * Abs(percent)})})

\* In 1/Scale of a point: 5 for a gain, else 8 points a percent, from 5 to 100.
FXSeverity(percent) ==
    IF percent >= 0 THEN 5 * Scale ELSE Max({5 * Scale, Min({100 * Scale, 8 * Abs(percent)})})

\* In 1/(100 * Scale) of a point.
Urgency(severity, expiryScore, exposure) ==
    LET weightFX == IF exposure >= 0 THEN 35 ELSE 65
    IN  severity * weightFX + expiryScore * Scale * (100 - weightFX)

Points(n) == n * 100 * Scale

NextAction(highRisk, urgency, risk) ==
    CASE risk = "expired" -> "reauthorize"
      [] risk # "expired" /\ highRisk /\ urgency >= Points(75) -> "capture_immediately"
      [] risk # "expired" /\ highRisk /\ urgency < Points(75) -> "prioritize_capture_today"
      [] risk # "expired" /\ ~highRisk /\ urgency >= Points(70) -> "schedule_capture_soon"
      [] risk # "expired" /\ ~highRisk /\ urgency < Points(70) -> "monitor"

\* Mutant: the eligibility is judged at the time of the call, not at `now'.
BlockingReasonOfLater(t) ==
    IF ExpiresAt(t) <= clock THEN "authorization_expired"
    ELSE IF t.paymentClosed THEN "payment_status"
    ELSE IF t.transactionClosed THEN "transaction_status"
    ELSE None

\* Why a transaction cannot be captured, None if it can.
BlockingReason(t) ==
    IF ExpiresAt(t) <= now THEN "authorization_expired"
    ELSE IF t.paymentClosed THEN "payment_status"
    ELSE IF t.transactionClosed THEN "transaction_status"
    ELSE None

IsStale(quote) == quote.stale \/ Max({0, now - quote.timestamp}) > SLA

IsHighRisk(percent) == percent <= -threshold * Scale

\* The exposure of transaction number i at the quoted rate.
Item(i, quote) ==
    LET t == transactions[i]
        original == (Captured(t) * Scale) \div authRate
        current == (Captured(t) * Scale) \div Effective(quote.rate)
        exposure == current - original
        percent == IF original = 0 THEN 0 ELSE (exposure * 100 * Scale) \div original
        risk == ExpiryRisk(ExpiresAt(t) - now)
        urgency == Urgency(FXSeverity(percent), ExpiryScore(risk), exposure)
    IN  [tx |-> i, exposure |-> exposure, percent |-> percent,
         shownExposure |-> Round(exposure), shownPercent |-> Round(percent),
         lossAvoided |-> Round(Max({0, -exposure})),
         quotedAt |-> quote.timestamp, stale |-> IsStale(quote),
         highRisk |-> IsHighRisk(percent), expiryRisk |-> risk, urgency |-> urgency,
         blocking |-> BlockingReason(t),
         nextAction |-> NextAction(IsHighRisk(percent), urgency, risk),
         recommendation |-> IF IsHighRisk(percent) THEN "capture_now" ELSE "monitor"]

--------------------------------------------------------------------------------
(* The accumulators *)

One(condition) == IF condition THEN 1 ELSE 0

NoTotals == [exposure |-> 0, gains |-> 0, losses |-> 0, neutral |-> 0, highRisk |-> 0,
             highRiskExposure |-> 0, stale |-> 0]

AddToTotals(item) ==
    totals' = [exposure |-> totals.exposure + item.exposure,
               gains |-> totals.gains + One(item.exposure > 0),
               losses |-> totals.losses + One(item.exposure < 0),
               neutral |-> totals.neutral + One(item.exposure = 0),
               highRisk |-> totals.highRisk + One(item.highRisk),
               highRiskExposure |-> totals.highRiskExposure
                   + IF item.highRisk /\ item.exposure < 0 THEN -item.exposure ELSE 0,
               stale |-> totals.stale + One(item.stale)]

\* Mutant: a group that exists is replaced by an empty one.
GroupNew(groups, key, empty) == empty

\* The group of key, made if there is none.
Group(groups, key, empty) == IF key \in DOMAIN groups THEN groups[key] ELSE empty

Put(groups, key, group) == [k \in DOMAIN groups \cup {key} |-> IF k = key THEN group ELSE groups[k]]

NoCurrencyGroup == [exposure |-> 0, count |-> 0, gains |-> 0, losses |-> 0]

AddToBreakdown(item, currency) ==
    LET g == Group(breakdown, currency, NoCurrencyGroup)
    IN  breakdown' = Put(breakdown, currency,
            [exposure |-> g.exposure + item.exposure, count |-> g.count + 1,
             gains |-> g.gains + One(item.exposure > 0),
             losses |-> g.losses + One(item.exposure < 0)])

NoPairGroup == [count |-> 0, highRisk |-> 0, exposure |-> 0, percentSum |-> 0]

AddToPairs(item, pair) ==
    LET g == Group(pairs, pair, NoPairGroup)
    IN  pairs' = Put(pairs, pair,
            [count |-> g.count + 1, highRisk |-> g.highRisk + One(item.highRisk),
             exposure |-> g.exposure + item.exposure,
             percentSum |-> g.percentSum + item.percent])

--------------------------------------------------------------------------------
(* The answer of the handler *)

Codes == {"INVALID_REQUEST_BODY", "NO_TRANSACTIONS", "INVALID_TRANSACTION_INPUT",
          "UNSUPPORTED_CURRENCY_PAIR", "FX_RATE_UNAVAILABLE", "INTERNAL_ERROR"}

\* writeServiceError.
StatusOf(code) ==
    CASE code = "FX_RATE_UNAVAILABLE" -> 502
      [] code = "INTERNAL_ERROR" -> 500
      [] code \in Codes \ {"FX_RATE_UNAVAILABLE", "INTERNAL_ERROR"} -> 400

Reply(status, code) ==
    /\ pc' = "done"
    /\ answer' = [status |-> status, code |-> code]

Refuse(code) == Reply(StatusOf(code), code)

\* What a call of the provider can fail with: an unsupported pair or no rate.  The historical
\* lookup can also return the error of the request's context, which the handler does not know.
ProviderFailures ==
    {"UNSUPPORTED_CURRENCY_PAIR", "FX_RATE_UNAVAILABLE"}
        \cup IF pc = "historical" THEN {"INTERNAL_ERROR"} ELSE {}

--------------------------------------------------------------------------------
(* CalculateExposure *)

Init ==
    /\ clock = 0
    /\ pc = "idle"
    /\ transactions = <<>>
    /\ threshold = DefaultThreshold
    /\ now = 0
    /\ authRate = 0
    /\ items = <<>>
    /\ totals = NoTotals
    /\ breakdown = <<>>
    /\ pairs = <<>>
    /\ report = None
    /\ answer = None
    /\ exported = 0

\* The body cannot be bound.
RejectBody ==
    /\ pc = "idle"
    /\ Refuse("INVALID_REQUEST_BODY")
    /\ UNCHANGED <<clock, transactions, threshold, now, authRate, loopVars, report, exported>>

UsesTestData(request) == request.transactions = <<>> /\ request.useTestData

\* The test data file cannot be read or decoded.
LoadFails ==
    /\ pc = "idle"
    /\ \E request \in Requests : UsesTestData(request)
    /\ Refuse("INTERNAL_ERROR")
    /\ UNCHANGED <<clock, transactions, threshold, now, authRate, loopVars, report, exported>>

Posted(request) == IF UsesTestData(request) THEN TestData ELSE request.transactions

ThresholdOf(request) == IF request.threshold # None THEN request.threshold ELSE DefaultThreshold

\* No transactions at all, or too many of them, or a negative threshold: in this order.
RefuseRequest ==
    /\ pc = "idle"
    /\ \E request \in Requests :
          /\ transactions' = Posted(request)
          /\ \/ Posted(request) = <<>> /\ Refuse("NO_TRANSACTIONS")
             \/ /\ Posted(request) # <<>>
                /\ Len(Posted(request)) > MaxTransactions \/ ThresholdOf(request) < 0
                /\ Refuse("INVALID_TRANSACTION_INPUT")
    /\ UNCHANGED <<clock, threshold, now, authRate, loopVars, report, exported>>

Begin ==
    /\ pc = "idle"
    /\ \E request \in Requests :
          /\ Len(Posted(request)) \in 1 .. MaxTransactions
          /\ ThresholdOf(request) >= 0
          /\ transactions' = Posted(request)
          /\ threshold' = ThresholdOf(request)
    /\ now' = clock
    /\ pc' = "next"
    /\ UNCHANGED <<clock, authRate, loopVars, report, answer, exported>>

InHand == Len(items) + 1

\* Mutant: a malformed transaction is left out instead of refused.
ValidateSkipping ==
    /\ pc = "next"
    /\ InHand <= Len(transactions)
    /\ LET t == transactions[InHand]
       IN  IF Invalid(t)
           THEN /\ transactions' = SubSeq(transactions, 1, Len(items))
                                      \o SubSeq(transactions, InHand + 1, Len(transactions))
                /\ UNCHANGED <<authRate, pc>>
           ELSE /\ authRate' = t.authorizationRate
                /\ pc' = IF t.authorizationRate <= 0 THEN "historical" ELSE "current"
                /\ UNCHANGED transactions
    /\ UNCHANGED <<clock, threshold, now, loopVars, report, answer, exported>>

\* The next transaction is validated and its authorization rate read from the payload.
Validate ==
    /\ pc = "next"
    /\ InHand <= Len(transactions)
    /\ LET t == transactions[InHand]
       IN  IF Invalid(t) THEN Refuse("INVALID_TRANSACTION_INPUT") /\ UNCHANGED authRate
           ELSE /\ authRate' = t.authorizationRate
                /\ pc' = IF t.authorizationRate <= 0 THEN "historical" ELSE "current"
                /\ UNCHANGED answer
    /\ UNCHANGED <<clock, transactions, threshold, now, loopVars, report, exported>>

\* GetHistoricalPresentmentPerSettlementRate answers.
HistoricalRate ==
    /\ pc = "historical"
    /\ \E rate \in Rates : authRate' = rate
    /\ pc' = "current"
    /\ UNCHANGED <<clock, transactions, threshold, now, loopVars, report, answer, exported>>

\* GetPresentmentPerSettlementRate answers, with a quote of any age and staleness.
CurrentRate ==
    /\ pc = "current"
    /\ \E rate \in Rates, age \in 0 .. Oldest, stale \in BOOLEAN :
          LET item == Item(InHand, [rate |-> rate, timestamp |-> clock - age, stale |-> stale])
              t == transactions[InHand]
          IN  /\ items' = Append(items, item)
              /\ AddToTotals(item)
              /\ AddToBreakdown(item, t.presentment)
              /\ AddToPairs(item, <<t.presentment, t.settlement>>)
    /\ pc' = "next"
    /\ UNCHANGED <<clock, transactions, threshold, now, authRate, report, answer, exported>>

RateFails ==
    /\ pc \in {"historical", "current"}
    /\ \E code \in ProviderFailures : Refuse(code)
    /\ UNCHANGED <<clock, transactions, threshold, now, authRate, loopVars, report, exported>>

\* Mutant: ranked by percentage.
RanksBeforeByPercent(a, b) == a.shownPercent < b.shownPercent

\* Lowest exposure first, then by transaction id.
RanksBefore(a, b) ==
    IF a.shownExposure = b.shownExposure THEN transactions[a.tx].id < transactions[b.tx].id
    ELSE a.shownExposure < b.shownExposure

\* Mutant: the threshold is not negated (line 354).
InsightUnsigned(pair) ==
    LET g == pairs[pair]
    IN  [pair |-> pair, count |-> g.count, highRisk |-> g.highRisk,
         exposure |-> Round(g.exposure),
         average |-> RoundRatio(g.percentSum, g.count),
         trend |-> IF g.highRisk > 0 \/ g.percentSum <= threshold * Scale * g.count
                   THEN "dangerous" ELSE "stable_or_favorable"]

Insight(pair) ==
    LET g == pairs[pair]
    IN  [pair |-> pair, count |-> g.count, highRisk |-> g.highRisk,
         exposure |-> Round(g.exposure),
         average |-> RoundRatio(g.percentSum, g.count),
         trend |-> IF g.highRisk > 0 \/ g.percentSum <= -threshold * Scale * g.count
                   THEN "dangerous" ELSE "stable_or_favorable"]

\* Most high risk transactions first, then the lowest average.
RiskierThan(a, b) ==
    IF a.highRisk = b.highRisk THEN a.average < b.average ELSE a.highRisk > b.highRisk

\* The orders that sort.Slice can leave the exposures in; it is not stable.
RankedOrders ==
    {order \in Bijection(1 .. Len(items), 1 .. Len(items)) :
        \A i, j \in DOMAIN order : i < j => ~RanksBefore(items[order[j]], items[order[i]])}

\* ... and the insights of the pairs.
RankedInsights ==
    {f \in Bijection(1 .. Cardinality(DOMAIN pairs), {Insight(p) : p \in DOMAIN pairs}) :
        \A i, j \in DOMAIN f : i < j => ~RiskierThan(f[j], f[i])}

\* The loop is over: sort, round, summarise, count.
Report ==
    /\ pc = "next"
    /\ InHand > Len(transactions)
    /\ \E order \in RankedOrders, insights \in RankedInsights :
          report' = [generatedAt |-> clock,
                     exposure |-> Round(totals.exposure),
                     gains |-> totals.gains, losses |-> totals.losses, neutral |-> totals.neutral,
                     highRisk |-> totals.highRisk,
                     highRiskExposure |-> Round(totals.highRiskExposure),
                     stale |-> totals.stale,
                     breakdown |-> [c \in DOMAIN breakdown |->
                                       [breakdown[c] EXCEPT !.exposure = Round(@)]],
                     pairs |-> insights,
                     ranking |-> [i \in 1 .. Len(items) |-> items[order[i]]]]
    /\ exported' = exported + Round(totals.highRiskExposure)
    /\ Reply(200, None)
    /\ UNCHANGED <<clock, transactions, threshold, now, authRate, loopVars>>

Tick ==
    /\ clock < MaxTime
    /\ pc # "done"
    /\ clock' = clock + 1
    /\ UNCHANGED <<pc, transactions, threshold, now, authRate, loopVars, report, answer, exported>>

\* The answer is sent.
Answered ==
    /\ pc = "done"
    /\ UNCHANGED vars

Next ==
    \/ RejectBody \/ LoadFails \/ RefuseRequest \/ Begin
    \/ Validate \/ HistoricalRate \/ CurrentRate \/ RateFails
    \/ Report
    \/ Tick
    \/ Answered

Spec == Init /\ [][Next]_vars

--------------------------------------------------------------------------------
(* Types *)

\* The state of one calculation: its counters, its groups and its answer.
TypeOK ==
    /\ clock \in 0 .. MaxTime
    /\ pc \in {"idle", "next", "historical", "current", "done"}
    /\ threshold \in Nat
    /\ now \in 0 .. clock
    /\ authRate \in Int
    /\ pc = "current" => authRate > 0
    /\ Len(items) <= Len(transactions)
    /\ \A i \in 1 .. Len(items) : items[i].tx = i
    /\ \A field \in DOMAIN totals \ {"exposure"} : totals[field] \in Nat
    /\ \A currency \in DOMAIN breakdown : breakdown[currency].count \in 1 .. Len(items)
    /\ \A pair \in DOMAIN pairs : pairs[pair].count \in 1 .. Len(items)
    /\ (answer = None) = (pc # "done")
    /\ exported \in Nat

--------------------------------------------------------------------------------
(* Safety *)

Reported == report # None

\* A request gets a whole report or none: a success reports every transaction that was
\* posted exactly once and none of them is malformed; any other answer has no report and adds
\* nothing to the high risk exposure of the metrics (the early returns of the loop).
AllOrNothing ==
    pc = "done" =>
        IF answer.status = 200
        THEN /\ Len(report.ranking) = Len(transactions)
             /\ {report.ranking[i].tx : i \in 1 .. Len(transactions)} = 1 .. Len(transactions)
             /\ \E request \in Requests :
                    /\ transactions = Posted(request)
                    /\ threshold = ThresholdOf(request)
                    /\ \A t \in Range(transactions) : ~Invalid(t)
             /\ exported = report.highRiskExposure
        ELSE ~Reported /\ exported = 0

\* a and b differ by no more than the rounding of n values can make.
WithinRounding(a, b, n) == 2 * Abs(a - b) <= n * Unit

\* The totals, the two breakdowns and the transactions of a report tell the same story: each
\* transaction is counted in exactly one group of each, and the rounded sums agree to within
\* the rounding of their terms (the accumulators of the loop, and round).
AggregatesReconcile ==
    Reported =>
        LET n == Len(report.ranking)
            groups == DOMAIN report.breakdown
            insights == DOMAIN report.pairs
            flagged == {i \in 1 .. n : report.ranking[i].highRisk}
        IN  /\ report.gains + report.losses + report.neutral = n
            /\ SumFunction([c \in groups |-> report.breakdown[c].count]) = n
            /\ SumFunction([c \in groups |-> report.breakdown[c].gains]) = report.gains
            /\ SumFunction([c \in groups |-> report.breakdown[c].losses]) = report.losses
            /\ SumFunction([i \in insights |-> report.pairs[i].count]) = n
            /\ SumFunction([i \in insights |-> report.pairs[i].highRisk]) = report.highRisk
            /\ report.highRisk = Cardinality(flagged)
            /\ WithinRounding(report.exposure,
                   SumFunction([i \in 1 .. n |-> report.ranking[i].shownExposure]), n + 1)
            /\ WithinRounding(report.exposure,
                   SumFunction([c \in groups |-> report.breakdown[c].exposure]),
                   Cardinality(groups) + 1)
            /\ WithinRounding(report.highRiskExposure,
                   SumFunction([i \in flagged |-> report.ranking[i].lossAvoided]), n + 1)

\* The ranking is by loss, worst first: the exposures before rounding are in order up to one
\* unit of rounding, whatever order the unstable sort leaves equal ones in.
RankingIsWorstFirst ==
    Reported =>
        \A i, j \in 1 .. Len(report.ranking) :
            i < j => /\ report.ranking[i].exposure < report.ranking[j].exposure + Unit
                     /\ report.ranking[i].shownExposure = report.ranking[j].shownExposure
                        => transactions[report.ranking[i].tx].id
                           <= transactions[report.ranking[j].tx].id

\* A pair is called dangerous exactly when a transaction of it is flagged, and the dangerous
\* pairs come first: the second test of the trend, on the average, never decides.
TrendMeansHighRisk ==
    Reported =>
        \A i \in DOMAIN report.pairs :
            LET insight == report.pairs[i]
            IN  /\ (insight.trend = "dangerous")
                   = \E k \in 1 .. Len(items) :
                        /\ items[k].highRisk
                        /\ <<transactions[k].presentment, transactions[k].settlement>> = insight.pair
                /\ insight.trend = "dangerous" => \A j \in 1 .. i : report.pairs[j].trend = "dangerous"

\* Everything a report says of time is said of one instant, at most generated_at: risk of
\* expiry, eligibility, next action and freshness cannot contradict one another, however long
\* the provider took between the transactions (`now' is read once, before the loop).
OneInstant ==
    Reported =>
        \E instant \in 0 .. report.generatedAt :
            \A i \in 1 .. Len(items) :
                LET expires == ExpiresAt(transactions[i])
                IN  /\ items[i].expiryRisk = ExpiryRisk(expires - instant)
                    /\ (items[i].blocking = "authorization_expired") = (expires <= instant)
                    /\ (items[i].nextAction = "reauthorize") = (expires <= instant)
                    /\ ~items[i].stale => instant - items[i].quotedAt <= SLA

\* A transaction that does not lose is never told to capture immediately or soon, whatever
\* its urgency; and it is flagged, as recommended for capture now or prioritised today, only
\* at a threshold of 0 and only if its value has not changed: `exposurePercentage <= -threshold'
\* then holds of every neutral transaction and of no gain.
NoUrgencyWithoutLoss ==
    \A i \in 1 .. Len(items) :
        items[i].exposure >= 0 =>
            /\ items[i].nextAction \notin {"capture_immediately", "schedule_capture_soon"}
            /\ items[i].nextAction = "prioritize_capture_today"
               \/ items[i].recommendation = "capture_now"
               => threshold = 0 /\ items[i].percent = 0

\* Of two losing transactions with the same risk of expiry the one that loses more of its
\* value is at least as urgent, and no urgency exceeds 100.
UrgencyOrdersLosses ==
    \A i, j \in 1 .. Len(items) :
        /\ items[i].urgency \in 0 .. Points(100)
        /\ /\ items[i].expiryRisk = items[j].expiryRisk
           /\ items[i].percent <= items[j].percent
           /\ items[j].percent < 0
           => items[i].urgency >= items[j].urgency
=============================================================================
