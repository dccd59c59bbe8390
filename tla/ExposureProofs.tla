----------------------------- MODULE ExposureProofs -----------------------------
(***************************************************************************)
(* Proofs about Exposure, for every set of requests, every table of rates, *)
(* every threshold, spread, scale and unit of rounding, and however long   *)
(* the provider takes.                                                     *)
(*                                                                         *)
(* The invariant of the loop says of each item that it follows from its    *)
(* transaction and from `now' (ItemsJudged), and of each pair that its     *)
(* group counts what the items say (PairsTally).  The report is made in    *)
(* one step from the items, so that each property of it is a consequence   *)
(* of the invariant in the state before (ReportedOnce, ReportContents).    *)
(* That its sums agree takes the exact sums of the loop (TallyInv)         *)
(* and how far rounding can move each of them (section The sums).          *)
(***************************************************************************)
EXTENDS Exposure, SumTheorems, TLAPS

--------------------------------------------------------------------------------
(* Arithmetic *)

LEMMA DivBounds ==
  ASSUME NEW a \in Int, NEW b \in Nat \ {0}
  PROVE  /\ a \div b \in Int
         /\ b * (a \div b) <= a
         /\ a < b * (a \div b) + b
BY SMT

LEMMA DivSign ==
  ASSUME NEW a \in Int, NEW b \in Nat \ {0}
  PROVE  /\ a \div b \in Int
         /\ a >= 0 => a \div b >= 0
         /\ a \div b < 0 => a < 0
BY SMT

LEMMA MaxOfTwo ==
  ASSUME NEW a \in Int, NEW b \in Int
  PROVE  /\ Max({a, b}) \in {a, b}
         /\ Max({a, b}) >= a
         /\ Max({a, b}) >= b
<1>1. \E x \in {a, b} : \A y \in {a, b} : x >= y
  OBVIOUS
<1> QED
  BY <1>1 DEF Max

LEMMA ProductIsInt ==
  /\ \A a, b \in Int : a * b \in Int /\ -a * b \in Int
  /\ \A a, b, c \in Int : a * b * c \in Int /\ -a * b * c \in Int
OBVIOUS

LEMMA MinOfTwo ==
  ASSUME NEW a \in Int, NEW b \in Int
  PROVE  /\ Min({a, b}) \in {a, b}
         /\ Min({a, b}) <= a
         /\ Min({a, b}) <= b
<1>1. \E x \in {a, b} : \A y \in {a, b} : x <= y
  OBVIOUS
<1> QED
  BY <1>1 DEF Min

LEMMA RoundBounds ==
  ASSUME NEW x \in Int
  PROVE  /\ Round(x) \in Int
         /\ x >= 0 => 2 * (Round(x) - x) <= Unit /\ 2 * (x - Round(x)) < Unit
         /\ x < 0 => 2 * (Round(x) - x) < Unit /\ 2 * (x - Round(x)) <= Unit
<1> DEFINE q == (2 * Abs(x) + Unit) \div (2 * Unit)
<1>0. Unit \in Nat \ {0} /\ Abs(x) \in Nat
  BY ExposureAssumption DEF Abs
<1>1. /\ q \in Int
      /\ 2 * Unit * q <= 2 * Abs(x) + Unit
      /\ 2 * Abs(x) + Unit < 2 * Unit * q + 2 * Unit
  BY <1>0, DivBounds, 2 * Abs(x) + Unit \in Int, 2 * Unit \in Nat \ {0}
<1>2. Round(x) = IF x < 0 THEN -(Unit * q) ELSE Unit * q
  BY <1>0 DEF Round, RoundRatio
<1> DEFINE u == Unit * q
<1>3. u \in Int /\ 2 * u <= 2 * Abs(x) + Unit /\ 2 * Abs(x) + Unit < 2 * u + 2 * Unit
  BY <1>0, <1>1
<1> HIDE DEF q, u
<1>4. Round(x) = IF x < 0 THEN -u ELSE u
  BY <1>2 DEF u
<1> QED
  BY <1>0, <1>3, <1>4 DEF Abs

--------------------------------------------------------------------------------
(* Judging one transaction *)

Risks == {"expired", "high", "medium", "low"}

ItemRecord ==
  [tx : Nat, exposure : Int, percent : Int, shownExposure : Int, shownPercent : Int,
   lossAvoided : Int, quotedAt : Int, stale : BOOLEAN, highRisk : BOOLEAN, expiryRisk : Risks,
   urgency : Int, blocking : {"authorization_expired", "payment_status", "transaction_status", None},
   nextAction : {"reauthorize", "capture_immediately", "prioritize_capture_today",
                 "schedule_capture_soon", "monitor"},
   recommendation : {"capture_now", "monitor"}]

\* What the code says of a transaction follows from its terms, from its two percentages and
\* from `now', which is the same for all of them.
Judged(item, t) ==
  /\ item.shownExposure = Round(item.exposure)
  /\ item.lossAvoided = Round(Max({0, -item.exposure}))
  /\ item.expiryRisk = ExpiryRisk(ExpiresAt(t) - now)
  /\ (item.blocking = "authorization_expired") = (ExpiresAt(t) <= now)
  /\ item.nextAction = NextAction(item.highRisk, item.urgency, item.expiryRisk)
  /\ item.highRisk = IsHighRisk(item.percent)
  /\ item.recommendation = IF item.highRisk THEN "capture_now" ELSE "monitor"
  /\ ~item.stale => now - item.quotedAt <= SLA
  /\ item.urgency = Urgency(FXSeverity(item.percent), ExpiryScore(item.expiryRisk), item.exposure)
  /\ item.percent < 0 => item.exposure < 0

LEMMA ExpiryRiskCases ==
  ASSUME NEW remaining \in Int
  PROVE  /\ ExpiryRisk(remaining) \in Risks
         /\ (ExpiryRisk(remaining) = "expired") = (remaining <= 0)
<1>1. HighWindow \in Nat \ {0} /\ MediumWindow \in Nat \ {0} /\ HighWindow < MediumWindow
  BY ExposureAssumption
<1>2. CASE remaining <= 0
  BY <1>1, <1>2 DEF ExpiryRisk, Risks
<1>3. CASE remaining \in 1 .. HighWindow
  BY <1>1, <1>3 DEF ExpiryRisk, Risks
<1>4. CASE remaining \in HighWindow + 1 .. MediumWindow
  BY <1>1, <1>4 DEF ExpiryRisk, Risks
<1>5. CASE remaining > MediumWindow
  BY <1>1, <1>5 DEF ExpiryRisk, Risks
<1> QED
  BY <1>1, <1>2, <1>3, <1>4, <1>5

LEMMA ExpiryScores ==
  ASSUME NEW risk \in Risks
  PROVE  /\ ExpiryScore(risk) \in Int
         /\ ExpiryScore(risk) \in 0 .. 100
         /\ risk # "expired" => ExpiryScore(risk) <= 90
BY DEF ExpiryScore, Risks

LEMMA SeverityBounds ==
  ASSUME NEW percent \in Int
  PROVE  /\ FXSeverity(percent) \in Int
         /\ FXSeverity(percent) >= 5 * Scale
         /\ FXSeverity(percent) <= 100 * Scale
         /\ percent >= 0 => FXSeverity(percent) = 5 * Scale
<1>1. Scale \in Nat \ {0} /\ Abs(percent) \in Nat
  BY ExposureAssumption DEF Abs
<1> DEFINE capped == Min({100 * Scale, 8 * Abs(percent)})
<1>2. /\ capped \in {100 * Scale, 8 * Abs(percent)}
      /\ capped <= 100 * Scale
  BY <1>1, MinOfTwo, 100 * Scale \in Int, 8 * Abs(percent) \in Int
<1> HIDE DEF capped
<1>3. capped \in Int
  BY <1>1, <1>2
<1> DEFINE high == Max({5 * Scale, capped})
<1>4. /\ high \in {5 * Scale, capped}
      /\ high >= 5 * Scale
  BY <1>1, <1>3, MaxOfTwo, 5 * Scale \in Int
<1>5. FXSeverity(percent) = IF percent >= 0 THEN 5 * Scale ELSE high
  BY DEF FXSeverity, capped
<1> HIDE DEF high
<1>6. high \in Int /\ high <= 100 * Scale
  BY <1>1, <1>2, <1>3, <1>4
<1>7. CASE percent >= 0
  <2>1. FXSeverity(percent) = 5 * Scale
    BY <1>5, <1>7
  <2>2. 5 * Scale \in Int /\ 5 * Scale <= 100 * Scale
    BY <1>1
  <2> QED
    BY <2>1, <2>2
<1>8. CASE ~(percent >= 0)
  BY <1>4, <1>5, <1>6, <1>8
<1> QED
  BY <1>7, <1>8

LEMMA SeverityOrder ==
  ASSUME NEW a \in Int, NEW b \in Int, a <= b, b < 0
  PROVE  FXSeverity(a) >= FXSeverity(b)
<1>1. Scale \in Nat \ {0} /\ Abs(a) = -a /\ Abs(b) = -b
  BY ExposureAssumption DEF Abs
<1> DEFINE ca == Min({100 * Scale, 8 * Abs(a)})
           cb == Min({100 * Scale, 8 * Abs(b)})
<1>2. /\ ca \in {100 * Scale, 8 * Abs(a)} /\ cb \in {100 * Scale, 8 * Abs(b)}
      /\ cb <= 100 * Scale /\ cb <= 8 * Abs(b)
  <2>1. 100 * Scale \in Int /\ 8 * Abs(a) \in Int /\ 8 * Abs(b) \in Int
    <3>1. Scale \in Int /\ 100 \in Int /\ 8 \in Int
      BY <1>1
    <3>2. Abs(a) \in Int /\ Abs(b) \in Int
      BY <1>1
    <3> HIDE DEF ca, cb
    <3> QED
      BY <3>1, <3>2, ProductIsInt, Zenon
  <2>2. ca \in {100 * Scale, 8 * Abs(a)}
    BY <2>1, MinOfTwo
  <2>3. cb \in {100 * Scale, 8 * Abs(b)} /\ cb <= 100 * Scale /\ cb <= 8 * Abs(b)
    BY <2>1, MinOfTwo
  <2> QED
    BY <2>2, <2>3
<1> HIDE DEF ca, cb
<1>3. ca \in Int /\ cb \in Int /\ ca >= cb
  BY <1>1, <1>2
<1>4. /\ Max({5 * Scale, ca}) >= 5 * Scale /\ Max({5 * Scale, ca}) >= ca
      /\ Max({5 * Scale, ca}) \in {5 * Scale, ca}
      /\ Max({5 * Scale, cb}) \in {5 * Scale, cb}
  BY <1>1, <1>3, MaxOfTwo, 5 * Scale \in Int
<1>5. /\ FXSeverity(a) = Max({5 * Scale, ca})
      /\ FXSeverity(b) = Max({5 * Scale, cb})
  BY DEF FXSeverity, ca, cb
<1> QED
  BY <1>1, <1>3, <1>4, <1>5

LEMMA UrgencyBounds ==
  ASSUME NEW percent \in Int, NEW risk \in Risks, NEW exposure \in Int
  PROVE  LET urgency == Urgency(FXSeverity(percent), ExpiryScore(risk), exposure)
         IN  /\ urgency \in Int
             /\ urgency \in 0 .. Points(100)
             /\ exposure >= 0 /\ percent >= 0 /\ risk # "expired" => urgency < Points(70)
<1>1. Scale \in Nat \ {0}
  BY ExposureAssumption
<1> DEFINE s == FXSeverity(percent)
           e == ExpiryScore(risk)
           es == ExpiryScore(risk) * Scale
<1>2. /\ s \in Int /\ s >= 5 * Scale /\ s <= 100 * Scale
      /\ percent >= 0 => s = 5 * Scale
  BY SeverityBounds
<1>3. e \in 0 .. 100 /\ (risk # "expired" => e <= 90)
  BY ExpiryScores
<1>4. /\ es \in Int /\ 0 <= es /\ es <= 100 * Scale
      /\ risk # "expired" => es <= 90 * Scale
  <2> HIDE DEF e
  <2>1. es = e * Scale
    BY DEF e
  <2>2. 0 <= e /\ e <= 100 /\ e \in Int
    BY <1>3
  <2>3. e * Scale \in Int /\ 0 <= e * Scale /\ e * Scale <= 100 * Scale
    BY <1>1, <2>2
  <2>4. e <= 90 => e * Scale <= 90 * Scale
    BY <1>1, <2>2
  <2> QED
    BY <1>3, <2>1, <2>3, <2>4
<1>5. Urgency(s, e, exposure) = IF exposure >= 0 THEN s * 35 + es * 65 ELSE s * 65 + es * 35
  BY <1>1, <1>3 DEF Urgency
<1> HIDE DEF s, e, es
<1>6. Points(100) = 10000 * Scale /\ Points(70) = 7000 * Scale
  BY <1>1 DEF Points
<1>7. Urgency(s, e, exposure) \in Int /\ Urgency(s, e, exposure) \in 0 .. Points(100)
  BY <1>1, <1>2, <1>4, <1>5, <1>6
<1>8. exposure >= 0 /\ percent >= 0 /\ risk # "expired" => Urgency(s, e, exposure) < Points(70)
  BY <1>1, <1>2, <1>4, <1>5, <1>6
<1> QED
  BY <1>7, <1>8 DEF s, e

LEMMA EffectivePositive ==
  ASSUME NEW rate \in Rates
  PROVE  Effective(rate) \in Nat \ {0}
<1>1. rate \in Nat \ {0} /\ Bps \in Int /\ Effective(rate) # 0
  BY ExposureAssumption
<1>2. CASE Bps <= 0
  BY <1>1, <1>2 DEF Effective
<1>3. CASE Bps > 0
  <2>1. rate * (10000 + Bps) \in Nat
    BY <1>1, <1>3
  <2>2. (rate * (10000 + Bps)) \div 10000 \in Int /\ (rate * (10000 + Bps)) \div 10000 >= 0
    BY <2>1, DivSign, 10000 \in Nat \ {0}, rate * (10000 + Bps) \in Int
  <2> QED
    BY <1>1, <1>3, <2>2 DEF Effective
<1> QED
  BY <1>1, <1>2, <1>3

LEMMA TimesOfTransaction ==
  ASSUME NEW t \in Transaction, ~Invalid(t)
  PROVE  AuthorizedAt(t) \in Int /\ ExpiresAt(t) \in Int
<1>1. AuthorizedAt(t) # None /\ Lifetime \in Nat
  BY ExposureAssumption DEF Invalid
<1>2. AuthorizedAt(t) \in Int
  BY <1>1 DEF AuthorizedAt, Transaction
<1> QED
  BY <1>1, <1>2 DEF ExpiresAt, Transaction

LEMMA CapturedPositive ==
  ASSUME NEW t \in Transaction, ~Invalid(t)
  PROVE  Captured(t) \in Nat
BY DEF Captured, Invalid, Transaction

LEMMA StaleWhenOld ==
  ASSUME now \in Int, NEW quote, quote.timestamp \in Int, quote.stale \in BOOLEAN
  PROVE  /\ IsStale(quote) \in BOOLEAN
         /\ ~IsStale(quote) => now - quote.timestamp <= SLA
<1>1. SLA \in Nat
  BY ExposureAssumption
<1>2. /\ Max({0, now - quote.timestamp}) \in {0, now - quote.timestamp}
      /\ Max({0, now - quote.timestamp}) >= now - quote.timestamp
  <2> DEFINE old == now - quote.timestamp
  <2>1. old \in Int
    OBVIOUS
  <2> HIDE DEF old
  <2>2. Max({0, old}) \in {0, old} /\ Max({0, old}) >= old
    BY <2>1, MaxOfTwo, 0 \in Int
  <2> QED
    BY <2>2 DEF old
<1> QED
  BY <1>1, <1>2 DEF IsStale

LEMMA NextActionKnown ==
  ASSUME NEW highRisk \in BOOLEAN, NEW urgency \in Int, NEW risk \in Risks
  PROVE  /\ NextAction(highRisk, urgency, risk) \in
                {"reauthorize", "capture_immediately", "prioritize_capture_today",
                 "schedule_capture_soon", "monitor"}
         /\ (NextAction(highRisk, urgency, risk) = "reauthorize") = (risk = "expired")
         /\ NextAction(highRisk, urgency, risk) \in {"capture_immediately", "schedule_capture_soon"}
               => urgency >= Points(70) /\ risk # "expired"
         /\ NextAction(highRisk, urgency, risk) = "prioritize_capture_today" => highRisk
<1>1. Points(70) \in Int /\ Points(75) \in Int /\ Points(70) <= Points(75)
  BY ExposureAssumption DEF Points
<1> HIDE DEF Points
<1>2. CASE risk = "expired"
  BY <1>2 DEF NextAction
<1>3. CASE risk # "expired" /\ highRisk /\ urgency >= Points(75)
  BY <1>1, <1>3 DEF NextAction
<1>4. CASE risk # "expired" /\ highRisk /\ urgency < Points(75)
  BY <1>1, <1>4 DEF NextAction
<1>5. CASE risk # "expired" /\ ~highRisk /\ urgency >= Points(70)
  BY <1>1, <1>5 DEF NextAction
<1>6. CASE risk # "expired" /\ ~highRisk /\ urgency < Points(70)
  BY <1>1, <1>6 DEF NextAction
<1> QED
  BY <1>1, <1>2, <1>3, <1>4, <1>5, <1>6

\* A valid transaction gets an item of its own number that is judged at `now'.
LEMMA ItemIsJudged ==
  ASSUME now \in Int, threshold \in Int, authRate \in Nat \ {0},
         NEW i \in Nat, transactions[i] \in Transaction, ~Invalid(transactions[i]),
         NEW quote, quote.rate \in Rates, quote.timestamp \in Int, quote.stale \in BOOLEAN
  PROVE  /\ Item(i, quote) \in ItemRecord
         /\ Item(i, quote).tx = i
         /\ Judged(Item(i, quote), transactions[i])
<1> DEFINE t == transactions[i]
           original == (Captured(t) * Scale) \div authRate
           current == (Captured(t) * Scale) \div Effective(quote.rate)
           exposure == current - original
           percent == IF original = 0 THEN 0 ELSE (exposure * 100 * Scale) \div original
           risk == ExpiryRisk(ExpiresAt(t) - now)
           urgency == Urgency(FXSeverity(percent), ExpiryScore(risk), exposure)
           item == Item(i, quote)
<1>1. Scale \in Nat \ {0} /\ Captured(t) \in Nat /\ Captured(t) * Scale \in Nat
  BY ExposureAssumption, CapturedPositive
<1>2. original \in Nat
  BY <1>1, DivSign, Captured(t) * Scale \in Int
<1>3. current \in Int
  BY <1>1, DivSign, EffectivePositive, Captured(t) * Scale \in Int
<1>4. exposure \in Int
  BY <1>2, <1>3
<1> HIDE DEF original, current
<1>5. percent \in Int /\ (percent < 0 => exposure < 0)
  <2>1. exposure * 100 * Scale \in Int /\ (exposure * 100 * Scale < 0 => exposure < 0)
    <3> HIDE DEF exposure
    <3>1. exposure * 100 \in Int /\ (exposure >= 0 => exposure * 100 >= 0)
      BY <1>4
    <3> QED
      BY <1>1, <1>4, <3>1
  <2>2. CASE original = 0
    BY <2>2
  <2>3. CASE original # 0
    <3>1. /\ (exposure * 100 * Scale) \div original \in Int
          /\ (exposure * 100 * Scale) \div original < 0 => exposure * 100 * Scale < 0
      BY <1>2, <2>1, <2>3, DivSign
    <3> QED
      BY <2>1, <2>3, <3>1
  <2> QED
    BY <2>2, <2>3
<1> HIDE DEF exposure, percent
<1>6. ExpiresAt(t) \in Int /\ ExpiresAt(t) - now \in Int
  BY TimesOfTransaction
<1>7. risk \in Risks /\ (risk = "expired") = (ExpiresAt(t) <= now)
  BY <1>6, ExpiryRiskCases
<1> HIDE DEF risk
<1>8. urgency \in Int
  BY <1>4, <1>5, <1>7, UrgencyBounds
<1> HIDE DEF urgency
<1>9. IsHighRisk(percent) \in BOOLEAN /\ IsStale(quote) \in BOOLEAN
  BY StaleWhenOld DEF IsHighRisk
<1>10. Round(exposure) \in Int /\ Round(percent) \in Int
  BY <1>4, <1>5, RoundBounds
<1>11. Round(Max({0, -exposure})) \in Int
  <2> DEFINE loss == -exposure
  <2>1. loss \in Int
    BY <1>4
  <2> HIDE DEF loss
  <2>2. Max({0, loss}) \in Int
    BY <2>1, MaxOfTwo, 0 \in Int
  <2>3. Round(Max({0, loss})) \in Int
    BY <2>2, RoundBounds
  <2> QED
    BY <2>3 DEF loss
<1>12. /\ BlockingReason(t) \in {"authorization_expired", "payment_status", "transaction_status", None}
       /\ None # "authorization_expired"
            => (BlockingReason(t) = "authorization_expired") = (ExpiresAt(t) <= now)
  BY DEF BlockingReason
<1>13. item = [tx |-> i, exposure |-> exposure, percent |-> percent,
         shownExposure |-> Round(exposure), shownPercent |-> Round(percent),
         lossAvoided |-> Round(Max({0, -exposure})),
         quotedAt |-> quote.timestamp, stale |-> IsStale(quote),
         highRisk |-> IsHighRisk(percent), expiryRisk |-> risk, urgency |-> urgency,
         blocking |-> BlockingReason(t),
         nextAction |-> NextAction(IsHighRisk(percent), urgency, risk),
         recommendation |-> IF IsHighRisk(percent) THEN "capture_now" ELSE "monitor"]
  BY DEF Item, original, current, exposure, percent, risk, urgency
<1>14. NextAction(IsHighRisk(percent), urgency, risk) \in
                {"reauthorize", "capture_immediately", "prioritize_capture_today",
                 "schedule_capture_soon", "monitor"}
  BY <1>7, <1>8, <1>9, NextActionKnown
<1>15. item \in ItemRecord /\ item.tx = i
  BY <1>4, <1>5, <1>7, <1>8, <1>9, <1>10, <1>11, <1>12, <1>13, <1>14 DEF ItemRecord
<1>16. None # "authorization_expired"
  BY RequestAssumption
<1>17. Judged(item, t)
  <2>1. /\ item.shownExposure = Round(item.exposure)
        /\ item.lossAvoided = Round(Max({0, -item.exposure}))
    BY <1>13
  <2>2. item.expiryRisk = ExpiryRisk(ExpiresAt(t) - now)
    BY <1>13 DEF risk
  <2>3. (item.blocking = "authorization_expired") = (ExpiresAt(t) <= now)
    BY <1>12, <1>13, <1>16
  <2>4. /\ item.nextAction = NextAction(item.highRisk, item.urgency, item.expiryRisk)
        /\ item.highRisk = IsHighRisk(item.percent)
        /\ item.recommendation = IF item.highRisk THEN "capture_now" ELSE "monitor"
    BY <1>13
  <2>5. ~item.stale => now - item.quotedAt <= SLA
    BY <1>13, StaleWhenOld
  <2>6. item.urgency = Urgency(FXSeverity(item.percent), ExpiryScore(item.expiryRisk), item.exposure)
    BY <1>13 DEF urgency
  <2>7. item.percent < 0 => item.exposure < 0
    BY <1>5, <1>13
  <2> QED
    BY <2>1, <2>2, <2>3, <2>4, <2>5, <2>6, <2>7 DEF Judged
<1> QED
  BY <1>15, <1>17

--------------------------------------------------------------------------------
(* The invariant of the loop *)

Typed ==
  /\ clock \in Nat
  /\ now \in Nat /\ now <= clock
  /\ transactions \in Seq(Transaction)
  /\ threshold \in Nat
  /\ authRate \in Int
  /\ items \in Seq(ItemRecord)
  /\ totals.highRiskExposure \in Int

\* How far the loop is: the transactions and the threshold are those of a request, those
\* behind it are valid, and nothing has been reported.
Progress ==
  /\ pc \in {"idle", "next", "historical", "current", "done"}
  /\ pc = "idle" => items = <<>> /\ pairs = <<>>
  /\ pc # "done" => report = None /\ exported = 0
  /\ pc \in {"next", "historical", "current"} =>
        \E request \in Requests :
            transactions = Posted(request) /\ threshold = ThresholdOf(request)
  /\ pc # "idle" => Len(items) <= Len(transactions)
  /\ pc \in {"historical", "current"} =>
        Len(items) < Len(transactions) /\ ~Invalid(transactions[Len(items) + 1])
  /\ pc = "current" => authRate > 0

ItemsJudged ==
  \A i \in 1 .. Len(items) :
      items[i].tx = i /\ ~Invalid(transactions[i]) /\ Judged(items[i], transactions[i])

PairOf(i) == <<transactions[i].presentment, transactions[i].settlement>>

\* Every transaction is in the group of its pair.  A group counts a flagged transaction exactly
\* if it has one; if it has none, every percentage in it is above the threshold, and so is
\* the sum above as many times the threshold.
PairsTally ==
  /\ IsFiniteSet(DOMAIN pairs)
  /\ \A i \in 1 .. Len(items) : PairOf(i) \in DOMAIN pairs
  /\ \A pair \in DOMAIN pairs :
        /\ pairs[pair].count \in Nat \ {0}
        /\ pairs[pair].highRisk \in Nat
        /\ pairs[pair].percentSum \in Int
        /\ (pairs[pair].highRisk > 0)
             <=> (\E i \in 1 .. Len(items) : items[i].highRisk /\ PairOf(i) = pair)
        /\ pairs[pair].highRisk = 0
             => pairs[pair].percentSum > -threshold * Scale * pairs[pair].count

IInv == Typed /\ Progress /\ ItemsJudged /\ PairsTally

LEMMA InitInv == Init => IInv
<1> SUFFICES ASSUME Init PROVE IInv
  OBVIOUS
<1>1. Typed
  BY ExposureAssumption DEF Init, Typed, NoTotals
<1>2. Progress
  BY DEF Init, Progress
<1>3. ItemsJudged
  BY DEF Init, ItemsJudged
<1>4. PairsTally
  <2>1. DOMAIN pairs = {}
    BY DEF Init
  <2> QED
    BY <2>1, FS_EmptySet DEF Init, PairsTally
<1> QED
  BY <1>1, <1>2, <1>3, <1>4 DEF IInv

\* A request is posted with a sequence of transactions and a threshold.
LEMMA PostedTyped ==
  ASSUME NEW request \in Requests
  PROVE  Posted(request) \in Seq(Transaction) /\ ThresholdOf(request) \in Int
BY RequestAssumption, ExposureAssumption DEF Posted, ThresholdOf

\* What has been accumulated depends on the transactions, the threshold and `now' only.
LEMMA LoopUnchanged ==
  ASSUME IInv, UNCHANGED <<transactions, threshold, now, loopVars>>
  PROVE  ItemsJudged' /\ PairsTally'
<1>1. UNCHANGED <<transactions, threshold, now, items, pairs>>
  BY DEF loopVars
<1>2. ItemsJudged'
  <2> SUFFICES ASSUME NEW i \in 1 .. Len(items)
               PROVE  items[i].tx = i /\ ~Invalid(transactions[i])'
                        /\ Judged(items[i], transactions[i])'
    BY <1>1 DEF ItemsJudged
  <2>1. items[i].tx = i /\ ~Invalid(transactions[i]) /\ Judged(items[i], transactions[i])
    BY DEF IInv, ItemsJudged
  <2> QED
    BY <1>1, <2>1 DEF Invalid, AuthorizedAt, Judged, ExpiresAt, IsHighRisk
<1>3. PairsTally'
  BY <1>1 DEF IInv, PairsTally, PairOf
<1> QED
  BY <1>2, <1>3

LEMMA RefuseInv ==
  ASSUME IInv, RejectBody \/ LoadFails \/ RateFails
  PROVE  IInv'
<1>1. /\ UNCHANGED <<clock, transactions, threshold, now, authRate, loopVars, report, exported>>
      /\ pc' = "done" /\ pc # "done"
  BY DEF RejectBody, LoadFails, RateFails, Refuse, Reply
<1>2. Typed'
  BY <1>1 DEF IInv, Typed, loopVars
<1>3. Progress'
  <2>1. Len(items) <= Len(transactions)
    BY <1>1 DEF IInv, Progress, Typed
  <2> QED
    BY <1>1, <2>1 DEF Progress, loopVars
<1> QED
  BY <1>1, <1>2, <1>3, LoopUnchanged DEF IInv

LEMMA RefuseRequestInv ==
  ASSUME IInv, RefuseRequest
  PROVE  IInv'
<1>1. PICK request \in Requests : transactions' = Posted(request)
  BY DEF RefuseRequest
<1>2. /\ UNCHANGED <<clock, threshold, now, authRate, items, totals, pairs, report, exported>>
      /\ pc' = "done" /\ pc = "idle" /\ items = <<>> /\ pairs = <<>>
  BY DEF RefuseRequest, Refuse, Reply, loopVars, IInv, Progress
<1>3. Typed'
  BY <1>1, <1>2, PostedTyped DEF IInv, Typed
<1>4. Progress'
  BY <1>2, <1>3 DEF Progress, Typed
<1>5. ItemsJudged'
  BY <1>2 DEF ItemsJudged
<1>6. PairsTally'
  <2>1. DOMAIN pairs' = {} /\ Len(items') = 0
    BY <1>2
  <2> QED
    BY <2>1, FS_EmptySet DEF PairsTally
<1> QED
  BY <1>3, <1>4, <1>5, <1>6 DEF IInv

LEMMA BeginInv ==
  ASSUME IInv, Begin
  PROVE  IInv'
<1>1. PICK request \in Requests :
        /\ transactions' = Posted(request)
        /\ threshold' = ThresholdOf(request) /\ ThresholdOf(request) >= 0
  BY DEF Begin
<1>2. /\ UNCHANGED <<clock, authRate, items, totals, pairs, report, exported>>
      /\ now' = clock
      /\ pc' = "next" /\ pc = "idle" /\ items = <<>> /\ pairs = <<>>
      /\ report = None /\ exported = 0
  BY DEF Begin, loopVars, IInv, Progress
<1>3. Typed'
  BY <1>1, <1>2, PostedTyped DEF IInv, Typed
<1>4. Progress'
  <2>1. \E rq \in Requests : (transactions = Posted(rq) /\ threshold = ThresholdOf(rq))'
    BY <1>1 DEF Posted, ThresholdOf
  <2>2. Len(items') <= Len(transactions')
    BY <1>2, <1>3 DEF Typed
  <2> QED
    BY <1>2, <2>1, <2>2 DEF Progress
<1>5. ItemsJudged'
  BY <1>2 DEF ItemsJudged
<1>6. PairsTally'
  <2>1. DOMAIN pairs' = {} /\ Len(items') = 0
    BY <1>2
  <2> QED
    BY <2>1, FS_EmptySet DEF PairsTally
<1> QED
  BY <1>3, <1>4, <1>5, <1>6 DEF IInv

LEMMA ValidateInv ==
  ASSUME IInv, Validate
  PROVE  IInv'
<1> DEFINE t == transactions[Len(items) + 1]
<1>1. /\ UNCHANGED <<clock, transactions, threshold, now, loopVars, report, exported>>
      /\ pc = "next" /\ Len(items) + 1 <= Len(transactions)
      /\ IF Invalid(t) THEN pc' = "done" /\ authRate' = authRate
         ELSE /\ authRate' = t.authorizationRate
              /\ pc' = IF t.authorizationRate <= 0 THEN "historical" ELSE "current"
  BY DEF Validate, InHand, Refuse, Reply
<1>2. t \in Transaction /\ Len(items) \in Nat /\ Len(transactions) \in Nat
  BY <1>1 DEF IInv, Typed
<1>3. t.authorizationRate \in Int
  BY <1>2 DEF Transaction
<1>4. Typed'
  BY <1>1, <1>3 DEF IInv, Typed, loopVars
<1>5. ItemsJudged' /\ PairsTally'
  BY <1>1, LoopUnchanged
<1>6. Progress'
  <2> DEFINE invalid == Invalid(t)
  <2>1. Invalid(transactions[Len(items) + 1])' = invalid
    BY <1>1 DEF loopVars, Invalid, AuthorizedAt
  <2>2. (\E request \in Requests : transactions = Posted(request) /\ threshold = ThresholdOf(request))'
    BY <1>1 DEF IInv, Progress, Posted, ThresholdOf
  <2>3. report' = None /\ exported' = 0
    BY <1>1 DEF IInv, Progress
  <2>4. items' = items /\ transactions' = transactions
    BY <1>1 DEF loopVars
  <2>5. CASE invalid
    BY <1>1, <1>2, <2>4, <2>5 DEF Progress
  <2>6. CASE ~invalid
    <3>1. pc' \in {"historical", "current"} /\ (pc' = "current" => authRate' > 0)
      BY <1>1, <1>3, <2>6
    <3>2. Len(items') < Len(transactions') /\ Len(items') <= Len(transactions')
      BY <1>1, <1>2, <2>4
    <3>3. ~Invalid(transactions[Len(items) + 1])'
      BY <2>1, <2>6
    <3>4. pc' \in {"idle", "next", "historical", "current", "done"} /\ pc' # "idle"
      BY <3>1
    <3> QED
      BY <2>2, <2>3, <3>1, <3>2, <3>3, <3>4 DEF Progress
  <2> QED
    BY <2>5, <2>6
<1> QED
  BY <1>4, <1>5, <1>6 DEF IInv

LEMMA HistoricalInv ==
  ASSUME IInv, HistoricalRate
  PROVE  IInv'
<1>1. /\ UNCHANGED <<clock, transactions, threshold, now, loopVars, report, exported>>
      /\ pc = "historical" /\ pc' = "current"
      /\ authRate' \in Rates
  BY DEF HistoricalRate
<1>2. authRate' \in Nat \ {0}
  BY <1>1, ExposureAssumption
<1>3. Typed'
  BY <1>1, <1>2 DEF IInv, Typed, loopVars
<1>4. Progress'
  BY <1>1, <1>2 DEF IInv, Progress, loopVars, Posted, ThresholdOf, Invalid, AuthorizedAt
<1> QED
  BY <1>1, <1>3, <1>4, LoopUnchanged DEF IInv

LEMMA TickInv ==
  ASSUME IInv, Tick
  PROVE  IInv'
<1>1. /\ UNCHANGED <<pc, transactions, threshold, now, authRate, loopVars, report, exported>>
      /\ clock' = clock + 1
  BY DEF Tick
<1>2. Typed'
  BY <1>1 DEF IInv, Typed, loopVars
<1>3. Progress'
  BY <1>1 DEF IInv, Progress, loopVars, Posted, ThresholdOf, Invalid, AuthorizedAt
<1> QED
  BY <1>1, <1>2, <1>3, LoopUnchanged DEF IInv

LEMMA ReportInv ==
  ASSUME IInv, Report
  PROVE  IInv'
<1>1. /\ UNCHANGED <<clock, transactions, threshold, now, authRate, loopVars>>
      /\ pc = "next" /\ pc' = "done"
  BY DEF Report, Reply
<1>2. Typed'
  BY <1>1 DEF IInv, Typed, loopVars
<1>3. Progress'
  BY <1>1 DEF IInv, Progress, loopVars
<1> QED
  BY <1>1, <1>2, <1>3, LoopUnchanged DEF IInv

LEMMA StutterInv ==
  ASSUME IInv, UNCHANGED vars
  PROVE  IInv'
<1>1. UNCHANGED <<clock, pc, transactions, threshold, now, authRate, loopVars, report, exported>>
  BY DEF vars, loopVars
<1>2. Typed'
  BY <1>1 DEF IInv, Typed, loopVars
<1>3. Progress'
  BY <1>1 DEF IInv, Progress, loopVars, Posted, ThresholdOf, Invalid, AuthorizedAt
<1> QED
  BY <1>1, <1>2, <1>3, LoopUnchanged DEF IInv

\* The threshold of one more transaction.
LEMMA ThresholdStep ==
  ASSUME NEW limit \in Int, NEW count \in Nat, NEW sum \in Int, NEW percent \in Int,
         count = 0 => sum = 0,
         count # 0 => sum > -limit * Scale * count,
         percent > -limit * Scale
  PROVE  sum + percent > -limit * Scale * (count + 1)
<1>1. Scale \in Nat
  BY ExposureAssumption
<1> DEFINE scaled == limit * Scale
           product == limit * Scale * count
<1>2. scaled \in Int /\ product \in Int
  BY <1>1
<1>3. limit * Scale * (count + 1) = product + scaled
  BY <1>1
<1>4. count = 0 => product = 0
  BY <1>1
<1> HIDE DEF scaled, product
<1>5. sum >= -product /\ percent > -scaled
  BY <1>2, <1>4 DEF scaled, product
<1>6. sum + percent > -(product + scaled)
  BY <1>2, <1>5
<1> QED
  BY <1>3, <1>6

LEMMA CurrentInv ==
  ASSUME IInv, CurrentRate
  PROVE  IInv'
<1> DEFINE n == Len(items)
           t == transactions[n + 1]
           pair == <<t.presentment, t.settlement>>
<1>1. PICK rate \in Rates, age \in 0 .. Oldest, stale \in BOOLEAN :
        LET item == Item(InHand, [rate |-> rate, timestamp |-> clock - age, stale |-> stale])
        IN  items' = Append(items, item) /\ AddToTotals(item) /\ AddToPairs(item, pair)
  BY DEF CurrentRate, InHand
<1> DEFINE quote == [rate |-> rate, timestamp |-> clock - age, stale |-> stale]
           item == Item(n + 1, quote)
<1>2. /\ items' = Append(items, item) /\ AddToPairs(item, pair)
      /\ UNCHANGED <<clock, transactions, threshold, now, authRate, report, exported>>
      /\ pc = "current" /\ pc' = "next"
  BY <1>1 DEF CurrentRate, InHand
<1>3. /\ n \in Nat /\ Len(transactions) \in Nat /\ n < Len(transactions)
      /\ t \in Transaction /\ ~Invalid(t) /\ authRate \in Nat \ {0}
  BY <1>2 DEF IInv, Typed, Progress
<1>4. item \in ItemRecord /\ item.tx = n + 1 /\ Judged(item, t)
  <2>1. quote.rate \in Rates /\ quote.timestamp \in Int /\ quote.stale \in BOOLEAN
    BY ExposureAssumption DEF IInv, Typed
  <2>2. now \in Int /\ threshold \in Int /\ n + 1 \in Nat
    BY <1>3 DEF IInv, Typed
  <2> HIDE DEF quote
  <2> QED
    BY <1>3, <2>1, <2>2, ItemIsJudged
<1> HIDE DEF item
<1>5. /\ items \in Seq(ItemRecord) /\ Len(items') = n + 1 /\ items'[n + 1] = item
      /\ \A i \in 1 .. n : items'[i] = items[i]
  BY <1>2, <1>4 DEF IInv, Typed
<1>6. Typed'
  <2>1. AddToTotals(item)
    BY <1>1 DEF InHand, item
  <2>2. totals'.highRiskExposure = totals.highRiskExposure
           + IF item.highRisk /\ item.exposure < 0 THEN -item.exposure ELSE 0
    BY <2>1 DEF AddToTotals
  <2>3. item.exposure \in Int /\ totals.highRiskExposure \in Int
    BY <1>4 DEF ItemRecord, IInv, Typed
  <2>4. totals'.highRiskExposure \in Int
    BY <2>2, <2>3
  <2>5. items' \in Seq(ItemRecord)
    BY <1>2, <1>4, <1>5
  <2> QED
    BY <1>2, <2>4, <2>5 DEF IInv, Typed
<1>7. Progress'
  BY <1>2, <1>3, <1>5 DEF IInv, Progress, Posted, ThresholdOf
<1>8. ItemsJudged'
  <2> SUFFICES ASSUME NEW i \in 1 .. n + 1
               PROVE  (items[i].tx = i /\ ~Invalid(transactions[i])
                        /\ Judged(items[i], transactions[i]))'
    BY <1>5 DEF ItemsJudged
  <2>1. CASE i = n + 1
    BY <1>2, <1>3, <1>4, <1>5, <2>1 DEF Invalid, AuthorizedAt, Judged, ExpiresAt, IsHighRisk
  <2>2. CASE i \in 1 .. n
    <3>1. items[i].tx = i /\ ~Invalid(transactions[i]) /\ Judged(items[i], transactions[i])
      BY <2>2 DEF IInv, ItemsJudged
    <3>2. items'[i] = items[i] /\ transactions'[i] = transactions[i]
      BY <1>2, <1>5, <2>2
    <3> QED
      BY <1>2, <3>1, <3>2 DEF Invalid, AuthorizedAt, Judged, ExpiresAt, IsHighRisk
  <2> QED
    BY <1>3, <2>1, <2>2
<1>9. PairsTally'
  <2> DEFINE g == Group(pairs, pair, NoPairGroup)
             new == [count |-> g.count + 1, highRisk |-> g.highRisk + One(item.highRisk),
                     exposure |-> g.exposure + item.exposure,
                     percentSum |-> g.percentSum + item.percent]
  <2>1. pairs' = Put(pairs, pair, new)
    BY <1>2 DEF AddToPairs
  <2>2. /\ DOMAIN pairs' = DOMAIN pairs \cup {pair}
        /\ pairs'[pair] = new
        /\ \A p \in DOMAIN pairs \ {pair} : pairs'[p] = pairs[p]
    <3> HIDE DEF new
    <3> QED
      BY <2>1 DEF Put
  <2>3. /\ g.count \in Nat /\ g.highRisk \in Nat /\ g.percentSum \in Int
        /\ (g.highRisk > 0) <=> (\E i \in 1 .. n : items[i].highRisk /\ PairOf(i) = pair)
        /\ g.count = 0 => g.percentSum = 0
        /\ g.highRisk = 0 /\ g.count # 0
             => g.percentSum > -threshold * Scale * g.count
    <3>1. CASE pair \in DOMAIN pairs
      <4>1. g = pairs[pair]
        BY <3>1 DEF Group
      <4> QED
        BY <3>1, <4>1 DEF IInv, PairsTally
    <3>2. CASE pair \notin DOMAIN pairs
      <4>1. g = NoPairGroup
        BY <3>2 DEF Group
      <4>2. \A i \in 1 .. n : PairOf(i) # pair
        BY <3>2 DEF IInv, PairsTally
      <4>3. g.count = 0 /\ g.highRisk = 0 /\ g.percentSum = 0
        BY <4>1 DEF NoPairGroup
      <4> HIDE DEF g
      <4>4. ~(\E i \in 1 .. n : items[i].highRisk /\ PairOf(i) = pair)
        BY <4>2
      <4> QED
        BY <4>3, <4>4
    <3> QED
      BY <3>1, <3>2
  <2> HIDE DEF g
  <2>4. /\ new.count = g.count + 1
        /\ new.highRisk = g.highRisk + (IF item.highRisk THEN 1 ELSE 0)
        /\ new.percentSum = g.percentSum + item.percent
    BY DEF One
  <2>5. /\ item.percent \in Int /\ item.highRisk \in BOOLEAN
        /\ item.highRisk = (item.percent <= -threshold * Scale)
    BY <1>4 DEF ItemRecord, Judged, IsHighRisk
  <2> HIDE DEF new
  <2>6. new.count \in Nat \ {0} /\ new.highRisk \in Nat /\ new.percentSum \in Int
    <3> DEFINE one == IF item.highRisk THEN 1 ELSE 0
    <3>1. g.count \in Nat /\ g.highRisk \in Nat /\ g.percentSum \in Int
      BY ONLY <2>3
    <3>2. one \in Nat
      OBVIOUS
    <3>3. new.highRisk = g.highRisk + one
      BY ONLY <2>4
    <3> HIDE DEF one
    <3> QED
      BY ONLY <2>4, <2>5, <3>1, <3>2, <3>3
  <2>7. new.highRisk = 0 => new.percentSum > -threshold * Scale * new.count
    <3> SUFFICES ASSUME new.highRisk = 0
                 PROVE  new.percentSum > -threshold * Scale * new.count
      OBVIOUS
    <3>1. ~item.highRisk /\ g.highRisk = 0
      BY <2>3, <2>4, <2>5
    <3>2. threshold \in Int /\ Scale \in Nat
      BY ExposureAssumption DEF IInv, Typed
    <3>3. item.percent > -threshold * Scale
      <4> DEFINE scaled == threshold * Scale
      <4>1. scaled \in Int
        BY <3>2
      <4> HIDE DEF scaled
      <4>2. item.highRisk = (item.percent <= -scaled)
        BY <2>5 DEF scaled
      <4>3. ~(item.percent <= -scaled)
        BY <3>1, <4>2, Zenon
      <4>4. item.percent > -scaled
        BY <2>5, <4>1, <4>3
      <4> QED
        BY <4>4 DEF scaled
    <3>4. g.percentSum + item.percent > -threshold * Scale * (g.count + 1)
      BY <2>3, <2>5, <3>1, <3>2, <3>3, ThresholdStep
    <3> QED
      BY <2>4, <3>4
  <2>8. /\ PairOf(n + 1) = pair
        /\ \A i \in 1 .. n + 1 : PairOf(i)' = PairOf(i)
    <3>1. transactions' = transactions
      BY <1>2
    <3> QED
      BY <3>1 DEF PairOf
  <2>9. (new.highRisk > 0) <=> (\E i \in 1 .. n + 1 : items'[i].highRisk /\ PairOf(i)' = pair)
    <3>1. (\E i \in 1 .. n + 1 : items'[i].highRisk /\ PairOf(i)' = pair)
            <=> (item.highRisk \/ \E i \in 1 .. n : items[i].highRisk /\ PairOf(i) = pair)
      <4> HIDE DEF n, pair
      <4>1. n + 1 \in 1 .. n + 1 /\ \A i \in 1 .. n + 1 : i \in 1 .. n \/ i = n + 1
        BY <1>3
      <4>2. 1 .. n \subseteq 1 .. n + 1
        BY <1>3
      <4> QED
        BY <1>5, <2>8, <4>1, <4>2
    <3>2. (new.highRisk > 0) <=> (item.highRisk \/ g.highRisk > 0)
      BY <2>3, <2>4, <2>5
    <3> QED
      BY <2>3, <3>1, <3>2
  <2>10. IsFiniteSet(DOMAIN pairs')
    <3>1. IsFiniteSet(DOMAIN pairs)
      BY DEF IInv, PairsTally
    <3> QED
      BY <2>2, <3>1, FS_AddElement
  <2>11. \A i \in 1 .. n + 1 : PairOf(i)' \in DOMAIN pairs'
    <3>1. \A i \in 1 .. n : PairOf(i) \in DOMAIN pairs
      BY DEF IInv, PairsTally
    <3> HIDE DEF n, pair
    <3>2. \A i \in 1 .. n + 1 : i \in 1 .. n \/ i = n + 1
      BY <1>3
    <3> QED
      BY <2>2, <2>8, <3>1, <3>2
  <2>12. ASSUME NEW p \in DOMAIN pairs'
         PROVE  /\ pairs'[p].count \in Nat \ {0}
                /\ pairs'[p].highRisk \in Nat
                /\ pairs'[p].percentSum \in Int
                /\ (pairs'[p].highRisk > 0)
                     <=> (\E i \in 1 .. n + 1 : items'[i].highRisk /\ PairOf(i)' = p)
                /\ pairs'[p].highRisk = 0
                     => pairs'[p].percentSum > -threshold * Scale * pairs'[p].count
    <3>1. CASE p = pair
      BY <2>2, <2>6, <2>7, <2>9, <3>1
    <3>2. CASE p # pair
      <4>1. p \in DOMAIN pairs /\ pairs'[p] = pairs[p]
        BY <2>2, <3>2
      <4>2. (\E i \in 1 .. n + 1 : items'[i].highRisk /\ PairOf(i)' = p)
              <=> (\E i \in 1 .. n : items[i].highRisk /\ PairOf(i) = p)
        <5> HIDE DEF n, pair
        <5>1. \A i \in 1 .. n + 1 : i \in 1 .. n \/ i = n + 1
          BY <1>3
        <5>2. 1 .. n \subseteq 1 .. n + 1 /\ n + 1 \in 1 .. n + 1
          BY <1>3
        <5> QED
          BY <1>5, <2>8, <3>2, <5>1, <5>2
      <4> QED
        BY <4>1, <4>2 DEF IInv, PairsTally
    <3> QED
      BY <3>1, <3>2
  <2> QED
    BY <1>2, <1>5, <2>10, <2>11, <2>12 DEF PairsTally
<1> QED
  BY <1>6, <1>7, <1>8, <1>9 DEF IInv

LEMMA StepInv == IInv /\ [Next]_vars => IInv'
<1> SUFFICES ASSUME IInv, [Next]_vars PROVE IInv'
  OBVIOUS
<1>1. CASE UNCHANGED vars
  BY <1>1, StutterInv
<1>2. CASE RejectBody \/ LoadFails \/ RateFails
  BY <1>2, RefuseInv
<1>3. CASE RefuseRequest
  BY <1>3, RefuseRequestInv
<1>4. CASE Begin
  BY <1>4, BeginInv
<1>5. CASE Validate
  BY <1>5, ValidateInv
<1>6. CASE HistoricalRate
  BY <1>6, HistoricalInv
<1>7. CASE CurrentRate
  BY <1>7, CurrentInv
<1>8. CASE Report
  BY <1>8, ReportInv
<1>9. CASE Tick
  BY <1>9, TickInv
<1>10. CASE Answered
  BY <1>10, StutterInv DEF Answered
<1> QED
  BY <1>1, <1>2, <1>3, <1>4, <1>5, <1>6, <1>7, <1>8, <1>9, <1>10 DEF Next

\* The invariant of the loop, whatever the rates are and whenever the provider fails.
THEOREM InvariantHolds == Spec => []IInv
BY InitInv, StepInv, PTL DEF Spec

--------------------------------------------------------------------------------
(* Urgency *)

\* Without a loss the severity is 5, and 0.35 * 5 + 0.65 * 90 is below 70; and a percentage
\* that is not negative is at most minus the threshold only if both are 0.
THEOREM NoUrgencyWithoutLossCorrect == Spec => []NoUrgencyWithoutLoss
<1>1. IInv => NoUrgencyWithoutLoss
  <2> SUFFICES ASSUME IInv, NEW i \in 1 .. Len(items), items[i].exposure >= 0
               PROVE  /\ items[i].nextAction \notin {"capture_immediately", "schedule_capture_soon"}
                      /\ items[i].nextAction = "prioritize_capture_today"
                         \/ items[i].recommendation = "capture_now"
                         => threshold = 0 /\ items[i].percent = 0
    BY DEF NoUrgencyWithoutLoss
  <2> DEFINE item == items[i]
  <2>1. item \in ItemRecord /\ Judged(item, transactions[i]) /\ threshold \in Nat
    BY DEF IInv, Typed, ItemsJudged
  <2>2. /\ item.highRisk \in BOOLEAN /\ item.urgency \in Int /\ item.expiryRisk \in Risks
        /\ item.percent \in Int /\ item.exposure \in Int
    BY <2>1 DEF ItemRecord
  <2>3. /\ item.nextAction = NextAction(item.highRisk, item.urgency, item.expiryRisk)
        /\ item.highRisk = IsHighRisk(item.percent)
        /\ item.recommendation = IF item.highRisk THEN "capture_now" ELSE "monitor"
        /\ item.urgency = Urgency(FXSeverity(item.percent), ExpiryScore(item.expiryRisk), item.exposure)
        /\ item.percent < 0 => item.exposure < 0
    BY <2>1 DEF Judged
  <2>4. item.exposure >= 0
    OBVIOUS
  <2> HIDE DEF item
  <2>5. item.percent >= 0
    BY <2>2, <2>3, <2>4
  <2>6. item.nextAction \notin {"capture_immediately", "schedule_capture_soon"}
    <3>1. Points(70) \in Int
      BY ExposureAssumption DEF Points
    <3>2. item.expiryRisk # "expired" =>
            Urgency(FXSeverity(item.percent), ExpiryScore(item.expiryRisk), item.exposure) < Points(70)
      BY <2>2, <2>4, <2>5, UrgencyBounds
    <3>3. item.expiryRisk # "expired" => item.urgency < Points(70)
      BY <2>3, <3>2
    <3> QED
      BY <2>2, <2>3, <3>1, <3>3, NextActionKnown
  <2>7. item.nextAction = "prioritize_capture_today" \/ item.recommendation = "capture_now"
        => item.highRisk
    BY <2>2, <2>3, NextActionKnown
  <2>8. item.highRisk => threshold = 0 /\ item.percent = 0
    <3>1. Scale \in Nat \ {0}
      BY ExposureAssumption
    <3>2. threshold * Scale \in Nat /\ (threshold * Scale = 0 => threshold = 0)
      BY <2>1, <3>1
    <3> DEFINE share == threshold * Scale
    <3>3. -threshold * Scale = -share
      BY <2>1, <3>1
    <3>4. item.highRisk => item.percent <= -share
      BY <2>3, <3>3 DEF IsHighRisk
    <3>5. share \in Nat /\ (share = 0 => threshold = 0)
      BY <3>2
    <3> HIDE DEF share
    <3> QED
      BY <2>2, <2>5, <3>4, <3>5
  <2> QED
    BY <2>6, <2>7, <2>8 DEF item
<1> QED
  BY <1>1, InvariantHolds, PTL

\* Of two losses with the same risk of expiry the larger share is at least as urgent, and an
\* urgency is at most 100: the severity grows with the loss and both scores are at most 100.
THEOREM UrgencyOrdersLossesCorrect == Spec => []UrgencyOrdersLosses
<1>1. IInv => UrgencyOrdersLosses
  <2> SUFFICES ASSUME IInv, NEW i \in 1 .. Len(items), NEW j \in 1 .. Len(items)
               PROVE  /\ items[i].urgency \in 0 .. Points(100)
                      /\ /\ items[i].expiryRisk = items[j].expiryRisk
                         /\ items[i].percent <= items[j].percent
                         /\ items[j].percent < 0
                         => items[i].urgency >= items[j].urgency
    BY DEF UrgencyOrdersLosses
  <2> DEFINE a == items[i]
             b == items[j]
  <2>1. /\ a \in ItemRecord /\ Judged(a, transactions[i])
        /\ b \in ItemRecord /\ Judged(b, transactions[j])
    BY DEF IInv, Typed, ItemsJudged
  <2>2. /\ a.percent \in Int /\ a.exposure \in Int /\ a.expiryRisk \in Risks
        /\ b.percent \in Int /\ b.exposure \in Int /\ b.expiryRisk \in Risks
    BY <2>1 DEF ItemRecord
  <2>3. /\ a.urgency = Urgency(FXSeverity(a.percent), ExpiryScore(a.expiryRisk), a.exposure)
        /\ b.urgency = Urgency(FXSeverity(b.percent), ExpiryScore(b.expiryRisk), b.exposure)
        /\ a.percent < 0 => a.exposure < 0
        /\ b.percent < 0 => b.exposure < 0
    BY <2>1 DEF Judged
  <2> HIDE DEF a, b
  <2>4. a.urgency \in 0 .. Points(100)
    <3>1. Urgency(FXSeverity(a.percent), ExpiryScore(a.expiryRisk), a.exposure) \in 0 .. Points(100)
      BY <2>2, UrgencyBounds, Zenon
    <3> QED
      BY <2>3, <3>1, Zenon
  <2>5. ASSUME a.expiryRisk = b.expiryRisk, a.percent <= b.percent, b.percent < 0
        PROVE  a.urgency >= b.urgency
    <3> DEFINE e == ExpiryScore(b.expiryRisk) * Scale * 35
               sa == FXSeverity(a.percent)
               sb == FXSeverity(b.percent)
    <3>1. a.exposure < 0 /\ b.exposure < 0
      BY <2>2, <2>3, <2>5
    <3>2. sa \in Int /\ sb \in Int /\ sa >= sb
      BY <2>2, <2>5, SeverityBounds, SeverityOrder
    <3>3. e \in Int
      <4>1. ExpiryScore(b.expiryRisk) \in Int /\ Scale \in Nat
        <5>1. ExpiryScore(b.expiryRisk) \in Int
          BY <2>2, ExpiryScores, Zenon
        <5>2. Scale \in Nat
          BY ExposureAssumption
        <5> QED
          BY <5>1, <5>2
      <4> QED
        BY <4>1
    <3>4. ~(a.exposure >= 0) /\ ~(b.exposure >= 0)
      BY <2>2, <3>1
    <3>5. a.urgency = sa * 65 + e /\ b.urgency = sb * 65 + e
      BY <2>3, <2>5, <3>4 DEF Urgency
    <3> HIDE DEF e, sa, sb
    <3> QED
      BY <3>2, <3>3, <3>5
  <2> QED
    BY <2>4, <2>5 DEF a, b
<1> QED
  BY <1>1, InvariantHolds, PTL

--------------------------------------------------------------------------------
(* The report *)

\* Only Report reports, and it is the last step.
LEMMA ReportedOnce ==
  ASSUME IInv, [Next]_vars
  PROVE  \/ Report
         \/ report' = None /\ pc # "done" /\ exported' = 0
         \/ UNCHANGED vars
<1>1. CASE Report
  BY <1>1
<1>2. CASE UNCHANGED vars
  BY <1>2
<1>3. CASE Answered
  BY <1>3 DEF Answered
<1>4. ASSUME \/ RejectBody \/ LoadFails \/ RefuseRequest \/ Begin
             \/ Validate \/ HistoricalRate \/ CurrentRate \/ RateFails \/ Tick
      PROVE  report' = None /\ pc # "done" /\ exported' = 0
  <2>1. pc # "done" /\ report' = report /\ exported' = exported
    BY <1>4 DEF RejectBody, LoadFails, RefuseRequest, Begin, Validate, HistoricalRate,
                CurrentRate, RateFails, Tick
  <2> QED
    BY <2>1 DEF IInv, Progress
<1> QED
  BY <1>1, <1>2, <1>3, <1>4 DEF Next

\* What is in a report, and in which order.
LEMMA ReportContents ==
  ASSUME IInv, Report
  PROVE  /\ UNCHANGED <<clock, transactions, threshold, now, items, pairs>>
         /\ report'.generatedAt = clock
         /\ report'.exposure = Round(totals.exposure)
         /\ report'.gains = totals.gains /\ report'.losses = totals.losses
         /\ report'.neutral = totals.neutral /\ report'.highRisk = totals.highRisk
         /\ report'.highRiskExposure = Round(totals.highRiskExposure)
         /\ report'.breakdown = [c \in DOMAIN breakdown |-> [breakdown[c] EXCEPT !.exposure = Round(@)]]
         /\ exported' = exported + Round(totals.highRiskExposure)
         /\ answer'.status = 200
         /\ Len(items) = Len(transactions)
         /\ \E order \in RankedOrders :
               report'.ranking = [i \in 1 .. Len(items) |-> items[order[i]]]
         /\ report'.pairs \in RankedInsights
<1>1. PICK order \in RankedOrders, insights \in RankedInsights :
          report' = [generatedAt |-> clock,
                     exposure |-> Round(totals.exposure),
                     gains |-> totals.gains, losses |-> totals.losses, neutral |-> totals.neutral,
                     highRisk |-> totals.highRisk,
                     highRiskExposure |-> Round(totals.highRiskExposure),
                     stale |-> totals.stale,
                     breakdown |-> [c \in DOMAIN breakdown |->
                                       [breakdown[c] EXCEPT !.exposure = Round(@)]],
                     pairs |-> insights,
                     ranking |-> [i \in 1 .. Len(items) |-> items[order[i]]]]
  BY DEF Report
<1>2. /\ report'.generatedAt = clock
      /\ report'.exposure = Round(totals.exposure)
      /\ report'.gains = totals.gains /\ report'.losses = totals.losses
      /\ report'.neutral = totals.neutral /\ report'.highRisk = totals.highRisk
      /\ report'.highRiskExposure = Round(totals.highRiskExposure)
      /\ report'.breakdown = [c \in DOMAIN breakdown |-> [breakdown[c] EXCEPT !.exposure = Round(@)]]
      /\ report'.ranking = [i \in 1 .. Len(items) |-> items[order[i]]]
      /\ report'.pairs = insights
  <2> DEFINE ranking == [i \in 1 .. Len(items) |-> items[order[i]]]
             sums == [c \in DOMAIN breakdown |-> [breakdown[c] EXCEPT !.exposure = Round(@)]]
             total == Round(totals.exposure)
             saved == Round(totals.highRiskExposure)
  <2> HIDE DEF ranking, sums, total, saved
  <2>1. report' = [generatedAt |-> clock, exposure |-> total,
                   gains |-> totals.gains, losses |-> totals.losses, neutral |-> totals.neutral,
                   highRisk |-> totals.highRisk, highRiskExposure |-> saved,
                   stale |-> totals.stale, breakdown |-> sums, pairs |-> insights,
                   ranking |-> ranking]
    BY <1>1 DEF ranking, sums, total, saved
  <2>2. /\ report'.generatedAt = clock /\ report'.highRiskExposure = saved
        /\ report'.ranking = ranking /\ report'.pairs = insights
        /\ report'.exposure = total /\ report'.breakdown = sums
        /\ report'.gains = totals.gains /\ report'.losses = totals.losses
        /\ report'.neutral = totals.neutral /\ report'.highRisk = totals.highRisk
    BY <2>1
  <2> QED
    BY <2>2 DEF ranking, saved, total, sums
<1>3. /\ UNCHANGED <<clock, transactions, threshold, now, items, pairs>>
      /\ exported' = exported + Round(totals.highRiskExposure)
      /\ answer'.status = 200
  BY DEF Report, Reply, loopVars
<1>4. Len(items) = Len(transactions)
  <2>1. pc = "next" /\ Len(items) + 1 > Len(transactions)
    BY DEF Report, InHand
  <2>2. Len(items) <= Len(transactions) /\ Len(items) \in Nat /\ Len(transactions) \in Nat
    <3>1. items \in Seq(ItemRecord) /\ transactions \in Seq(Transaction)
      BY DEF IInv, Typed
    <3>2. Len(items) <= Len(transactions)
      BY <2>1 DEF IInv, Progress
    <3> QED
      BY <3>1, <3>2
  <2> QED
    BY <2>1, <2>2
<1> QED
  BY <1>2, <1>3, <1>4

\* Everything a report says of time is said of `now', which is read once.
THEOREM OneInstantCorrect == Spec => []OneInstant
<1>1. Init => OneInstant
  BY DEF Init, OneInstant, Reported
<1>2. IInv /\ OneInstant /\ [Next]_vars => OneInstant'
  <2> SUFFICES ASSUME IInv, OneInstant, [Next]_vars PROVE OneInstant'
    OBVIOUS
  <2>1. CASE Report
    <3>1. /\ UNCHANGED <<transactions, items>>
          /\ report'.generatedAt = clock
      BY <2>1, ReportContents
    <3>2. now \in 0 .. clock
      BY DEF IInv, Typed
    <3>3. ASSUME NEW i \in 1 .. Len(items)
          PROVE  LET expires == ExpiresAt(transactions[i])
                 IN  /\ items[i].expiryRisk = ExpiryRisk(expires - now)
                     /\ (items[i].blocking = "authorization_expired") = (expires <= now)
                     /\ (items[i].nextAction = "reauthorize") = (expires <= now)
                     /\ ~items[i].stale => now - items[i].quotedAt <= SLA
      <4> DEFINE item == items[i]
                 expires == ExpiresAt(transactions[i])
      <4>1. item \in ItemRecord /\ Judged(item, transactions[i]) /\ ~Invalid(transactions[i])
        BY DEF IInv, Typed, ItemsJudged
      <4>2. /\ item.expiryRisk = ExpiryRisk(expires - now)
            /\ (item.blocking = "authorization_expired") = (expires <= now)
            /\ item.nextAction = NextAction(item.highRisk, item.urgency, item.expiryRisk)
            /\ ~item.stale => now - item.quotedAt <= SLA
        BY <4>1 DEF Judged
      <4>3. item.highRisk \in BOOLEAN /\ item.urgency \in Int /\ item.expiryRisk \in Risks
        BY <4>1 DEF ItemRecord
      <4>4. expires \in Int /\ expires - now \in Int /\ (expires - now <= 0) = (expires <= now)
        <5>1. transactions[i] \in Transaction /\ now \in Int
          BY DEF IInv, Typed, Progress
        <5>2. expires \in Int
          BY <4>1, <5>1, TimesOfTransaction
        <5> HIDE DEF expires
        <5> QED
          BY <5>1, <5>2
      <4> HIDE DEF item, expires
      <4>5. (item.nextAction = "reauthorize") = (item.expiryRisk = "expired")
        BY <4>2, <4>3, NextActionKnown
      <4>6. (item.expiryRisk = "expired") = (expires <= now)
        BY <4>2, <4>4, ExpiryRiskCases
      <4>7. (item.nextAction = "reauthorize") = (expires <= now)
        BY <4>5, <4>6, Zenon
      <4> QED
        BY <4>2, <4>7, Zenon DEF item, expires
    <3> QED
      BY <3>1, <3>2, <3>3 DEF OneInstant, ExpiresAt, AuthorizedAt
  <2>2. CASE report' = None
    BY <2>2 DEF OneInstant, Reported
  <2>3. CASE UNCHANGED vars
    BY <2>3 DEF vars, OneInstant, Reported, ExpiresAt, AuthorizedAt
  <2> QED
    BY <2>1, <2>2, <2>3, ReportedOnce
<1> QED
  BY <1>1, <1>2, InvariantHolds, PTL DEF Spec

\* Rounding moves a value by half a unit at most, and away from zero if by half a unit.
LEMMA RoundingKeepsOrder ==
  ASSUME NEW a \in Int, NEW b \in Int, Round(a) <= Round(b)
  PROVE  a < b + Unit
<1> DEFINE ra == Round(a)
           rb == Round(b)
<1>1. /\ ra \in Int /\ rb \in Int /\ Unit \in Nat \ {0} /\ ra <= rb
      /\ a >= 0 => 2 * (ra - a) <= Unit /\ 2 * (a - ra) < Unit
      /\ a < 0 => 2 * (ra - a) < Unit /\ 2 * (a - ra) <= Unit
      /\ b >= 0 => 2 * (rb - b) <= Unit /\ 2 * (b - rb) < Unit
      /\ b < 0 => 2 * (rb - b) < Unit /\ 2 * (b - rb) <= Unit
  BY RoundBounds, ExposureAssumption
<1> HIDE DEF ra, rb
<1> QED
  BY <1>1

\* The ranking is by loss, worst first, up to the rounding.
THEOREM RankingIsWorstFirstCorrect == Spec => []RankingIsWorstFirst
<1>1. Init => RankingIsWorstFirst
  BY DEF Init, RankingIsWorstFirst, Reported
<1>2. IInv /\ RankingIsWorstFirst /\ [Next]_vars => RankingIsWorstFirst'
  <2> SUFFICES ASSUME IInv, RankingIsWorstFirst, [Next]_vars PROVE RankingIsWorstFirst'
    OBVIOUS
  <2>1. CASE Report
    <3> DEFINE n == Len(items)
    <3>1. PICK order \in RankedOrders :
              report'.ranking = [i \in 1 .. Len(items) |-> items[order[i]]]
      BY <2>1, ReportContents
    <3>2. transactions' = transactions /\ Len(items) = Len(transactions)
      BY <2>1, ReportContents
    <3>3. /\ n \in Nat
          /\ DOMAIN order = 1 .. n
          /\ \A i \in 1 .. n : order[i] \in 1 .. n
          /\ \A i, j \in 1 .. n : i < j => ~RanksBefore(items[order[j]], items[order[i]])
      <4>1. n \in Nat
        BY DEF IInv, Typed
      <4>2. order \in [1 .. n -> 1 .. n]
        BY DEF RankedOrders, Bijection, Injection
      <4>3. \A i, j \in DOMAIN order : i < j => ~RanksBefore(items[order[j]], items[order[i]])
        BY DEF RankedOrders
      <4> QED
        BY ONLY <4>1, <4>2, <4>3
    <3>4. Len(report'.ranking) = n /\ \A i \in 1 .. n : report'.ranking[i] = items[order[i]]
      BY <3>1, <3>3
    <3>5. ASSUME NEW i \in 1 .. n, NEW j \in 1 .. n, i < j
          PROVE  LET a == items[order[i]]
                     b == items[order[j]]
                 IN  /\ a.exposure < b.exposure + Unit
                     /\ a.shownExposure = b.shownExposure
                          => transactions[a.tx].id <= transactions[b.tx].id
      <4> DEFINE a == items[order[i]]
                 b == items[order[j]]
                 ia == transactions[a.tx].id
                 ib == transactions[b.tx].id
      <4>1. order[i] \in 1 .. n /\ order[j] \in 1 .. n /\ ~RanksBefore(b, a)
        BY <3>3, <3>5
      <4>2. /\ a \in ItemRecord /\ b \in ItemRecord
            /\ a.tx = order[i] /\ b.tx = order[j]
            /\ a.shownExposure = Round(a.exposure) /\ b.shownExposure = Round(b.exposure)
        <5>1. \A k \in 1 .. n : items[k] \in ItemRecord
          BY DEF IInv, Typed
        <5>2. \A k \in 1 .. n : items[k].tx = k /\ Judged(items[k], transactions[k])
          BY DEF IInv, ItemsJudged
        <5>3. ASSUME NEW k \in 1 .. n PROVE items[k].shownExposure = Round(items[k].exposure)
          <6>1. Judged(items[k], transactions[k])
            BY <5>2
          <6> QED
            BY ONLY <6>1 DEF Judged
        <5> HIDE DEF n
        <5> QED
          BY <4>1, <5>1, <5>2, <5>3
      <4>3. ia \in Nat /\ ib \in Nat
        <5>1. transactions[order[i]] \in Transaction /\ transactions[order[j]] \in Transaction
          BY <3>2, <4>1 DEF IInv, Typed
        <5> QED
          BY <4>2, <5>1 DEF Transaction
      <4>4. /\ a.exposure \in Int /\ b.exposure \in Int
            /\ a.shownExposure \in Int /\ b.shownExposure \in Int
        BY <4>2 DEF ItemRecord
      <4>5. IF b.shownExposure = a.shownExposure THEN ~(ib < ia)
            ELSE ~(b.shownExposure < a.shownExposure)
        BY <4>1 DEF RanksBefore
      <4> HIDE DEF a, b, ia, ib
      <4>6. a.shownExposure <= b.shownExposure
        BY <4>4, <4>5
      <4>7. a.exposure < b.exposure + Unit
        BY <4>2, <4>4, <4>6, RoundingKeepsOrder
      <4>8. a.shownExposure = b.shownExposure => ia <= ib
        BY <4>3, <4>5
      <4> QED
        BY <4>7, <4>8 DEF a, b, ia, ib
    <3> HIDE DEF n
    <3>6. ASSUME NEW i \in 1 .. n, NEW j \in 1 .. n, i < j
          PROVE  /\ report'.ranking[i].exposure < report'.ranking[j].exposure + Unit
                 /\ report'.ranking[i].shownExposure = report'.ranking[j].shownExposure
                      => transactions'[report'.ranking[i].tx].id
                           <= transactions'[report'.ranking[j].tx].id
      <4>1. /\ report'.ranking[i] = items[order[i]] /\ report'.ranking[j] = items[order[j]]
            /\ transactions' = transactions
        BY <3>2, <3>4
      <4> QED
        BY <3>5, <3>6, <4>1
    <3> QED
      BY <3>4, <3>6 DEF RankingIsWorstFirst
  <2>2. CASE report' = None
    BY <2>2 DEF RankingIsWorstFirst, Reported
  <2>3. CASE UNCHANGED vars
    BY <2>3 DEF vars, RankingIsWorstFirst, Reported
  <2> QED
    BY <2>1, <2>2, <2>3, ReportedOnce
<1> QED
  BY <1>1, <1>2, InvariantHolds, PTL DEF Spec

\* The second test of the trend never decides: if no transaction of a pair is flagged, its
\* average is above the threshold.
LEMMA TrendOfPair ==
  ASSUME IInv, NEW pair \in DOMAIN pairs
  PROVE  /\ Insight(pair).pair = pair
         /\ Insight(pair).highRisk \in Nat
         /\ (Insight(pair).trend = "dangerous") <=> (Insight(pair).highRisk > 0)
         /\ (Insight(pair).trend = "dangerous")
              <=> \E k \in 1 .. Len(items) : items[k].highRisk /\ PairOf(k) = pair
<1> DEFINE g == pairs[pair]
           danger == g.highRisk > 0 \/ g.percentSum <= -threshold * Scale * g.count
           average == RoundRatio(g.percentSum, g.count)
           loss == Round(g.exposure)
<1>1. Insight(pair) = [pair |-> pair, count |-> g.count, highRisk |-> g.highRisk,
         exposure |-> loss, average |-> average,
         trend |-> IF danger THEN "dangerous" ELSE "stable_or_favorable"]
  BY DEF Insight
<1>2. /\ g.highRisk \in Nat
      /\ (g.highRisk > 0) <=> (\E k \in 1 .. Len(items) : items[k].highRisk /\ PairOf(k) = pair)
      /\ danger <=> g.highRisk > 0
  <2>1. /\ g.count \in Nat /\ g.highRisk \in Nat /\ g.percentSum \in Int
        /\ (g.highRisk > 0) <=> (\E k \in 1 .. Len(items) : items[k].highRisk /\ PairOf(k) = pair)
        /\ g.highRisk = 0 => g.percentSum > -threshold * Scale * g.count
    <3>1. PairsTally
      BY DEF IInv
    <3> HIDE DEF g
    <3>2. pairs[pair] = g
      BY DEF g
    <3> QED
      BY <3>1, <3>2 DEF PairsTally
  <2> DEFINE limit == -threshold * Scale * g.count
  <2>2. limit \in Int
    <3>1. threshold \in Int /\ Scale \in Int
      BY ExposureAssumption DEF IInv, Typed
    <3>2. g.count \in Int
      BY <2>1
    <3> HIDE DEF g, danger, average, loss
    <3> QED
      BY <3>1, <3>2, ProductIsInt
  <2> HIDE DEF g, limit
  <2>3. danger <=> (g.highRisk > 0 \/ g.percentSum <= limit)
    BY DEF limit
  <2>4. g.highRisk = 0 => g.percentSum > limit
    BY <2>1 DEF limit
  <2>5. danger <=> g.highRisk > 0
    BY <2>1, <2>2, <2>3, <2>4
  <2> QED
    BY <2>1, <2>5
<1> HIDE DEF g, danger, average, loss
<1>3. /\ Insight(pair).pair = pair /\ Insight(pair).highRisk = g.highRisk
      /\ (Insight(pair).trend = "dangerous") <=> danger
  BY <1>1
<1> QED
  BY <1>2, <1>3

\* A pair is dangerous exactly if a transaction of it is flagged, and dangerous pairs come first.
THEOREM TrendMeansHighRiskCorrect == Spec => []TrendMeansHighRisk
<1>1. Init => TrendMeansHighRisk
  BY DEF Init, TrendMeansHighRisk, Reported
<1>2. IInv /\ TrendMeansHighRisk /\ [Next]_vars => TrendMeansHighRisk'
  <2> SUFFICES ASSUME IInv, TrendMeansHighRisk, [Next]_vars PROVE TrendMeansHighRisk'
    OBVIOUS
  <2>1. CASE Report
    <3> DEFINE f == report'.pairs
               m == Cardinality(DOMAIN pairs)
    <3>1. UNCHANGED <<transactions, items>> /\ f \in RankedInsights
      BY <2>1, ReportContents
    <3>2. m \in Nat
      BY FS_CardinalityType DEF IInv, PairsTally
    <3> HIDE DEF f, m
    <3>3. /\ DOMAIN f = 1 .. m
          /\ \A i \in 1 .. m : \E pair \in DOMAIN pairs : f[i] = Insight(pair)
          /\ \A i, j \in 1 .. m : i < j => ~RiskierThan(f[j], f[i])
      BY <3>1 DEF RankedInsights, Bijection, Injection, m
    <3>4. ASSUME NEW i \in 1 .. m
          PROVE  /\ f[i].highRisk \in Nat
                 /\ (f[i].trend = "dangerous") <=> (f[i].highRisk > 0)
                 /\ (f[i].trend = "dangerous")
                      <=> \E k \in 1 .. Len(items) : items[k].highRisk /\ PairOf(k) = f[i].pair
      <4>1. PICK pair \in DOMAIN pairs : f[i] = Insight(pair)
        BY <3>3
      <4>2. /\ Insight(pair).pair = pair
            /\ Insight(pair).highRisk \in Nat
            /\ (Insight(pair).trend = "dangerous") <=> (Insight(pair).highRisk > 0)
            /\ (Insight(pair).trend = "dangerous")
                 <=> \E k \in 1 .. Len(items) : items[k].highRisk /\ PairOf(k) = pair
        BY TrendOfPair
      <4> QED
        BY <4>1, <4>2, Zenon
    <3>5. ASSUME NEW i \in 1 .. m, f[i].trend = "dangerous", NEW j \in 1 .. i
          PROVE  f[j].trend = "dangerous"
      <4>1. j \in 1 .. m /\ i \in Int /\ j \in Int /\ (j = i \/ j < i)
        BY <3>2
      <4>2. CASE j = i
        BY <3>5, <4>2
      <4>3. CASE j < i
        <5>1. ~RiskierThan(f[i], f[j])
          BY <3>3, <4>1, <4>3
        <5>2. f[i].highRisk \in Nat /\ f[j].highRisk \in Nat /\ f[i].highRisk > 0
          BY <3>4, <3>5, <4>1
        <5>3. f[j].highRisk > 0
          BY <5>1, <5>2 DEF RiskierThan
        <5> QED
          BY <3>4, <4>1, <5>3
      <4> QED
        BY <4>1, <4>2, <4>3
    <3>6. ASSUME NEW i \in DOMAIN f
          PROVE  (f[i].trend = "dangerous")
                   = \E k \in 1 .. Len(items) :
                        /\ items[k].highRisk
                        /\ <<transactions[k].presentment, transactions[k].settlement>> = f[i].pair
      BY <3>3, <3>4, Zenon DEF PairOf
    <3> QED
      BY <3>1, <3>3, <3>5, <3>6, Zenon DEF TrendMeansHighRisk, f
  <2>2. CASE report' = None
    BY <2>2 DEF TrendMeansHighRisk, Reported
  <2>3. CASE UNCHANGED vars
    BY <2>3 DEF vars, TrendMeansHighRisk, Reported
  <2> QED
    BY <2>1, <2>2, <2>3, ReportedOnce
<1> QED
  BY <1>1, <1>2, InvariantHolds, PTL DEF Spec

\* The statuses of failures.
LEMMA FailuresHaveStatus ==
  ASSUME NEW code \in Codes
  PROVE  StatusOf(code) \in {400, 500, 502}
<1>1. CASE code = "FX_RATE_UNAVAILABLE"
  BY <1>1 DEF StatusOf
<1>2. CASE code = "INTERNAL_ERROR"
  BY <1>2 DEF StatusOf
<1>3. CASE code \in Codes \ {"FX_RATE_UNAVAILABLE", "INTERNAL_ERROR"}
  BY <1>3 DEF StatusOf
<1> QED
  BY <1>1, <1>2, <1>3

LEMMA RefusedIsFailure ==
  ASSUME NEW code \in Codes, Refuse(code)
  PROVE  answer'.status # 200
<1>1. answer'.status = StatusOf(code)
  BY DEF Refuse, Reply
<1> QED
  BY <1>1, FailuresHaveStatus

LEMMA OnlyReportSucceeds ==
  ASSUME [Next]_vars, pc # "done", pc' = "done", answer'.status = 200
  PROVE  Report
<1>1. ~(UNCHANGED vars) /\ ~Answered
  BY DEF vars, Answered
<1>2. ~(\E code \in Codes : Refuse(code))
  BY RefusedIsFailure
<1>3. ~RejectBody /\ ~LoadFails
  BY <1>2 DEF RejectBody, LoadFails, Codes
<1>4. ~RefuseRequest
  BY <1>2 DEF RefuseRequest, Codes
<1>5. ~Validate
  BY <1>2 DEF Validate, Codes
<1>6. ~RateFails
  BY <1>2 DEF RateFails, ProviderFailures, Codes
<1>7. ~Begin /\ ~HistoricalRate /\ ~CurrentRate /\ ~Tick
  BY DEF Begin, HistoricalRate, CurrentRate, Tick
<1> QED
  BY <1>1, <1>3, <1>4, <1>5, <1>6, <1>7 DEF Next

\* A request gets a whole report or none, and only a report is counted by the metrics.
THEOREM AllOrNothingCorrect == Spec => []AllOrNothing
<1>1. Init => AllOrNothing
  BY DEF Init, AllOrNothing
<1>2. IInv /\ AllOrNothing /\ [Next]_vars => AllOrNothing'
  <2> SUFFICES ASSUME IInv, AllOrNothing, [Next]_vars PROVE AllOrNothing'
    OBVIOUS
  <2>1. CASE Report
    <3> DEFINE n == Len(items)
    <3>1. PICK order \in RankedOrders :
              report'.ranking = [i \in 1 .. Len(items) |-> items[order[i]]]
      BY <2>1, ReportContents
    <3>2. /\ UNCHANGED <<transactions, threshold>> /\ Len(items) = Len(transactions)
          /\ report'.highRiskExposure = Round(totals.highRiskExposure)
          /\ exported' = exported + Round(totals.highRiskExposure)
          /\ answer'.status = 200
      BY <2>1, ReportContents
    <3>3. /\ n \in Nat /\ transactions \in Seq(Transaction)
          /\ order \in [1 .. n -> 1 .. n]
          /\ \A j \in 1 .. n : \E i \in 1 .. n : order[i] = j
      BY DEF RankedOrders, Bijection, Injection, Surjection, IInv, Typed
    <3>4. Len(report'.ranking) = n
      BY <3>1, <3>3
    <3>5. \A i \in 1 .. n : report'.ranking[i].tx = order[i]
      BY <3>1, <3>3 DEF IInv, ItemsJudged
    <3>6. {report'.ranking[i].tx : i \in 1 .. n} = 1 .. n
      <4> HIDE DEF n
      <4> QED
        BY <3>3, <3>5
    <3>7. \E request \in Requests : transactions = Posted(request) /\ threshold = ThresholdOf(request)
      BY <2>1 DEF Report, IInv, Progress
    <3>8. \A t \in Range(transactions) : ~Invalid(t)
      <4>1. DOMAIN transactions = 1 .. n
        BY <3>2, <3>3
      <4>2. \A i \in 1 .. n : ~Invalid(transactions[i])
        BY DEF IInv, ItemsJudged
      <4> QED
        BY <4>1, <4>2 DEF Range
    <3>9. exported' = report'.highRiskExposure
      <4>1. exported = 0 /\ Round(totals.highRiskExposure) \in Int
        BY <2>1, RoundBounds DEF Report, IInv, Progress, Typed
      <4> QED
        BY <3>2, <4>1
    <3>10. PICK request \in Requests :
              transactions = Posted(request) /\ threshold = ThresholdOf(request)
      BY <3>7
    <3>11. /\ transactions' = Posted(request) /\ threshold' = ThresholdOf(request)
           /\ \A t \in Range(transactions') : ~Invalid(t)'
      BY <3>2, <3>8, <3>10 DEF Invalid, AuthorizedAt
    <3>12. Len(report'.ranking) = Len(transactions')
             /\ {report'.ranking[i].tx : i \in 1 .. Len(transactions')} = 1 .. Len(transactions')
      BY <3>2, <3>4, <3>6
    <3>13. \E posted \in Requests :
              /\ transactions' = Posted(posted)'
              /\ threshold' = ThresholdOf(posted)'
              /\ \A t \in Range(transactions') : ~Invalid(t)'
      BY <3>11 DEF Posted, ThresholdOf
    <3>14. answer'.status = 200
      BY <3>2
    <3> QED
      BY <3>9, <3>12, <3>13, <3>14 DEF AllOrNothing
  <2>2. CASE ~Report /\ report' = None /\ pc # "done" /\ exported' = 0
    <3>1. pc' = "done" => answer'.status # 200
      BY <2>2, OnlyReportSucceeds
    <3> QED
      BY <2>2, <3>1 DEF AllOrNothing, Reported
  <2>3. CASE UNCHANGED vars
    <3> DEFINE accepted == \E request \in Requests :
                              /\ transactions = Posted(request)
                              /\ threshold = ThresholdOf(request)
                              /\ \A t \in Range(transactions) : ~Invalid(t)
    <3>1. /\ transactions' = transactions /\ threshold' = threshold /\ pc' = pc
          /\ report' = report /\ answer' = answer /\ exported' = exported
      BY <2>3 DEF vars
    <3>2. (\A t \in Range(transactions) : ~Invalid(t))
            => (\A t \in Range(transactions') : ~Invalid(t)')
      BY <3>1 DEF Invalid, AuthorizedAt
    <3>3. accepted => accepted'
      <4> SUFFICES ASSUME accepted PROVE accepted'
        OBVIOUS
      <4>1. PICK request \in Requests :
                /\ transactions = Posted(request)
                /\ threshold = ThresholdOf(request)
                /\ \A t \in Range(transactions) : ~Invalid(t)
        OBVIOUS
      <4>2. /\ transactions' = Posted(request)
            /\ threshold' = ThresholdOf(request)
            /\ \A t \in Range(transactions') : ~Invalid(t)'
        BY <3>1, <3>2, <4>1
      <4> QED
        BY <4>2 DEF Posted, ThresholdOf
    <3>4. AllOrNothing' <=> (pc' = "done" =>
            IF answer'.status = 200
            THEN /\ Len(report'.ranking) = Len(transactions')
                 /\ {report'.ranking[i].tx : i \in 1 .. Len(transactions')} = 1 .. Len(transactions')
                 /\ accepted'
                 /\ exported' = report'.highRiskExposure
            ELSE ~Reported' /\ exported' = 0)
      BY DEF AllOrNothing
    <3>5. pc = "done" =>
            IF answer.status = 200
            THEN /\ Len(report.ranking) = Len(transactions)
                 /\ {report.ranking[i].tx : i \in 1 .. Len(transactions)} = 1 .. Len(transactions)
                 /\ accepted
                 /\ exported = report.highRiskExposure
            ELSE ~Reported /\ exported = 0
      BY DEF AllOrNothing
    <3> HIDE DEF accepted
    <3> QED
      BY <3>1, <3>3, <3>4, <3>5 DEF Reported
  <2> QED
    BY <2>1, <2>2, <2>3, ReportedOnce
<1> QED
  BY <1>1, <1>2, InvariantHolds, PTL DEF Spec

--------------------------------------------------------------------------------
(* The sums *)

\* A field of the groups, added up.
SumOf(groups, field) ==
  SumFunctionOnSet([key \in DOMAIN groups |-> groups[key][field]], DOMAIN groups)

Loss(item) == Max({0, -item.exposure})

Flagged == {i \in 1 .. Len(items) : items[i].highRisk}

\* The totals count and add up the items.
TotalsTally ==
  /\ totals.gains \in Int /\ totals.losses \in Int /\ totals.neutral \in Int
  /\ totals.gains + totals.losses + totals.neutral = Len(items)
  /\ totals.exposure
       = SumFunctionOnSet([i \in 1 .. Len(items) |-> items[i].exposure], 1 .. Len(items))
  /\ totals.highRisk = Cardinality(Flagged)
  /\ totals.highRiskExposure = SumFunctionOnSet([i \in Flagged |-> Loss(items[i])], Flagged)

CurrencyGroup == [exposure : Int, count : Int, gains : Int, losses : Int]

\* The groups of either breakdown add up to the totals.
GroupsTally ==
  /\ IsFiniteSet(DOMAIN breakdown)
  /\ breakdown \in [DOMAIN breakdown -> CurrencyGroup]
  /\ SumOf(breakdown, "count") = Len(items)
  /\ SumOf(breakdown, "gains") = totals.gains
  /\ SumOf(breakdown, "losses") = totals.losses
  /\ SumOf(breakdown, "exposure") = totals.exposure
  /\ SumOf(pairs, "count") = Len(items)
  /\ SumOf(pairs, "highRisk") = totals.highRisk

TallyInv == TotalsTally /\ GroupsTally

\* One more item in a group adds to the sum of a field what it adds to the field.
LEMMA SumOfPut ==
  ASSUME NEW groups, IsFiniteSet(DOMAIN groups), NEW field,
         \A k \in DOMAIN groups : groups[k][field] \in Int,
         NEW key, NEW empty, empty[field] = 0,
         NEW new, NEW step \in Int, new[field] = Group(groups, key, empty)[field] + step
  PROVE  SumOf(Put(groups, key, new), field) = SumOf(groups, field) + step
<1> DEFINE S == DOMAIN groups
           T == DOMAIN groups \cup {key}
           put == Put(groups, key, new)
           f == [k \in S |-> groups[k][field]]
           g == [k \in T |-> put[k][field]]
<1>1. DOMAIN put = T /\ \A k \in T : put[k] = IF k = key THEN new ELSE groups[k]
  BY DEF Put
<1>2. Group(groups, key, empty)[field] = IF key \in S THEN f[key] ELSE 0
  BY DEF Group
<1>3. \A k \in S : f[k] \in Int
  OBVIOUS
<1>4. \A k \in S \ {key} : g[k] = f[k]
  BY <1>1
<1>5. g[key] = (IF key \in S THEN f[key] ELSE 0) + step
  BY <1>1, <1>2
<1>6. /\ SumOf(put, field) = SumFunctionOnSet(g, T)
      /\ SumOf(groups, field) = SumFunctionOnSet(f, S)
  BY <1>1 DEF SumOf
<1>7. SumFunctionOnSet(g, T) = SumFunctionOnSet(f, S) + step
  <2>1. IsFiniteSet(S) /\ step \in Int
    OBVIOUS
  <2> HIDE DEF f, g, S, put
  <2>2. T = S \cup {key}
    BY DEF S
  <2> HIDE DEF T
  <2>3. SumFunctionOnSet(g, S \cup {key}) = SumFunctionOnSet(f, S) + step
    <3>1. GrowsAt(f, g, S, key, step)
      BY ONLY <1>3, <1>4, <1>5, <2>1 DEF GrowsAt
    <3> QED
      BY ONLY <3>1, SumOfStep
  <2> QED
    BY <2>2, <2>3
<1> QED
  BY <1>6, <1>7

LEMMA InitTally == Init => TallyInv
<1> SUFFICES ASSUME Init PROVE TallyInv
  OBVIOUS
<1>1. /\ Len(items) = 0 /\ 1 .. Len(items) = {} /\ totals = NoTotals
      /\ DOMAIN breakdown = {} /\ DOMAIN pairs = {} /\ breakdown = <<>>
  BY DEF Init
<1>2. Flagged = {} /\ Cardinality({}) = 0 /\ IsFiniteSet({})
  BY <1>1, FS_EmptySet DEF Flagged
<1>3. \A f : SumFunctionOnSet(f, {}) = 0
  BY SumOfNone
<1>4. TotalsTally
  BY <1>1, <1>2, <1>3 DEF TotalsTally, NoTotals
<1>5. GroupsTally
  <2>1. breakdown \in [DOMAIN breakdown -> CurrencyGroup]
    BY <1>1
  <2> QED
    BY <1>1, <1>2, <1>3, <2>1 DEF GroupsTally, SumOf, NoTotals
<1> QED
  BY <1>4, <1>5 DEF TallyInv

LEMMA SameTally ==
  ASSUME TallyInv, UNCHANGED loopVars
  PROVE  TallyInv'
BY DEF TallyInv, TotalsTally, GroupsTally, SumOf, Flagged, loopVars

\* What the loop does with the item that it has made.
LEMMA CurrentItem ==
  ASSUME IInv, CurrentRate
  PROVE  \E item \in ItemRecord : \E currency, pair :
            /\ items' = Append(items, item)
            /\ AddToTotals(item)
            /\ AddToBreakdown(item, currency)
            /\ AddToPairs(item, pair)
<1>1. PICK rate \in Rates, age \in 0 .. Oldest, stale \in BOOLEAN :
        LET item == Item(InHand, [rate |-> rate, timestamp |-> clock - age, stale |-> stale])
            t == transactions[InHand]
        IN  /\ items' = Append(items, item)
            /\ AddToTotals(item)
            /\ AddToBreakdown(item, t.presentment)
            /\ AddToPairs(item, <<t.presentment, t.settlement>>)
  BY DEF CurrentRate
<1> DEFINE item == Item(InHand, [rate |-> rate, timestamp |-> clock - age, stale |-> stale])
           t == transactions[InHand]
<1>2. /\ items' = Append(items, item) /\ AddToTotals(item)
      /\ AddToBreakdown(item, t.presentment)
      /\ AddToPairs(item, <<t.presentment, t.settlement>>)
  BY <1>1
<1> HIDE DEF item, t
<1>3. items \in Seq(ItemRecord) /\ items' \in Seq(ItemRecord)
  BY CurrentInv DEF IInv, Typed
<1>4. item \in ItemRecord
  <2>1. Len(items') = Len(items) + 1 /\ items'[Len(items) + 1] = item /\ Len(items) \in Nat
    BY <1>2, <1>3
  <2> QED
    BY <1>3, <2>1
<1> QED
  BY <1>2, <1>4

LEMMA LossIsInt ==
  ASSUME NEW item \in ItemRecord
  PROVE  /\ Loss(item) \in Int
         /\ Loss(item) = IF item.exposure < 0 THEN -item.exposure ELSE 0
<1>1. item.exposure \in Int /\ -item.exposure \in Int
  BY DEF ItemRecord
<1> DEFINE loss == -item.exposure
<1>2. loss \in Int /\ Loss(item) = Max({0, loss})
  BY <1>1 DEF Loss
<1> HIDE DEF loss
<1>3. Max({0, loss}) \in {0, loss} /\ Max({0, loss}) >= 0 /\ Max({0, loss}) >= loss
  BY <1>2, MaxOfTwo, 0 \in Int
<1> QED
  BY <1>1, <1>2, <1>3 DEF loss

LEMMA TotalsStep ==
  ASSUME TotalsTally, items \in Seq(ItemRecord), NEW item \in ItemRecord,
         items' = Append(items, item), AddToTotals(item)
  PROVE  TotalsTally'
<1> DEFINE n == Len(items)
           exposures == [i \in 1 .. n |-> items[i].exposure]
           losses == [i \in Flagged |-> Loss(items[i])]
<1>1. n \in Nat /\ IsFiniteSet(1 .. n) /\ 1 .. n + 1 = 1 .. n \cup {n + 1} /\ n + 1 \notin 1 .. n
  <2>1. n \in Nat /\ n \in Int /\ 1 \in Int
    OBVIOUS
  <2> HIDE DEF n
  <2>2. IsFiniteSet(1 .. n)
    BY ONLY <2>1, FS_Interval
  <2> QED
    BY ONLY <2>1, <2>2
<1>2. /\ Len(items') = n + 1 /\ items'[n + 1] = item
      /\ \A i \in 1 .. n : items'[i] = items[i] /\ items[i] \in ItemRecord
  OBVIOUS
<1>3. item.exposure \in Int /\ item.highRisk \in BOOLEAN
  BY DEF ItemRecord
<1>4. /\ totals'.exposure = totals.exposure + item.exposure
      /\ totals'.gains = totals.gains + One(item.exposure > 0)
      /\ totals'.losses = totals.losses + One(item.exposure < 0)
      /\ totals'.neutral = totals.neutral + One(item.exposure = 0)
      /\ totals'.highRisk = totals.highRisk + One(item.highRisk)
      /\ totals'.highRiskExposure = totals.highRiskExposure
           + IF item.highRisk /\ item.exposure < 0 THEN -item.exposure ELSE 0
  BY DEF AddToTotals
<1> HIDE DEF n
<1>5. /\ totals'.gains \in Int /\ totals'.losses \in Int /\ totals'.neutral \in Int
      /\ totals'.gains + totals'.losses + totals'.neutral = Len(items')
  <2>1. /\ totals.gains \in Int /\ totals.losses \in Int /\ totals.neutral \in Int
        /\ totals.gains + totals.losses + totals.neutral = n
    BY DEF TotalsTally, n
  <2> DEFINE up == One(item.exposure > 0)
             down == One(item.exposure < 0)
             level == One(item.exposure = 0)
  <2>2. up \in Int /\ down \in Int /\ level \in Int /\ up + down + level = 1
    BY ONLY <1>3 DEF One
  <2>3. totals'.gains = totals.gains + up /\ totals'.losses = totals.losses + down
        /\ totals'.neutral = totals.neutral + level
    BY <1>4
  <2> HIDE DEF up, down, level
  <2> QED
    <3> DEFINE a == totals.gains
               b == totals.losses
               c == totals.neutral
    <3>1. a \in Int /\ b \in Int /\ c \in Int /\ a + b + c = n
      BY <2>1
    <3>2. totals'.gains = a + up /\ totals'.losses = b + down /\ totals'.neutral = c + level
      BY <2>3
    <3>3. Len(items') = n + 1 /\ n \in Nat
      BY <1>1, <1>2
    <3> HIDE DEF a, b, c
    <3>4. a + up \in Int /\ b + down \in Int /\ c + level \in Int
      BY ONLY <2>2, <3>1
    <3>5. (a + up) + (b + down) + (c + level) = n + 1
      BY ONLY <2>2, <3>1, <3>3
    <3> QED
      BY ONLY <3>2, <3>3, <3>4, <3>5
<1>6. totals'.exposure
        = SumFunctionOnSet([i \in 1 .. Len(items') |-> items'[i].exposure], 1 .. Len(items'))
  <2> DEFINE more == [i \in 1 .. n + 1 |-> items'[i].exposure]
             S == 1 .. n
  <2>1. \A i \in S : exposures[i] \in Int
    BY <1>2 DEF ItemRecord
  <2>2. \A i \in S \ {n + 1} : more[i] = exposures[i]
    BY <1>1, <1>2
  <2>3. more[n + 1] = (IF n + 1 \in S THEN exposures[n + 1] ELSE 0) + item.exposure
    BY <1>1, <1>2, <1>3
  <2>4. IsFiniteSet(S) /\ S \cup {n + 1} = 1 .. n + 1
    BY <1>1
  <2> HIDE DEF exposures, more, S
  <2>5. SumFunctionOnSet(more, S \cup {n + 1}) = SumFunctionOnSet(exposures, S) + item.exposure
    <3>1. GrowsAt(exposures, more, S, n + 1, item.exposure)
      BY ONLY <1>3, <2>1, <2>2, <2>3, <2>4 DEF GrowsAt
    <3> QED
      BY ONLY <3>1, SumOfStep
  <2>6. totals.exposure = SumFunctionOnSet(exposures, S)
    BY DEF TotalsTally, exposures, S, n
  <2>7. totals'.exposure = SumFunctionOnSet(more, 1 .. n + 1)
    BY ONLY <1>4, <2>4, <2>5, <2>6
  <2>8. Len(items') = n + 1
    BY <1>2
  <2> QED
    BY ONLY <2>7, <2>8 DEF more
<1>7. IF item.highRisk THEN Flagged' = Flagged \cup {n + 1} ELSE Flagged' = Flagged
  BY <1>1, <1>2, <1>3 DEF Flagged, n
<1>8. IsFiniteSet(Flagged) /\ Flagged \subseteq 1 .. n /\ Cardinality(Flagged) \in Nat
  <2>1. Flagged \subseteq 1 .. n
    BY DEF Flagged, n
  <2> QED
    BY <1>1, <2>1, FS_Subset, FS_CardinalityType
<1>9. totals'.highRisk = Cardinality(Flagged')
  <2>1. Cardinality(Flagged \cup {n + 1}) = Cardinality(Flagged) + 1
    BY <1>1, <1>8, FS_AddElement
  <2> QED
    <3>1. totals.highRisk = Cardinality(Flagged)
      BY DEF TotalsTally
    <3>2. totals'.highRisk = totals.highRisk + (IF item.highRisk THEN 1 ELSE 0)
      BY <1>4 DEF One
    <3>3. CASE item.highRisk
      BY ONLY <1>7, <2>1, <3>1, <3>2, <3>3
    <3>4. CASE ~item.highRisk
      <4>1. Flagged' = Flagged
        BY <1>7, <3>4
      <4> QED
        BY ONLY <1>8, <3>1, <3>2, <3>4, <4>1
    <3> QED
      BY ONLY <3>3, <3>4
<1>10. totals'.highRiskExposure = SumFunctionOnSet([i \in Flagged' |-> Loss(items'[i])], Flagged')
  <2> DEFINE more == [i \in Flagged' |-> Loss(items'[i])]
  <2>1. totals.highRiskExposure = SumFunctionOnSet(losses, Flagged)
    BY DEF TotalsTally
  <2>2. \A i \in Flagged : losses[i] \in Int
    BY <1>2, <1>8, LossIsInt
  <2>3. \A i \in Flagged : i # n + 1 /\ more[i] = losses[i]
    BY <1>1, <1>2, <1>7, <1>8 DEF Loss
  <2>4. CASE item.highRisk
    <3>1. Flagged' = Flagged \cup {n + 1} /\ more[n + 1] = Loss(item)
      BY <1>2, <1>7, <2>4 DEF Loss
    <3>2. Loss(item) \in Int /\ totals'.highRiskExposure = totals.highRiskExposure + Loss(item)
      BY <1>4, <2>4, LossIsInt
    <3> DEFINE step == Loss(item)
               key == n + 1
    <3> HIDE DEF more, losses, step, key
    <3>3. step \in Int /\ more[key] = step /\ key \notin Flagged
      BY <2>3, <3>1, <3>2 DEF step, key
    <3>4. SumFunctionOnSet(more, Flagged \cup {key}) = SumFunctionOnSet(losses, Flagged) + step
      <4>1. \A i \in Flagged \ {key} : more[i] = losses[i]
        BY <2>3
      <4>2. more[key] = (IF key \in Flagged THEN losses[key] ELSE 0) + step
        BY ONLY <3>3
      <4>3. IsFiniteSet(Flagged) /\ step \in Int
        BY <1>8, <3>3
      <4>4. GrowsAt(losses, more, Flagged, key, step)
        BY ONLY <2>2, <4>1, <4>2, <4>3 DEF GrowsAt
      <4> QED
        BY ONLY <4>4, SumOfStep
    <3>5. totals'.highRiskExposure = SumFunctionOnSet(more, Flagged')
      BY <2>1, <3>1, <3>2, <3>4 DEF step, key
    <3> QED
      BY <3>5 DEF more
  <2>5. CASE ~item.highRisk
    <3>1. Flagged' = Flagged /\ totals'.highRiskExposure = totals.highRiskExposure
      <4>1. SumFunctionOnSet(losses, Flagged) \in Int
        <5> HIDE DEF losses
        <5> QED
          BY <1>8, <2>2, SumTakeOut
      <4> HIDE DEF losses
      <4> QED
        BY <1>4, <1>7, <2>1, <2>5, <4>1
    <3>2. \A i \in Flagged : losses[i] = more[i]
      BY <2>3
    <3> HIDE DEF more, losses
    <3>3. SumFunctionOnSet(losses, Flagged) = SumFunctionOnSet(more, Flagged)
      BY ONLY <1>8, <3>2, SumOfEquals
    <3>4. totals'.highRiskExposure = SumFunctionOnSet(more, Flagged')
      BY <2>1, <3>1, <3>3
    <3> QED
      BY <3>4 DEF more
  <2> QED
    BY <1>3, <2>4, <2>5
<1> QED
  BY <1>5, <1>6, <1>9, <1>10 DEF TotalsTally

LEMMA BreakdownStep ==
  ASSUME GroupsTally, NEW item \in ItemRecord, NEW currency, AddToBreakdown(item, currency)
  PROVE  /\ IsFiniteSet(DOMAIN breakdown')
         /\ breakdown' \in [DOMAIN breakdown' -> CurrencyGroup]
         /\ SumOf(breakdown', "count") = SumOf(breakdown, "count") + 1
         /\ SumOf(breakdown', "gains") = SumOf(breakdown, "gains") + One(item.exposure > 0)
         /\ SumOf(breakdown', "losses") = SumOf(breakdown, "losses") + One(item.exposure < 0)
         /\ SumOf(breakdown', "exposure") = SumOf(breakdown, "exposure") + item.exposure
<1> DEFINE g == Group(breakdown, currency, NoCurrencyGroup)
           up == One(item.exposure > 0)
           down == One(item.exposure < 0)
           new == [exposure |-> g.exposure + item.exposure, count |-> g.count + 1,
                   gains |-> g.gains + up, losses |-> g.losses + down]
<1>1. item.exposure \in Int /\ up \in Int /\ down \in Int
  BY DEF ItemRecord, One
<1>2. IsFiniteSet(DOMAIN breakdown) /\ breakdown \in [DOMAIN breakdown -> CurrencyGroup]
  BY DEF GroupsTally
<1>3. \A c \in DOMAIN breakdown : breakdown[c] \in CurrencyGroup
  BY <1>2
<1>4. g \in CurrencyGroup
  BY <1>3 DEF Group, NoCurrencyGroup, CurrencyGroup
<1>5. breakdown' = Put(breakdown, currency, new)
  BY DEF AddToBreakdown
<1> HIDE DEF g, up, down
<1>6. /\ new \in CurrencyGroup
      /\ new["count"] = g["count"] + 1 /\ new["gains"] = g["gains"] + up
      /\ new["losses"] = g["losses"] + down /\ new["exposure"] = g["exposure"] + item.exposure
  BY <1>1, <1>4 DEF CurrencyGroup
<1> HIDE DEF new
<1>7. /\ IsFiniteSet(DOMAIN breakdown')
      /\ breakdown' \in [DOMAIN breakdown' -> CurrencyGroup]
  <2>1. /\ breakdown' = [k \in DOMAIN breakdown \cup {currency} |->
                            IF k = currency THEN new ELSE breakdown[k]]
        /\ DOMAIN breakdown' = DOMAIN breakdown \cup {currency}
    BY <1>5 DEF Put
  <2>2. IsFiniteSet(DOMAIN breakdown \cup {currency})
    BY <1>2, FS_AddElement
  <2> QED
    BY <1>3, <1>6, <2>1, <2>2
<1>8. \A c \in DOMAIN breakdown : /\ breakdown[c]["count"] \in Int
                                  /\ breakdown[c]["gains"] \in Int
                                  /\ breakdown[c]["losses"] \in Int
                                  /\ breakdown[c]["exposure"] \in Int
  BY <1>3 DEF CurrencyGroup
<1>9. /\ NoCurrencyGroup["count"] = 0 /\ NoCurrencyGroup["gains"] = 0
      /\ NoCurrencyGroup["losses"] = 0 /\ NoCurrencyGroup["exposure"] = 0
  BY DEF NoCurrencyGroup
<1>10. ASSUME NEW field \in {"count", "gains", "losses", "exposure"}, NEW step \in Int,
              new[field] = g[field] + step
       PROVE  SumOf(breakdown', field) = SumOf(breakdown, field) + step
  <2>1. \A c \in DOMAIN breakdown : breakdown[c][field] \in Int
    BY <1>8
  <2>2. NoCurrencyGroup[field] = 0
    BY <1>9
  <2>3. new[field] = Group(breakdown, currency, NoCurrencyGroup)[field] + step
    BY <1>10 DEF g
  <2>4. SumOf(Put(breakdown, currency, new), field) = SumOf(breakdown, field) + step
    BY ONLY <1>2, <1>10, <2>1, <2>2, <2>3, SumOfPut
  <2> QED
    BY <1>5, <2>4
<1>11. /\ SumOf(breakdown', "count") = SumOf(breakdown, "count") + 1
       /\ SumOf(breakdown', "gains") = SumOf(breakdown, "gains") + up
       /\ SumOf(breakdown', "losses") = SumOf(breakdown, "losses") + down
       /\ SumOf(breakdown', "exposure") = SumOf(breakdown, "exposure") + item.exposure
  BY <1>1, <1>6, <1>10
<1> QED
  BY <1>7, <1>11 DEF up, down

LEMMA PairsStep ==
  ASSUME PairsTally, NEW item \in ItemRecord, NEW pair, AddToPairs(item, pair)
  PROVE  /\ SumOf(pairs', "count") = SumOf(pairs, "count") + 1
         /\ SumOf(pairs', "highRisk") = SumOf(pairs, "highRisk") + One(item.highRisk)
<1> DEFINE g == Group(pairs, pair, NoPairGroup)
           flag == One(item.highRisk)
           new == [count |-> g.count + 1, highRisk |-> g.highRisk + flag,
                   exposure |-> g.exposure + item.exposure,
                   percentSum |-> g.percentSum + item.percent]
<1>1. flag \in Int
  BY DEF One
<1>2. pairs' = Put(pairs, pair, new)
  BY DEF AddToPairs
<1>3. /\ IsFiniteSet(DOMAIN pairs)
      /\ \A p \in DOMAIN pairs : pairs[p]["count"] \in Int /\ pairs[p]["highRisk"] \in Int
  BY DEF PairsTally
<1>4. NoPairGroup["count"] = 0 /\ NoPairGroup["highRisk"] = 0
  BY DEF NoPairGroup
<1> HIDE DEF g, flag
<1>5. new["count"] = g["count"] + 1 /\ new["highRisk"] = g["highRisk"] + flag
  OBVIOUS
<1> HIDE DEF new
<1>6. ASSUME NEW field \in {"count", "highRisk"}, NEW step \in Int, new[field] = g[field] + step
      PROVE  SumOf(pairs', field) = SumOf(pairs, field) + step
  <2>1. \A p \in DOMAIN pairs : pairs[p][field] \in Int
    BY <1>3
  <2>2. NoPairGroup[field] = 0
    BY <1>4
  <2>3. new[field] = Group(pairs, pair, NoPairGroup)[field] + step
    BY <1>6 DEF g
  <2>4. SumOf(Put(pairs, pair, new), field) = SumOf(pairs, field) + step
    BY ONLY <1>3, <1>6, <2>1, <2>2, <2>3, SumOfPut
  <2> QED
    BY <1>2, <2>4
<1> QED
  BY <1>1, <1>5, <1>6 DEF flag

LEMMA CurrentTally ==
  ASSUME IInv, TallyInv, CurrentRate
  PROVE  TallyInv'
<1>1. PICK item \in ItemRecord :
         \E currency, pair :
            /\ items' = Append(items, item)
            /\ AddToTotals(item)
            /\ AddToBreakdown(item, currency)
            /\ AddToPairs(item, pair)
  BY CurrentItem
<1>2. PICK currency, pair :
         /\ items' = Append(items, item)
         /\ AddToTotals(item)
         /\ AddToBreakdown(item, currency)
         /\ AddToPairs(item, pair)
  BY <1>1
<1>3. TotalsTally /\ GroupsTally /\ PairsTally /\ items \in Seq(ItemRecord)
  BY DEF IInv, TallyInv, Typed
<1>4. TotalsTally'
  BY <1>2, <1>3, TotalsStep
<1>5. /\ Len(items') = Len(items) + 1
      /\ totals'.gains = totals.gains + One(item.exposure > 0)
      /\ totals'.losses = totals.losses + One(item.exposure < 0)
      /\ totals'.exposure = totals.exposure + item.exposure
      /\ totals'.highRisk = totals.highRisk + One(item.highRisk)
  BY <1>2, <1>3 DEF AddToTotals
<1>6. /\ IsFiniteSet(DOMAIN breakdown')
      /\ breakdown' \in [DOMAIN breakdown' -> CurrencyGroup]
      /\ SumOf(breakdown', "count") = Len(items')
      /\ SumOf(breakdown', "gains") = totals'.gains
      /\ SumOf(breakdown', "losses") = totals'.losses
      /\ SumOf(breakdown', "exposure") = totals'.exposure
  BY <1>2, <1>3, <1>5, BreakdownStep DEF GroupsTally
<1>7. SumOf(pairs', "count") = Len(items') /\ SumOf(pairs', "highRisk") = totals'.highRisk
  BY <1>2, <1>3, <1>5, PairsStep DEF GroupsTally
<1> QED
  BY <1>4, <1>6, <1>7 DEF TallyInv, GroupsTally, SumOf, CurrencyGroup

\* The accumulators of the loop say of the items what the items say of themselves.
THEOREM TalliesHold == Spec => []TallyInv
<1>1. IInv /\ TallyInv /\ [Next]_vars => TallyInv'
  <2> SUFFICES ASSUME IInv, TallyInv, [Next]_vars PROVE TallyInv'
    OBVIOUS
  <2>1. CASE CurrentRate
    BY <2>1, CurrentTally
  <2>2. CASE ~CurrentRate
    <3>1. UNCHANGED loopVars
      BY <2>2 DEF Next, vars, loopVars, RejectBody, LoadFails, RefuseRequest, Begin, Validate,
                  HistoricalRate, RateFails, Report, Tick, Answered
    <3> QED
      BY <3>1, SameTally
  <2> QED
    BY <2>1, <2>2
<1> QED
  BY <1>1, InitTally, InvariantHolds, PTL DEF Spec

\* The sum of rounded values and the rounded sum.
LEMMA RoundedSum ==
  ASSUME NEW S, IsFiniteSet(S), NEW f, NEW g, \A x \in S : f[x] \in Int /\ g[x] = Round(f[x]),
         NEW n \in Nat, Cardinality(S) <= n
  PROVE  WithinRounding(Round(SumFunctionOnSet(f, S)), SumFunctionOnSet(g, S), n + 1)
<1> DEFINE sum == SumFunctionOnSet(f, S)
           shown == SumFunctionOnSet(g, S)
           c == Cardinality(S)
           cu == c * Unit
           nu == n * Unit
<1>1. Unit \in Nat /\ Unit \in Int
  BY ExposureAssumption
<1>2. \A x \in S : f[x] \in Int /\ g[x] \in Int /\ 2 * (g[x] - f[x]) \in -Unit .. Unit
  <2> TAKE x \in S
  <2> DEFINE a == f[x]
             b == g[x]
  <2>1. a \in Int /\ b = Round(a)
    OBVIOUS
  <2> HIDE DEF a, b
  <2>2. /\ b \in Int
        /\ a >= 0 => 2 * (b - a) <= Unit /\ 2 * (a - b) < Unit
        /\ a < 0 => 2 * (b - a) < Unit /\ 2 * (a - b) <= Unit
    BY <2>1, RoundBounds
  <2>3. b \in Int /\ 2 * (b - a) \in -Unit .. Unit
    BY ONLY <1>1, <2>1, <2>2
  <2> QED
    BY <2>1, <2>3 DEF a, b
<1>3. sum \in Int
  <2>1. \A x \in S : f[x] \in Int
    OBVIOUS
  <2> QED
    BY <2>1, SumTakeOut
<1>4. shown \in Int
  <2>1. \A x \in S : g[x] \in Int
    BY <1>2
  <2> QED
    BY <2>1, SumTakeOut
<1>5. 2 * (shown - sum) \in -cu .. cu
  <2>1. \A x \in S : g[x] \in Int /\ f[x] \in Int /\ 2 * (g[x] - f[x]) \in -Unit .. Unit
    BY <1>2
  <2> QED
    BY <1>1, <2>1, SumsDiffer
<1>6. c \in Nat /\ c <= n
  BY FS_CardinalityType
<1>7. cu \in Nat /\ cu <= nu /\ (n + 1) * Unit = nu + Unit
  <2> HIDE DEF c
  <2> QED
    BY <1>1, <1>6, ProductGrows
<1>8. /\ Round(sum) \in Int
      /\ sum >= 0 => 2 * (Round(sum) - sum) <= Unit /\ 2 * (sum - Round(sum)) < Unit
      /\ sum < 0 => 2 * (Round(sum) - sum) < Unit /\ 2 * (sum - Round(sum)) <= Unit
  <2> HIDE DEF sum
  <2> QED
    BY <1>3, RoundBounds
<1> DEFINE rounded == Round(sum)
<1>9. nu \in Int
  BY <1>1
<1> HIDE DEF sum, shown, c, cu, nu
<1>10. /\ rounded \in Int
       /\ 2 * (rounded - sum) <= Unit /\ 2 * (sum - rounded) <= Unit
  BY <1>1, <1>3, <1>8
<1> HIDE DEF rounded
<1>11. 2 * Abs(rounded - shown) <= nu + Unit
  BY ONLY <1>1, <1>3, <1>4, <1>5, <1>7, <1>9, <1>10 DEF Abs
<1> QED
  BY <1>7, <1>11 DEF WithinRounding, rounded, sum, shown

\* The order of the ranking changes no count and no sum.
LEMMA RankedSums ==
  ASSUME IInv, NEW order \in RankedOrders
  PROVE  LET flagged == {i \in 1 .. Len(items) : items[order[i]].highRisk}
         IN  /\ Cardinality(flagged) = Cardinality(Flagged)
             /\ SumFunctionOnSet([i \in flagged |-> items[order[i]].lossAvoided], flagged)
                  = SumFunctionOnSet([i \in Flagged |-> Round(Loss(items[i]))], Flagged)
             /\ SumFunctionOnSet([i \in 1 .. Len(items) |-> items[order[i]].shownExposure],
                                 1 .. Len(items))
                  = SumFunctionOnSet([i \in 1 .. Len(items) |-> Round(items[i].exposure)],
                                     1 .. Len(items))
<1> DEFINE n == Len(items)
           I == 1 .. n
           flagged == {i \in I : items[order[i]].highRisk}
           loss == [i \in flagged |-> items[order[i]].lossAvoided]
           lossOf == [i \in Flagged |-> Round(Loss(items[i]))]
           shown == [i \in I |-> items[order[i]].shownExposure]
           shownOf == [i \in I |-> Round(items[i].exposure)]
           part == [i \in flagged |-> order[i]]
<1>1. n \in Nat /\ \A i \in I : items[i] \in ItemRecord
  BY DEF IInv, Typed
<1>2. order \in Bijection(I, I)
  BY DEF RankedOrders
<1>3. /\ \A i \in I : order[i] \in I
      /\ \A i, j \in I : i # j => order[i] # order[j]
      /\ \A j \in I : \E i \in I : order[i] = j
  BY <1>2 DEF Bijection, Injection, Surjection, IsInjective
<1>4. /\ \A i \in I : items[i].shownExposure \in Int /\ items[i].lossAvoided \in Int
      /\ \A i \in I : items[i].shownExposure = Round(items[i].exposure)
      /\ \A i \in I : items[i].lossAvoided = Round(Loss(items[i]))
  <2>1. \A i \in I : Judged(items[i], transactions[i])
    BY DEF IInv, ItemsJudged
  <2> QED
    BY <1>1, <2>1 DEF Judged, ItemRecord, Loss
<1>5. IsFiniteSet(I)
  <2>1. n \in Int /\ 1 \in Int
    BY <1>1
  <2> HIDE DEF n
  <2> QED
    BY <2>1, FS_Interval
<1>6. Flagged = {i \in I : items[i].highRisk}
  BY DEF Flagged
<1>7. part \in Bijection(flagged, Flagged)
  <2> HIDE DEF I
  <2>1. part \in [flagged -> Flagged]
    BY <1>3, <1>6
  <2>2. \A i, j \in flagged : i # j => part[i] # part[j]
    BY <1>3
  <2>3. \A j \in Flagged : \E i \in flagged : part[i] = j
    BY <1>3, <1>6
  <2> HIDE DEF flagged, part
  <2> QED
    BY <2>1, <2>2, <2>3 DEF Bijection, Injection, Surjection, IsInjective
<1>8. IsFiniteSet(flagged)
  <2>1. flagged \subseteq I
    OBVIOUS
  <2> HIDE DEF I, flagged
  <2> QED
    BY <1>5, <2>1, FS_Subset
<1>9. Cardinality(flagged) = Cardinality(Flagged)
  <2>1. ExistsBijection(flagged, Flagged)
    BY <1>7 DEF ExistsBijection
  <2> HIDE DEF flagged
  <2> QED
    BY <1>8, <2>1, FS_Bijection
<1>10. SumFunctionOnSet(loss, flagged) = SumFunctionOnSet(lossOf, Flagged)
  <2>1. \A i \in flagged : loss[i] = lossOf[part[i]] /\ loss[i] \in Int
    <3> HIDE DEF I
    <3>1. \A i \in flagged : i \in I /\ order[i] \in I /\ order[i] \in Flagged
      BY <1>3, <1>6
    <3> QED
      BY <1>4, <3>1
  <2> HIDE DEF loss, lossOf, part, flagged
  <2> QED
    BY ONLY <1>7, <1>8, <2>1, SumOfRenamed
<1>11. SumFunctionOnSet(shown, I) = SumFunctionOnSet(shownOf, I)
  <2>1. \A i \in I : shown[i] = shownOf[order[i]] /\ shown[i] \in Int
    <3> HIDE DEF I
    <3> QED
      BY <1>3, <1>4
  <2> HIDE DEF shown, shownOf, I
  <2> QED
    BY ONLY <1>2, <1>5, <2>1, SumOfRenamed
<1> QED
  BY <1>9, <1>10, <1>11

\* The order of the insights changes no sum either: each is the insight of one pair.
LEMMA InsightSums ==
  ASSUME IInv, NEW f \in RankedInsights
  PROVE  /\ SumFunctionOnSet([i \in DOMAIN f |-> f[i].count], DOMAIN f) = SumOf(pairs, "count")
         /\ SumFunctionOnSet([i \in DOMAIN f |-> f[i].highRisk], DOMAIN f) = SumOf(pairs, "highRisk")
<1> DEFINE P == DOMAIN pairs
           I == 1 .. Cardinality(P)
           pairOf == [i \in I |-> f[i].pair]
           count == [i \in I |-> f[i].count]
           countOf == [p \in P |-> pairs[p]["count"]]
           risky == [i \in I |-> f[i].highRisk]
           riskyOf == [p \in P |-> pairs[p]["highRisk"]]
<1>1. /\ IsFiniteSet(P)
      /\ \A p \in P : pairs[p].count \in Int /\ pairs[p].highRisk \in Int
  BY DEF IInv, PairsTally
<1>2. \A p \in P : /\ Insight(p).pair = p
                   /\ Insight(p).count = pairs[p].count
                   /\ Insight(p).highRisk = pairs[p].highRisk
  <2> TAKE p \in P
  <2> DEFINE g == pairs[p]
             shown == Round(g.exposure)
             average == RoundRatio(g.percentSum, g.count)
             trend == IF g.highRisk > 0 \/ g.percentSum <= -threshold * Scale * g.count
                      THEN "dangerous" ELSE "stable_or_favorable"
  <2>1. Insight(p) = [pair |-> p, count |-> g.count, highRisk |-> g.highRisk,
                      exposure |-> shown, average |-> average, trend |-> trend]
    BY DEF Insight
  <2> HIDE DEF g, shown, average, trend
  <2>2. Insight(p).pair = p /\ Insight(p).count = g.count /\ Insight(p).highRisk = g.highRisk
    BY <2>1
  <2> QED
    BY <2>2 DEF g
<1>3. IsFiniteSet(I)
  <2>1. Cardinality(P) \in Int /\ 1 \in Int
    BY <1>1, FS_CardinalityType
  <2> QED
    BY <2>1, FS_Interval
<1> HIDE DEF I
<1>4. /\ DOMAIN f = I
      /\ \A i \in I : \E p \in P : f[i] = Insight(p)
      /\ \A i, j \in I : i # j => f[i] # f[j]
      /\ \A p \in P : \E i \in I : f[i] = Insight(p)
  BY DEF RankedInsights, Bijection, Injection, Surjection, IsInjective, I
<1>5. \A i \in I : /\ f[i].pair \in P /\ f[i] = Insight(f[i].pair)
                   /\ f[i].count = pairs[f[i].pair].count
                   /\ f[i].highRisk = pairs[f[i].pair].highRisk
  <2> TAKE i \in I
  <2>1. PICK p \in P : f[i] = Insight(p)
    BY <1>4
  <2>2. f[i].pair = p /\ f[i].count = pairs[p].count /\ f[i].highRisk = pairs[p].highRisk
    BY <1>2, <2>1
  <2> QED
    BY <2>1, <2>2
<1>6. pairOf \in Bijection(I, P)
  <2> HIDE DEF P
  <2>1. pairOf \in [I -> P]
    BY <1>5
  <2>2. \A i, j \in I : i # j => pairOf[i] # pairOf[j]
    BY <1>4, <1>5
  <2>3. \A p \in P : \E i \in I : pairOf[i] = p
    <3> TAKE p \in P
    <3>1. PICK i \in I : f[i] = Insight(p)
      BY <1>4
    <3>2. f[i].pair = p
      BY <1>2, <3>1
    <3> QED
      BY <3>2
  <2> HIDE DEF pairOf
  <2> QED
    BY <2>1, <2>2, <2>3 DEF Bijection, Injection, Surjection, IsInjective
<1>7. /\ \A i \in I : count[i] = countOf[pairOf[i]] /\ count[i] \in Int
      /\ \A i \in I : risky[i] = riskyOf[pairOf[i]] /\ risky[i] \in Int
  BY <1>1, <1>5
<1>8. /\ SumFunctionOnSet(count, I) = SumOf(pairs, "count")
      /\ SumFunctionOnSet(risky, I) = SumOf(pairs, "highRisk")
  <2>1. /\ SumOf(pairs, "count") = SumFunctionOnSet(countOf, P)
        /\ SumOf(pairs, "highRisk") = SumFunctionOnSet(riskyOf, P)
    BY DEF SumOf
  <2> HIDE DEF count, countOf, risky, riskyOf, pairOf, P
  <2>2. SumFunctionOnSet(count, I) = SumFunctionOnSet(countOf, P)
    <3>1. \A i \in I : count[i] = countOf[pairOf[i]] /\ count[i] \in Int
      BY <1>7
    <3> QED
      BY ONLY <1>3, <1>6, <3>1, SumOfRenamed
  <2>3. SumFunctionOnSet(risky, I) = SumFunctionOnSet(riskyOf, P)
    <3>1. \A i \in I : risky[i] = riskyOf[pairOf[i]] /\ risky[i] \in Int
      BY <1>7
    <3> QED
      BY ONLY <1>3, <1>6, <3>1, SumOfRenamed
  <2> QED
    BY <2>1, <2>2, <2>3
<1> QED
  BY <1>4, <1>8

\* Only the exposure of a group is rounded when it is reported.
Shown == [c \in DOMAIN breakdown |-> [breakdown[c] EXCEPT !.exposure = Round(@)]]

LEMMA ShownBreakdown ==
  ASSUME GroupsTally
  PROVE  /\ SumFunctionOnSet([c \in DOMAIN Shown |-> Shown[c].count], DOMAIN Shown) = Len(items)
         /\ SumFunctionOnSet([c \in DOMAIN Shown |-> Shown[c].gains], DOMAIN Shown) = totals.gains
         /\ SumFunctionOnSet([c \in DOMAIN Shown |-> Shown[c].losses], DOMAIN Shown) = totals.losses
         /\ WithinRounding(Round(totals.exposure),
                SumFunctionOnSet([c \in DOMAIN Shown |-> Shown[c].exposure], DOMAIN Shown),
                Cardinality(DOMAIN Shown) + 1)
<1> DEFINE C == DOMAIN breakdown
           exact == [c \in C |-> breakdown[c]["exposure"]]
           rounded == [c \in C |-> Shown[c]["exposure"]]
<1>1. IsFiniteSet(C) /\ \A c \in C : breakdown[c] \in CurrencyGroup
  BY DEF GroupsTally
<1>2. DOMAIN Shown = C
  BY DEF Shown
<1>3. \A c \in C : /\ Shown[c].count = breakdown[c].count
                   /\ Shown[c].gains = breakdown[c].gains
                   /\ Shown[c].losses = breakdown[c].losses
                   /\ Shown[c].exposure = Round(breakdown[c].exposure)
                   /\ breakdown[c].exposure \in Int
  <2> TAKE c \in C
  <2> DEFINE g == breakdown[c]
             value == Round(g.exposure)
  <2>1. g \in CurrencyGroup /\ Shown[c] = [g EXCEPT !.exposure = value]
    BY <1>1 DEF Shown
  <2> HIDE DEF g, value
  <2>2. /\ Shown[c].count = g.count /\ Shown[c].gains = g.gains /\ Shown[c].losses = g.losses
        /\ Shown[c].exposure = value /\ g.exposure \in Int
    BY <2>1 DEF CurrencyGroup
  <2> QED
    BY <2>2 DEF g, value
<1>4. /\ [c \in C |-> Shown[c].count] = [c \in C |-> breakdown[c]["count"]]
      /\ [c \in C |-> Shown[c].gains] = [c \in C |-> breakdown[c]["gains"]]
      /\ [c \in C |-> Shown[c].losses] = [c \in C |-> breakdown[c]["losses"]]
  BY <1>3
<1>5. /\ SumFunctionOnSet([c \in C |-> Shown[c].count], C) = Len(items)
      /\ SumFunctionOnSet([c \in C |-> Shown[c].gains], C) = totals.gains
      /\ SumFunctionOnSet([c \in C |-> Shown[c].losses], C) = totals.losses
  BY <1>4 DEF GroupsTally, SumOf
<1>6. totals.exposure = SumFunctionOnSet(exact, C)
  BY DEF GroupsTally, SumOf
<1>7. \A c \in C : exact[c] \in Int /\ rounded[c] = Round(exact[c])
  BY <1>3
<1>8. WithinRounding(Round(totals.exposure), SumFunctionOnSet(rounded, C), Cardinality(C) + 1)
  <2> DEFINE n == Cardinality(C)
  <2> HIDE DEF exact, rounded, C
  <2>1. n \in Nat /\ n <= n
    BY <1>1, FS_CardinalityType
  <2>2. IsFiniteSet(C)
    BY <1>1
  <2>3. WithinRounding(Round(SumFunctionOnSet(exact, C)), SumFunctionOnSet(rounded, C), n + 1)
    BY ONLY <1>7, <2>1, <2>2, RoundedSum
  <2> QED
    BY <1>6, <2>3
<1> QED
  BY <1>2, <1>5, <1>8

LEMMA ReportReconciles ==
  ASSUME IInv, TallyInv, Report
  PROVE  AggregatesReconcile'
<1> DEFINE n == Len(items)
           groups == DOMAIN report'.breakdown
           insights == DOMAIN report'.pairs
           flagged == {i \in 1 .. n : report'.ranking[i].highRisk}
<1>1. PICK order \in RankedOrders : report'.ranking = [i \in 1 .. n |-> items[order[i]]]
  BY ReportContents
<1>2. /\ report'.exposure = Round(totals.exposure)
      /\ report'.gains = totals.gains /\ report'.losses = totals.losses
      /\ report'.neutral = totals.neutral /\ report'.highRisk = totals.highRisk
      /\ report'.highRiskExposure = Round(totals.highRiskExposure)
      /\ report'.breakdown = [c \in DOMAIN breakdown |-> [breakdown[c] EXCEPT !.exposure = Round(@)]]
      /\ report'.pairs \in RankedInsights
  BY ReportContents
<1>3. n \in Nat /\ \A i \in 1 .. n : items[i] \in ItemRecord
  BY DEF IInv, Typed
<1>4. Len(report'.ranking) = n /\ \A i \in 1 .. n : report'.ranking[i] = items[order[i]]
  BY <1>1, <1>3
<1>5. report'.gains + report'.losses + report'.neutral = n
  BY <1>2 DEF TallyInv, TotalsTally
<1>6. /\ SumFunctionOnSet([c \in groups |-> report'.breakdown[c].count], groups) = n
      /\ SumFunctionOnSet([c \in groups |-> report'.breakdown[c].gains], groups) = report'.gains
      /\ SumFunctionOnSet([c \in groups |-> report'.breakdown[c].losses], groups) = report'.losses
      /\ WithinRounding(report'.exposure,
             SumFunctionOnSet([c \in groups |-> report'.breakdown[c].exposure], groups),
             Cardinality(groups) + 1)
  <2>1. GroupsTally /\ report'.breakdown = Shown
    BY <1>2 DEF TallyInv, Shown
  <2> QED
    BY <1>2, <2>1, ShownBreakdown
<1>7. /\ SumFunctionOnSet([i \in insights |-> report'.pairs[i].count], insights) = n
      /\ SumFunctionOnSet([i \in insights |-> report'.pairs[i].highRisk], insights)
           = report'.highRisk
  <2> DEFINE f == report'.pairs
  <2>1. f \in RankedInsights
    BY <1>2
  <2> HIDE DEF f
  <2>2. /\ SumFunctionOnSet([i \in DOMAIN f |-> f[i].count], DOMAIN f) = SumOf(pairs, "count")
        /\ SumFunctionOnSet([i \in DOMAIN f |-> f[i].highRisk], DOMAIN f) = SumOf(pairs, "highRisk")
    BY <2>1, InsightSums
  <2>3. SumOf(pairs, "count") = n /\ SumOf(pairs, "highRisk") = report'.highRisk
    BY <1>2 DEF TallyInv, GroupsTally
  <2> QED
    BY <2>2, <2>3 DEF f
<1>8. flagged = {i \in 1 .. n : items[order[i]].highRisk}
  BY <1>4
<1> DEFINE loss == [i \in flagged |-> report'.ranking[i].lossAvoided]
           lossOf == [i \in Flagged |-> Round(Loss(items[i]))]
           shown == [i \in 1 .. n |-> report'.ranking[i].shownExposure]
           shownOf == [i \in 1 .. n |-> Round(items[i].exposure)]
<1>9. /\ loss = [i \in flagged |-> items[order[i]].lossAvoided]
      /\ shown = [i \in 1 .. n |-> items[order[i]].shownExposure]
  BY <1>4
<1>10. /\ Cardinality(flagged) = Cardinality(Flagged)
       /\ SumFunctionOnSet(loss, flagged) = SumFunctionOnSet(lossOf, Flagged)
       /\ SumFunctionOnSet(shown, 1 .. n) = SumFunctionOnSet(shownOf, 1 .. n)
  <2> DEFINE risky == {i \in 1 .. Len(items) : items[order[i]].highRisk}
             lossRanked == [i \in risky |-> items[order[i]].lossAvoided]
             shownRanked == [i \in 1 .. Len(items) |-> items[order[i]].shownExposure]
             all == 1 .. Len(items)
  <2>1. flagged = risky /\ loss = lossRanked /\ shown = shownRanked /\ 1 .. n = all
    BY ONLY <1>8, <1>9
  <2>2. /\ Cardinality(risky) = Cardinality(Flagged)
        /\ SumFunctionOnSet(lossRanked, risky) = SumFunctionOnSet(lossOf, Flagged)
        /\ SumFunctionOnSet(shownRanked, all) = SumFunctionOnSet(shownOf, all)
    BY RankedSums
  <2> HIDE DEF flagged, risky, loss, lossRanked, shown, shownRanked, lossOf, shownOf, n, all
  <2> QED
    BY ONLY <2>1, <2>2
<1>11. report'.highRisk = Cardinality(flagged)
  BY <1>2, <1>10 DEF TallyInv, TotalsTally
<1>12. IsFiniteSet(1 .. n) /\ Cardinality(1 .. n) <= n
  <2>1. n \in Int /\ 1 \in Int
    BY <1>3
  <2> HIDE DEF n
  <2>2. IsFiniteSet(1 .. n) /\ Cardinality(1 .. n) = IF 1 > n THEN 0 ELSE n - 1 + 1
    BY <2>1, FS_Interval
  <2> QED
    BY <1>3, <2>2
<1>13. IsFiniteSet(Flagged) /\ Cardinality(Flagged) <= n
  <2>1. Flagged \subseteq 1 .. n
    BY DEF Flagged
  <2> HIDE DEF n
  <2>2. /\ IsFiniteSet(Flagged) /\ Cardinality(Flagged) <= Cardinality(1 .. n)
        /\ Cardinality(Flagged) \in Nat /\ Cardinality(1 .. n) \in Nat
    BY <1>12, <2>1, FS_Subset, FS_CardinalityType
  <2> QED
    BY <1>3, <1>12, <2>2
<1>14. WithinRounding(report'.exposure, SumFunctionOnSet(shown, 1 .. n), n + 1)
  <2> DEFINE exact == [i \in 1 .. n |-> items[i].exposure]
             I == 1 .. n
  <2>1. totals.exposure = SumFunctionOnSet(exact, I)
    BY DEF TallyInv, TotalsTally
  <2>2. \A i \in I : exact[i] \in Int /\ shownOf[i] = Round(exact[i])
    BY <1>3 DEF ItemRecord
  <2>3. IsFiniteSet(I) /\ Cardinality(I) <= n /\ n \in Nat
    BY <1>3, <1>12
  <2> HIDE DEF exact, shownOf, I, n
  <2>4. WithinRounding(Round(SumFunctionOnSet(exact, I)), SumFunctionOnSet(shownOf, I), n + 1)
    BY ONLY <2>2, <2>3, RoundedSum
  <2> QED
    BY <1>2, <1>10, <2>1, <2>4 DEF I
<1>15. WithinRounding(report'.highRiskExposure, SumFunctionOnSet(loss, flagged), n + 1)
  <2> DEFINE exact == [i \in Flagged |-> Loss(items[i])]
  <2>1. totals.highRiskExposure = SumFunctionOnSet(exact, Flagged)
    BY DEF TallyInv, TotalsTally
  <2>2. \A i \in Flagged : exact[i] \in Int /\ lossOf[i] = Round(exact[i])
    BY <1>3, LossIsInt DEF Flagged
  <2>3. IsFiniteSet(Flagged) /\ Cardinality(Flagged) <= n /\ n \in Nat
    BY <1>3, <1>13
  <2> HIDE DEF exact, lossOf, n
  <2>4. WithinRounding(Round(SumFunctionOnSet(exact, Flagged)),
                       SumFunctionOnSet(lossOf, Flagged), n + 1)
    BY ONLY <2>2, <2>3, RoundedSum
  <2> QED
    BY <1>2, <1>10, <2>1, <2>4
<1> HIDE DEF n, groups, insights, flagged, loss, shown
<1>16. /\ SumFunction([i \in flagged |-> report'.ranking[i].lossAvoided])
            = SumFunctionOnSet(loss, flagged)
       /\ SumFunction([i \in 1 .. n |-> report'.ranking[i].shownExposure])
            = SumFunctionOnSet(shown, 1 .. n)
  BY DEF SumFunction, loss, shown
<1>17. /\ SumFunction([c \in groups |-> report'.breakdown[c].count]) = n
       /\ SumFunction([c \in groups |-> report'.breakdown[c].gains]) = report'.gains
       /\ SumFunction([c \in groups |-> report'.breakdown[c].losses]) = report'.losses
       /\ WithinRounding(report'.exposure,
              SumFunction([c \in groups |-> report'.breakdown[c].exposure]),
              Cardinality(groups) + 1)
       /\ SumFunction([i \in insights |-> report'.pairs[i].count]) = n
       /\ SumFunction([i \in insights |-> report'.pairs[i].highRisk]) = report'.highRisk
  BY <1>6, <1>7 DEF SumFunction
<1> QED
  BY <1>4, <1>5, <1>11, <1>14, <1>15, <1>16, <1>17
     DEF AggregatesReconcile, n, groups, insights, flagged

\* The totals, the breakdowns and the transactions of a report agree, whatever the rates, the
\* number of transactions, their order and the unit of rounding.
THEOREM AggregatesReconcileCorrect == Spec => []AggregatesReconcile
<1>1. Init => AggregatesReconcile
  BY DEF Init, AggregatesReconcile, Reported
<1>2. IInv /\ TallyInv /\ AggregatesReconcile /\ [Next]_vars => AggregatesReconcile'
  <2> SUFFICES ASSUME IInv, TallyInv, AggregatesReconcile, [Next]_vars
               PROVE  AggregatesReconcile'
    OBVIOUS
  <2>1. CASE Report
    BY <2>1, ReportReconciles
  <2>2. CASE report' = None
    BY <2>2 DEF AggregatesReconcile, Reported
  <2>3. CASE UNCHANGED vars
    <3>1. report' = report
      BY <2>3 DEF vars
    <3> QED
      BY <3>1 DEF AggregatesReconcile, Reported
  <2> QED
    BY <2>1, <2>2, <2>3, ReportedOnce
<1> QED
  BY <1>1, <1>2, InvariantHolds, TalliesHold, PTL DEF Spec
=============================================================================
