------------------------- MODULE RequestBudgetProofs -------------------------
(***************************************************************************)
(* Proofs about RequestBudget and Backoff, for all settings, every number  *)
(* of attempts and of transactions, and every width of the integers.       *)
(*                                                                         *)
(* The delay of the retry loop is the documented one (DurationCorrect, by  *)
(* induction over the iterations), so no longer than the maximum, and the  *)
(* time that a request has taken is bounded by where its retry loops are   *)
(* (InTime).  A request fails only for want of a rate (ErrorHasCause).     *)
(***************************************************************************)
EXTENDS RequestBudget, SumTheorems

-----------------------------------------------------------------------------
(* The delay *)

\* A strategy whose doubled maximum can be represented.
Strategy == {b \in [initial : Nat \ {0}, max : Nat \ {0}] : b.initial <= b.max /\ 2 * b.max < Limit}

\* The equation that defines Doubled(b, n).
IsDoubled(b, n, d) == d = [i \in 1..n |-> IF i = 1 THEN b.initial ELSE Wrap(2 * d[i - 1])]

LEMMA DoubledExists ==
  ASSUME NEW b, NEW n \in Nat
  PROVE  \E d : IsDoubled(b, n, d)
<1> DEFINE Good(k) == \E d : IsDoubled(b, k, d)
           P == {k \in Nat : Good(k)}
<1>1. 0 \in P
  <2> DEFINE d == [i \in 1..0 |-> b.initial]
  <2>1. d = [i \in 1..0 |-> IF i = 1 THEN b.initial ELSE Wrap(2 * d[i - 1])]
    OBVIOUS
  <2> QED
    BY <2>1 DEF IsDoubled
<1>2. ASSUME NEW k \in Nat, k \in P
      PROVE  k + 1 \in P
  <2>1. PICK d : IsDoubled(b, k, d)
    BY <1>2
  <2> DEFINE e == [i \in 1..k + 1 |-> IF i = 1 THEN b.initial ELSE Wrap(2 * d[i - 1])]
  <2>2. \A i \in 1..k : e[i] = d[i]
    BY <2>1 DEF IsDoubled
  <2>3. \A i \in 1..k + 1 : i # 1 => e[i - 1] = d[i - 1]
    <3> HIDE DEF e
    <3>1. \A i \in 1..k + 1 : i # 1 => i - 1 \in 1..k
      OBVIOUS
    <3> QED
      BY <2>2, <3>1
  <2>4. IsDoubled(b, k + 1, e)
    BY <2>3 DEF IsDoubled
  <2> HIDE DEF e
  <2>5. Good(k + 1)
    BY <2>4
  <2> HIDE DEF Good
  <2> QED
    BY <2>5
<1>3. \A k \in Nat : k \in P => k + 1 \in P
  BY <1>2
<1> HIDE DEF P
<1>4. Nat \subseteq P
  BY <1>1, <1>3, NumbersByInduction
<1> QED
  BY <1>4 DEF P

LEMMA DoubledIsRecursive ==
  ASSUME NEW b, NEW n \in Nat \ {0}
  PROVE  /\ Doubled(b, n)[1] = b.initial
         /\ \A i \in 2..n : Doubled(b, n)[i] = Wrap(2 * Doubled(b, n)[i - 1])
<1> DEFINE d == Doubled(b, n)
<1>1. d = CHOOSE e : IsDoubled(b, n, e)
  BY DEF Doubled, IsDoubled
<1>2. \E e : IsDoubled(b, n, e)
  BY DoubledExists
<1>3. IsDoubled(b, n, d)
  BY <1>1, <1>2
<1> HIDE DEF d
<1>4. /\ d[1] = b.initial
      /\ \A i \in 2..n : d[i] = Wrap(2 * d[i - 1])
  BY <1>3 DEF IsDoubled
<1> QED
  BY <1>4 DEF d

LEMMA PowersExist ==
  ASSUME NEW n \in Nat
  PROVE  \E p : p = [i \in 0..n |-> IF i = 0 THEN 1 ELSE 2 * p[i - 1]]
<1> DEFINE Good(k) == \E p : p = [i \in 0..k |-> IF i = 0 THEN 1 ELSE 2 * p[i - 1]]
           P == {k \in Nat : Good(k)}
<1>1. 0 \in P
  <2> DEFINE p == [i \in 0..0 |-> 1]
  <2>1. p = [i \in 0..0 |-> IF i = 0 THEN 1 ELSE 2 * p[i - 1]]
    OBVIOUS
  <2> QED
    BY <2>1
<1>2. ASSUME NEW k \in Nat, k \in P
      PROVE  k + 1 \in P
  <2>1. PICK p : p = [i \in 0..k |-> IF i = 0 THEN 1 ELSE 2 * p[i - 1]]
    BY <1>2
  <2> DEFINE q == [i \in 0..k + 1 |-> IF i = 0 THEN 1 ELSE 2 * p[i - 1]]
  <2>2. \A i \in 0..k : q[i] = p[i]
    BY <2>1
  <2>3. \A i \in 0..k + 1 : i # 0 => q[i - 1] = p[i - 1]
    BY <2>2
  <2>4. q = [i \in 0..k + 1 |-> IF i = 0 THEN 1 ELSE 2 * q[i - 1]]
    BY <2>3
  <2> HIDE DEF q
  <2>5. Good(k + 1)
    BY <2>4
  <2> HIDE DEF Good
  <2> QED
    BY <2>5
<1>3. \A k \in Nat : k \in P => k + 1 \in P
  BY <1>2
<1> HIDE DEF P
<1>4. Nat \subseteq P
  BY <1>1, <1>3, NumbersByInduction
<1> QED
  BY <1>4 DEF P

LEMMA PowerIsRecursive ==
  ASSUME NEW n \in Nat
  PROVE  \E p : /\ p[0] = 1
                /\ \A i \in 1..n : p[i] = 2 * p[i - 1]
                /\ Power(n) = p[n]
<1> DEFINE p == CHOOSE q : q = [i \in 0..n |-> IF i = 0 THEN 1 ELSE 2 * q[i - 1]]
<1>1. p = [i \in 0..n |-> IF i = 0 THEN 1 ELSE 2 * p[i - 1]]
  BY PowersExist
<1>2. Power(n) = p[n]
  BY DEF Power
<1> HIDE DEF p
<1>3. p[0] = 1 /\ \A i \in 1..n : p[i] = 2 * p[i - 1]
  BY <1>1
<1> QED
  BY <1>2, <1>3

LEMMA WrapInRange ==
  ASSUME NEW x \in Nat, x < Limit
  PROVE  Wrap(x) = x
<1>1. Limit \in Nat \ {0} /\ x + Limit \in Nat /\ x + Limit < 2 * Limit
  BY WidthAssumption
<1>2. (x + Limit) % (2 * Limit) = x + Limit
  BY <1>1
<1> QED
  BY <1>1, <1>2 DEF Wrap

\* Doubling in integers of a fixed width gives the power, until it reaches the maximum; the
\* power is above the maximum from there on.
LEMMA DoubledIsPower ==
  ASSUME NEW b \in Strategy, NEW n \in Nat \ {0}
  PROVE  LET d == Doubled(b, n)
             e == b.initial * Power(n - 1)
         IN  /\ e \in Nat \ {0}
             /\ \/ d[n] = e /\ (n > 1 => e < b.max) /\ \A j \in 2..n : ~(d[j] >= b.max)
                \/ e >= b.max /\ \E j \in 2..n : d[j] >= b.max
<1> DEFINE d == Doubled(b, n)
           x == b.initial
           m == b.max
<1>1. /\ x \in Nat \ {0} /\ m \in Nat \ {0} /\ x <= m /\ 2 * m < Limit /\ Limit \in Nat
      /\ n - 1 \in Nat
  BY WidthAssumption DEF Strategy
<1>2. d[1] = x /\ \A i \in 2..n : d[i] = Wrap(2 * d[i - 1])
  BY DoubledIsRecursive
<1>3. PICK p : /\ p[0] = 1
               /\ \A i \in 1..n - 1 : p[i] = 2 * p[i - 1]
               /\ Power(n - 1) = p[n - 1]
  BY <1>1, PowerIsRecursive
<1> HIDE DEF d, x, m
<1> DEFINE e(k) == x * p[k - 1]
           Good(k) == /\ p[k - 1] \in Nat \ {0}
                      /\ e(k) \in Nat \ {0}
                      /\ \/ /\ d[k] = e(k)
                            /\ k > 1 => e(k) < m
                            /\ \A j \in 2..k : ~(d[j] >= m)
                         \/ e(k) >= m /\ \E j \in 2..k : d[j] >= m
           P == {k \in Nat : k + 1 <= n => Good(k + 1)}
<1>4. 0 \in P
  <2>1. p[1 - 1] = 1 /\ e(1) = x
    BY <1>1, <1>3
  <2>2. Good(1)
    BY <1>1, <1>2, <2>1
  <2> QED
    BY <2>2
<1>5. ASSUME NEW k \in Nat, k \in P
      PROVE  k + 1 \in P
  <2> SUFFICES ASSUME k + 2 <= n PROVE Good(k + 2)
    BY k + 1 + 1 = k + 2
  <2> DEFINE a == x * p[k]
             c == x * p[k + 1]
  <2>1. /\ p[k] \in Nat \ {0} /\ a \in Nat \ {0}
        /\ \/ d[k + 1] = a /\ (k + 1 > 1 => a < m) /\ \A j \in 2..k + 1 : ~(d[j] >= m)
           \/ a >= m /\ \E j \in 2..k + 1 : d[j] >= m
    <3>1. Good(k + 1) /\ k + 1 - 1 = k
      BY <1>5
    <3> QED
      BY <3>1
  <2>2. p[k + 1] = 2 * p[k] /\ d[k + 2] = Wrap(2 * d[k + 1])
    <3>1. k + 1 \in 1..n - 1 /\ k + 2 \in 2..n /\ k + 1 - 1 = k /\ k + 2 - 1 = k + 1
      BY <1>1
    <3> QED
      BY <1>2, <1>3, <3>1
  <2>3. p[k + 1] \in Nat \ {0} /\ c = 2 * a /\ c \in Nat \ {0}
    BY <1>1, <2>1, <2>2
  <2> HIDE DEF a, c
  <2>4. CASE d[k + 1] = a /\ (k + 1 > 1 => a < m) /\ \A j \in 2..k + 1 : ~(d[j] >= m)
    <3>1. a <= m
      BY <1>1, <1>2, <2>1, <2>4
    <3>2. d[k + 2] = c
      <4>1. 2 * a \in Nat /\ 2 * a < Limit
        BY <1>1, <2>1, <3>1
      <4> QED
        BY <2>2, <2>3, <2>4, <4>1, WrapInRange
    <3>3. CASE c >= m
      <4>1. k + 2 \in 2..k + 2 /\ d[k + 2] >= m
        BY <3>2, <3>3
      <4> QED
        BY <2>3, <3>3, <4>1 DEF c
    <3>4. CASE c < m
      <4>1. \A j \in 2..k + 2 : j \in 2..k + 1 \/ j = k + 2
        OBVIOUS
      <4>2. \A j \in 2..k + 2 : ~(d[j] >= m)
        BY <1>1, <2>3, <2>4, <3>2, <3>4, <4>1
      <4> QED
        BY <2>3, <3>2, <3>4, <4>2 DEF c
    <3> QED
      BY <1>1, <2>3, <3>3, <3>4
  <2>5. CASE a >= m /\ \E j \in 2..k + 1 : d[j] >= m
    <3>1. c >= m
      BY <1>1, <2>1, <2>3, <2>5
    <3>2. \E j \in 2..k + 2 : d[j] >= m
      BY <2>5
    <3> QED
      BY <2>3, <3>1, <3>2 DEF c
  <2> QED
    BY <2>1, <2>4, <2>5
<1>6. \A k \in Nat : k \in P => k + 1 \in P
  BY <1>5
<1> HIDE DEF P
<1>7. Nat \subseteq P
  BY <1>4, <1>6, NumbersByInduction
<1>8. Good(n)
  <2>1. n - 1 \in P /\ n - 1 + 1 = n
    BY <1>1, <1>7
  <2> HIDE DEF Good
  <2> QED
    BY <2>1 DEF P
<1> QED
  BY <1>3, <1>8 DEF d, x, m

\* The loop of Duration returns the documented delay, in integers of any width that hold
\* the double of the maximum.
THEOREM DurationCorrect ==
  ASSUME NEW b \in Strategy, NEW n \in Nat \ {0}
  PROVE  /\ Duration(b, n) = Exponential(b, n)
         /\ Duration(b, n) \in 1..b.max
<1> DEFINE d == Doubled(b, n)
           e == b.initial * Power(n - 1)
<1>1. b.initial \in Nat \ {0} /\ b.max \in Nat \ {0} /\ b.initial <= b.max
  BY DEF Strategy
<1>2. /\ e \in Nat \ {0}
      /\ \/ d[n] = e /\ (n > 1 => e < b.max) /\ \A j \in 2..n : ~(d[j] >= b.max)
         \/ e >= b.max /\ \E j \in 2..n : d[j] >= b.max
  BY DoubledIsPower
<1>3. d[1] = b.initial
  BY DoubledIsRecursive
<1>4. Exponential(b, n) = IF e < b.max THEN e ELSE b.max
  BY DEF Exponential
<1>5. Duration(b, n) = IF n <= 1 THEN Clamp(b, b.initial)
                             ELSE IF \E i \in 2..n : d[i] >= b.max THEN Clamp(b, b.max)
                                  ELSE Clamp(b, d[n])
  BY DEF Duration
<1> HIDE DEF d, e
<1>6. /\ Clamp(b, b.initial) = b.initial /\ Clamp(b, b.max) = b.max
      /\ e < b.max => Clamp(b, e) = e
  BY <1>1, <1>2 DEF Clamp
<1>7. CASE n = 1
  <2>1. \A j \in 2..n : FALSE
    BY <1>7
  <2>2. e = b.initial
    BY <1>2, <1>3, <1>7, <2>1
  <2> QED
    BY <1>1, <1>4, <1>5, <1>6, <1>7, <2>2
<1>8. CASE n > 1
  BY <1>1, <1>2, <1>4, <1>5, <1>6, <1>8
<1> QED
  BY <1>7, <1>8

-----------------------------------------------------------------------------
(* Types *)

TypeInv ==
  /\ setting \in Settings
  /\ elapsed \in Nat
  /\ transaction \in 1..Len(setting.pairs)
  /\ loop \in {"historical", "primary"}
  /\ step \in {"lookup", "call", "wait", "fallback", "cache", "done"}
  /\ loop = "historical" => Unrated(transaction) /\ step \in {"call", "wait", "done"}
  /\ attempt \in 1..setting.maxAttempts
  /\ step = "lookup" => attempt = 1
  /\ step = "wait" => attempt < setting.maxAttempts
  /\ answer \in {"none", "report", "error", "timeout"}

LEMMA SettingTyped ==
  ASSUME NEW s \in Settings
  PROVE  /\ s.requestTimeout \in Nat \ {0} /\ s.clientTimeout \in Nat \ {0}
         /\ s.maxAttempts \in Nat \ {0} /\ s.max \in Nat \ {0}
         /\ [initial |-> s.initial, max |-> s.max] \in Strategy
         /\ Len(s.pairs) \in Nat \ {0} /\ DOMAIN s.pairs = 1..Len(s.pairs)
         /\ s.unrated \subseteq 1..Len(s.pairs)
<1>1. /\ s["requestTimeout"] \in Nat \ {0} /\ s["clientTimeout"] \in Nat \ {0}
      /\ s["maxAttempts"] \in Nat \ {0} /\ s["max"] \in Nat \ {0}
      /\ s["initial"] \in Nat \ {0}
      /\ s.initial <= s.max /\ 2 * s.max < Limit
  BY SettingsAssumption
<1>2. s.pairs \in Seq(Pairs) /\ s.pairs # <<>> /\ s.unrated \subseteq DOMAIN s.pairs
  BY SettingsAssumption
<1>3. Len(s.pairs) \in Nat \ {0} /\ DOMAIN s.pairs = 1..Len(s.pairs)
  BY <1>2
<1> QED
  BY <1>1, <1>2, <1>3 DEF Strategy

LEMMA DelayBounds ==
  ASSUME TypeInv
  PROVE  /\ Delay = Exponential([initial |-> setting.initial, max |-> setting.max], attempt)
         /\ Delay \in 1..setting.max
<1> DEFINE b == [initial |-> setting.initial, max |-> setting.max]
<1>1. b \in Strategy /\ b.max = setting.max /\ setting.maxAttempts \in Nat
  BY SettingTyped DEF TypeInv
<1>2. attempt \in Nat \ {0}
  BY <1>1 DEF TypeInv
<1>3. Delay = Duration(b, attempt)
  BY DEF Delay
<1> HIDE DEF b
<1>4. Duration(b, attempt) = Exponential(b, attempt) /\ Duration(b, attempt) \in 1..b.max
  BY <1>1, <1>2, DurationCorrect
<1> QED
  BY <1>1, <1>3, <1>4 DEF b

LEMMA SpentTime ==
  ASSUME TypeInv, NEW time \in Nat, Spend(time)
  PROVE  elapsed' \in Nat /\ elapsed' <= elapsed + time
<1>1. setting.requestTimeout \in Nat /\ elapsed \in Nat
  BY SettingTyped DEF TypeInv
<1> QED
  BY <1>1 DEF Spend

\* The time of a step of the loops.
LEMMA StepSpends ==
  ASSUME TypeInv, Answered \/ CallFails \/ FallbackFails
  PROVE  elapsed' \in Nat /\ elapsed' <= elapsed + setting.clientTimeout
<1> DEFINE c == setting.clientTimeout
<1>1. c \in Nat \ {0} /\ elapsed \in Nat
  BY SettingTyped DEF TypeInv
<1>2. \E time \in 0..c : Spend(time)
  <2>1. \A time \in 0..(c - 1) : time \in 0..c
    BY <1>1
  <2> QED
    BY <2>1 DEF Answered, CallFails, FallbackFails
<1>3. PICK time \in 0..c : Spend(time)
  BY <1>2
<1>4. time \in Nat /\ time <= c
  BY <1>1
<1>5. elapsed' \in Nat /\ elapsed' <= elapsed + time
  BY <1>3, <1>4, SpentTime
<1> QED
  BY <1>1, <1>4, <1>5 DEF c

LEMMA WaitSpends ==
  ASSUME TypeInv, Wait
  PROVE  elapsed' \in Nat /\ elapsed' <= elapsed + setting.max
<1> DEFINE x == setting.max
<1>1. Delay \in 1..x /\ x \in Nat /\ elapsed \in Nat
  BY DelayBounds, SettingTyped DEF TypeInv
<1>2. Delay \in Nat /\ Delay <= x /\ Spend(Delay)
  BY <1>1 DEF Wait
<1>3. elapsed' \in Nat /\ elapsed' <= elapsed + Delay
  BY <1>2, SpentTime
<1> QED
  BY <1>1, <1>2, <1>3 DEF x

\* Where the work on a transaction goes on, and how it ends.
LEMMA PricedMoves ==
  ASSUME TypeInv, Priced
  PROVE  \/ /\ transaction + 1 \in 1..Len(setting.pairs) /\ transaction' = transaction + 1
            /\ loop' = LoopOf(transaction + 1) /\ step' = StepOf(transaction + 1)
            /\ attempt' = 1 /\ answer' = answer
         \/ Deliver("report")
<1>1. Len(setting.pairs) \in Nat
  BY SettingTyped DEF TypeInv
<1> QED
  BY <1>1 DEF Priced, TypeInv

LEMMA PricedTyped ==
  ASSUME TypeInv, Priced, setting' = setting, elapsed' \in Nat
  PROVE  TypeInv'
<1>1. setting.maxAttempts \in Nat \ {0}
  BY SettingTyped DEF TypeInv
<1>2. CASE Deliver("report")
  BY <1>2 DEF TypeInv, Deliver, Unrated
<1>3. CASE ~Deliver("report")
  <2>1. /\ transaction + 1 \in 1..Len(setting.pairs) /\ transaction' = transaction + 1
        /\ loop' = LoopOf(transaction + 1) /\ step' = StepOf(transaction + 1)
        /\ attempt' = 1 /\ answer' = answer
    BY <1>3, PricedMoves
  <2> QED
    BY <1>1, <2>1 DEF TypeInv, LoopOf, StepOf, Unrated
<1> QED
  BY <1>2, <1>3

LEMMA GiveUpTyped ==
  ASSUME TypeInv, GiveUp, setting' = setting, elapsed' \in Nat
  PROVE  TypeInv'
BY DEF TypeInv, GiveUp, Deliver, Unrated

LEMMA StepTyped == TypeInv /\ [Next]_vars => TypeInv'
<1> SUFFICES ASSUME TypeInv, [Next]_vars PROVE TypeInv'
  OBVIOUS
<1>1. setting.maxAttempts \in Nat \ {0} /\ elapsed \in Nat
  BY SettingTyped DEF TypeInv
<1>2. CASE Lookup
  <2>1. setting' = setting /\ elapsed' = elapsed
    BY <1>2 DEF Lookup
  <2>2. CASE Priced
    BY <1>1, <2>1, <2>2, PricedTyped
  <2>3. CASE ~Priced
    BY <1>2, <2>1, <2>3 DEF Lookup, TypeInv, Unrated
  <2> QED
    BY <2>2, <2>3
<1>3. CASE Answered
  <2>1. elapsed' \in Nat /\ setting' = setting
    BY <1>3, StepSpends DEF Answered
  <2>2. CASE loop = "historical"
    BY <1>1, <1>3, <2>1, <2>2 DEF Answered, TypeInv, Unrated
  <2>3. CASE loop # "historical"
    BY <1>3, <2>1, <2>3, PricedTyped DEF Answered
  <2> QED
    BY <2>2, <2>3
<1>4. CASE CallFails
  <2>1. elapsed' \in Nat /\ setting' = setting
    BY <1>4, StepSpends DEF CallFails
  <2>2. CASE GiveUp
    BY <2>1, <2>2, GiveUpTyped
  <2>3. CASE ~GiveUp
    BY <1>4, <2>1, <2>3 DEF CallFails, TypeInv, Unrated
  <2> QED
    BY <2>2, <2>3
<1>5. CASE Wait
  <2>1. elapsed' \in Nat /\ setting' = setting
    BY <1>5, WaitSpends DEF Wait
  <2>2. CASE GiveUp
    BY <2>1, <2>2, GiveUpTyped
  <2>3. CASE ~GiveUp
    <3>1. /\ step = "wait" /\ step' = "call" /\ attempt' = attempt + 1
          /\ UNCHANGED <<transaction, loop, answer>>
      BY <1>5, <2>3 DEF Wait
    <3>2. attempt' \in 1..setting.maxAttempts
      BY <1>1, <3>1 DEF TypeInv
    <3> QED
      BY <2>1, <3>1, <3>2 DEF TypeInv, Unrated
  <2> QED
    BY <2>2, <2>3
<1>6. CASE FallbackFails
  <2>1. elapsed' \in Nat
    BY <1>6, StepSpends
  <2> QED
    BY <1>6, <2>1 DEF FallbackFails, TypeInv, Unrated
<1>7. CASE StaleLookup
  <2>1. setting' = setting /\ elapsed' = elapsed
    BY <1>7 DEF StaleLookup
  <2>2. CASE Priced
    BY <1>1, <2>1, <2>2, PricedTyped
  <2>3. CASE ~Priced
    BY <1>7, <2>1, <2>3 DEF StaleLookup, Deliver, TypeInv, Unrated
  <2> QED
    BY <2>2, <2>3
<1>8. CASE Expire
  BY <1>8 DEF Expire, TypeInv, Unrated
<1>9. CASE Done \/ UNCHANGED vars
  BY <1>9 DEF Done, vars, TypeInv, Unrated
<1> QED
  BY <1>2, <1>3, <1>4, <1>5, <1>6, <1>7, <1>8, <1>9 DEF Next

LEMMA InitTyped == Init => TypeInv
<1> SUFFICES ASSUME Init PROVE TypeInv
  OBVIOUS
<1>1. setting.maxAttempts \in Nat \ {0} /\ Len(setting.pairs) \in Nat \ {0}
  BY SettingTyped DEF Init
<1> QED
  BY <1>1 DEF Init, TypeInv, LoopOf, StepOf, Unrated

THEOREM TypesHold == Spec => []TypeInv
BY InitTyped, StepTyped, PTL DEF Spec

\* The retry loop waits as documented: the attempts are numbers of the loop.
THEOREM DelayIsExponentialCorrect == Spec => []DelayIsExponential
<1>1. TypeInv => DelayIsExponential
  BY DelayBounds DEF DelayIsExponential
<1> QED
  BY <1>1, TypesHold, PTL

-----------------------------------------------------------------------------
(* The cause of a failure *)

\* A request fails for want of a historical rate, or of any quote of a pair.
ErrorHasCause ==
  answer = "error" => step = "done" /\ (loop = "historical" \/ Pair \notin cached)

LEMMA StepErrs ==
  ASSUME TypeInv, ErrorHasCause, [Next]_vars
  PROVE  ErrorHasCause'
<1>1. CASE step = "done"
  <2>1. Expire \/ UNCHANGED vars
    <3>1. ~Lookup /\ ~Answered /\ ~CallFails /\ ~Wait /\ ~FallbackFails /\ ~StaleLookup
      BY <1>1 DEF Lookup, Answered, CallFails, Wait, FallbackFails, StaleLookup
    <3> QED
      BY <3>1 DEF Next, Done
  <2> QED
    BY <2>1 DEF Expire, vars, ErrorHasCause, Pair
<1>2. CASE step # "done"
  <2>1. answer # "error"
    BY <1>2 DEF ErrorHasCause
  <2>2. CASE answer' # "error"
    BY <2>2 DEF ErrorHasCause
  <2>3. CASE answer' = "error"
    <3>1. Deliver("error") /\ (loop = "historical" \/ Pair \notin cached) /\ setting' = setting
          /\ cached' = cached
      BY <2>1, <2>3 DEF Next, vars, Lookup, Answered, CallFails, Wait, FallbackFails, StaleLookup,
                        Expire, Done, Priced, GiveUp, Deliver
    <3> QED
      BY <3>1 DEF Deliver, ErrorHasCause, Pair
  <2> QED
    BY <2>2, <2>3
<1> QED
  BY <1>1, <1>2

LEMMA CauseMissing ==
  ASSUME TypeInv, ErrorHasCause, setting.unrated = {},
         \A t \in DOMAIN setting.pairs : setting.pairs[t] \in cached
  PROVE  answer # "error"
<1>1. transaction \in DOMAIN setting.pairs
  BY SettingTyped DEF TypeInv
<1> QED
  BY <1>1 DEF TypeInv, ErrorHasCause, Pair, Unrated

-----------------------------------------------------------------------------
(* The time *)

\* What the attempts before this one, and the waits after them, can have taken.
Tried(n) == (n - 1) * (setting.clientTimeout + setting.max)

\* What the transactions before this one can have taken, and the historical rate of this one.
Earlier(n) == {t \in setting.unrated : t < n}
Before(n) == (n - 1) * LongestRate + Cardinality(Earlier(n)) * LongestLoop
Rating(n) == IF Unrated(n) THEN LongestLoop ELSE 0

\* The most time that can have passed at a step, if every call has taken as long as it can.
Allowed(n, l, s, a) ==
  Before(n) + (IF l = "historical" THEN 0 ELSE Rating(n))
    + CASE s = "lookup" -> 0
        [] s = "call" -> Tried(a)
        [] s = "wait" -> Tried(a) + setting.clientTimeout
        [] s = "fallback" -> LongestLoop
        [] OTHER -> LongestRate

Fits == LongestRequest < setting.requestTimeout

\* The work is done in time, so that the answer is the one of the calculation.
InTime ==
  Fits => /\ step # "done" => elapsed <= Allowed(transaction, loop, step, attempt)
          /\ step = "done" <=> answer # "none"
          /\ answer # "timeout"

LEMMA LoopsAddUp ==
  ASSUME NEW s \in Settings, setting = s
  PROVE  /\ setting.clientTimeout \in Nat /\ setting.max \in Nat
         /\ LongestLoop \in Nat /\ LongestRate \in Nat
         /\ LongestRate = LongestLoop + setting.clientTimeout
         /\ Tried(1) = 0
         /\ \A n \in 1..setting.maxAttempts :
              /\ Tried(n) \in Nat
              /\ Tried(n) + setting.clientTimeout <= LongestLoop
              /\ n < setting.maxAttempts =>
                   Tried(n + 1) = Tried(n) + setting.clientTimeout + setting.max
<1> DEFINE c == setting.clientTimeout
           x == setting.max
           m == setting.maxAttempts
           w == c + x
           last == m - 1
<1>1. c \in Nat /\ x \in Nat /\ m \in Nat \ {0}
  BY SettingTyped
<1>2. w \in Nat /\ last \in Nat /\ m = last + 1
  BY <1>1
<1>3. /\ LongestLoop = m * c + (m - 1) * x /\ LongestRate = LongestLoop + c
      /\ \A n : Tried(n) = (n - 1) * w
  BY DEF LongestLoop, LongestRate, Tried
<1> HIDE DEF c, x, m
<1>4. m * c + (m - 1) * x = last * w + c
  BY <1>1, <1>2
<1>5. last * w \in Nat
  BY <1>2
<1>6. ASSUME NEW n \in 1..m
      PROVE  /\ Tried(n) \in Nat /\ Tried(n) <= last * w
             /\ Tried(n + 1) = Tried(n) + c + x
  <2> DEFINE k == n - 1
  <2>1. k \in Nat /\ k <= last /\ n \in Nat /\ n + 1 - 1 = k + 1
    BY <1>1, <1>2
  <2>2. Tried(n) = k * w /\ Tried(n + 1) = (k + 1) * w
    BY <1>3, <2>1
  <2> HIDE DEF k, last
  <2>3. k * w \in Nat /\ k * w <= last * w /\ (k + 1) * w = k * w + w
    <3> HIDE DEF w
    <3> QED
      BY ONLY <1>2, <2>1, ProductGrows
  <2> QED
    BY <1>1, <2>2, <2>3
<1>7. Tried(1) = 0
  <2>1. Tried(1) = (1 - 1) * w
    BY <1>3
  <2> QED
    BY <1>2, <2>1
<1> DEFINE all == last * w
<1>8. LongestLoop = all + c /\ all \in Nat
  BY <1>3, <1>4, <1>5
<1>9. \A n \in 1..m : Tried(n) \in Nat /\ Tried(n) <= all /\ Tried(n + 1) = Tried(n) + c + x
  BY <1>6
<1> HIDE DEF all, w, last
<1>10. LongestLoop \in Nat /\ LongestRate \in Nat /\ \A n \in 1..m : Tried(n) + c <= LongestLoop
  BY <1>1, <1>3, <1>8, <1>9
<1> QED
  BY <1>1, <1>3, <1>7, <1>9, <1>10 DEF c, x, m

\* The transactions up to one take what those before it take, and its own two rates.
LEMMA TransactionsAddUp ==
  ASSUME NEW s \in Settings, setting = s, NEW n \in 1..Len(setting.pairs)
  PROVE  /\ Before(n) \in Nat /\ Rating(n) \in Nat
         /\ Before(n + 1) = Before(n) + Rating(n) + LongestRate
         /\ Before(n + 1) <= LongestRequest
         /\ LongestRequest \in Nat
<1> DEFINE l == LongestLoop
           r == LongestRate
           all == Len(setting.pairs)
           unrated == setting.unrated
           before == Cardinality(Earlier(n))
           upTo == Cardinality(Earlier(n + 1))
           others == n - 1
<1>1. l \in Nat /\ r \in Nat
  BY LoopsAddUp
<1>2. all \in Nat \ {0} /\ unrated \subseteq 1..all /\ n \in Nat /\ others \in Nat
      /\ n = others + 1 /\ n <= all /\ n + 1 - 1 = n
  <2>1. all \in Nat \ {0} /\ unrated \subseteq 1..all
    BY SettingTyped, setting \in Settings
  <2> QED
    BY <2>1
<1>3. IsFiniteSet(unrated)
  <2>1. IsFiniteSet(1..all)
    BY <1>2, FS_Interval
  <2> QED
    BY <1>2, <2>1, FS_Subset
<1>4. /\ IsFiniteSet(Earlier(n)) /\ before \in Nat
      /\ IsFiniteSet(Earlier(n + 1)) /\ upTo \in Nat
      /\ Cardinality(unrated) \in Nat /\ upTo <= Cardinality(unrated)
  BY <1>3, FS_Subset, FS_CardinalityType DEF Earlier
<1>5. Earlier(n + 1) = IF Unrated(n) THEN Earlier(n) \union {n} ELSE Earlier(n)
  <2>1. \A t \in unrated : t < n + 1 <=> t < n \/ t = n
    BY <1>2
  <2> QED
    BY <2>1 DEF Earlier, Unrated
<1>6. n \notin Earlier(n)
  BY <1>2 DEF Earlier
<1>7. upTo = IF Unrated(n) THEN before + 1 ELSE before
  BY <1>4, <1>5, <1>6, FS_AddElement
<1>8. /\ Before(n) = others * r + before * l /\ Before(n + 1) = n * r + upTo * l
      /\ LongestRequest = all * r + Cardinality(unrated) * l
      /\ Rating(n) = IF Unrated(n) THEN l ELSE 0
  BY <1>2 DEF Before, LongestRequest, Rating
<1> DEFINE card == Cardinality(unrated)
<1>9. card \in Nat /\ upTo <= card
  BY <1>4
<1> HIDE DEF l, r, all, unrated, before, upTo, others, card
<1>10. /\ others * r \in Nat /\ n * r = others * r + r /\ n * r \in Nat /\ n * r <= all * r
       /\ all * r \in Nat
  <2>1. others * r \in Nat /\ (others + 1) * r = others * r + r
    BY ONLY <1>1, <1>2, others <= others, ProductGrows
  <2>2. n * r \in Nat /\ n * r <= all * r /\ all * r \in Nat
    <3>1. n \in Nat /\ all \in Nat /\ n <= all
      BY <1>2
    <3> QED
      BY ONLY <3>1, <1>1, ProductGrows
  <2> QED
    BY <1>2, <2>1, <2>2
<1>11. /\ before * l \in Nat /\ (before + 1) * l = before * l + l
       /\ upTo * l \in Nat /\ upTo * l <= card * l /\ card * l \in Nat
  <2>1. before * l \in Nat /\ (before + 1) * l = before * l + l
    BY ONLY <1>1, <1>4, before <= before, ProductGrows
  <2>2. upTo * l \in Nat /\ upTo * l <= card * l /\ card * l \in Nat
    BY ONLY <1>1, <1>4, <1>9, ProductGrows
  <2> QED
    BY <2>1, <2>2
<1>12. upTo * l = before * l + Rating(n) /\ Rating(n) \in Nat
  BY <1>1, <1>7, <1>8, <1>11
<1>13. LongestRequest = all * r + card * l
  BY <1>8 DEF card
<1> DEFINE a == others * r
           b == before * l
           u == upTo * l
           d == n * r
           e == all * r
           f == card * l
<1>14. /\ a \in Nat /\ b \in Nat /\ u \in Nat /\ d \in Nat /\ e \in Nat /\ f \in Nat
       /\ d = a + r /\ d <= e /\ u <= f /\ u = b + Rating(n)
       /\ Before(n) = a + b /\ Before(n + 1) = d + u /\ LongestRequest = e + f
  BY <1>8, <1>10, <1>11, <1>12, <1>13
<1> HIDE DEF a, b, u, d, e, f
<1>15. /\ Before(n) \in Nat /\ Rating(n) \in Nat
       /\ Before(n + 1) = Before(n) + Rating(n) + r
       /\ Before(n + 1) <= LongestRequest /\ LongestRequest \in Nat
  BY <1>1, <1>12, <1>14
<1> QED
  BY <1>15 DEF r

LEMMA BeforeFirst ==
  ASSUME NEW s \in Settings, setting = s
  PROVE  Before(1) = 0
<1>1. Earlier(1) = {}
  <2>1. setting.unrated \subseteq 1..Len(setting.pairs) /\ Len(setting.pairs) \in Nat
    BY SettingTyped, setting \in Settings
  <2> QED
    BY <2>1 DEF Earlier
<1>2. Cardinality(Earlier(1)) = 0
  BY <1>1, FS_EmptySet
<1>3. LongestRate \in Nat /\ LongestLoop \in Nat
  BY LoopsAddUp
<1>4. (1 - 1) * LongestRate + 0 * LongestLoop = 0
  BY <1>3
<1> QED
  BY <1>2, <1>4 DEF Before

\* The bounds depend on the settings alone.
LEMMA SameBounds ==
  ASSUME setting' = setting
  PROVE  /\ Fits' <=> Fits
         /\ Allowed(transaction, loop, step, attempt)'
              = Allowed(transaction', loop', step', attempt')
BY DEF Fits, LongestRequest, LongestRate, LongestLoop, Allowed, Before, Earlier, Rating, Tried,
       Unrated

LEMMA InitInTime == Init => InTime
<1> SUFFICES ASSUME Init PROVE InTime
  OBVIOUS
<1>1. TypeInv
  BY InitTyped
<1>2. /\ Before(1) = 0 /\ Tried(1) = 0 /\ Rating(1) \in Nat
  <2>1. 1 \in 1..Len(setting.pairs)
    BY <1>1 DEF Init, TypeInv
  <2> QED
    BY <1>1, <2>1, BeforeFirst, LoopsAddUp, TransactionsAddUp DEF TypeInv
<1>3. /\ elapsed = 0 /\ transaction = 1 /\ attempt = 1 /\ answer = "none"
      /\ loop = LoopOf(1) /\ step = StepOf(1)
  BY DEF Init
<1>4. step \in {"lookup", "call"} /\ loop \in {"historical", "primary"}
  BY <1>3 DEF LoopOf, StepOf
<1>5. Allowed(1, loop, step, 1) \in Nat
  BY <1>2, <1>4 DEF Allowed
<1> QED
  BY <1>3, <1>4, <1>5 DEF InTime

\* The next transaction starts, or the report is delivered, within the time of the one in hand.
LEMMA PricedInTime ==
  ASSUME TypeInv, InTime, Priced, Fits, setting' = setting, step # "done",
         elapsed' \in Nat, elapsed' <= Before(transaction) + Rating(transaction) + LongestRate
  PROVE  InTime'
<1>1. answer = "none"
  BY DEF InTime
<1>2. CASE Deliver("report")
  BY <1>1, <1>2 DEF Deliver, InTime
<1>3. CASE ~Deliver("report")
  <2> DEFINE n == transaction + 1
  <2>1. /\ n \in 1..Len(setting.pairs) /\ transaction' = n
        /\ loop' = LoopOf(n) /\ step' = StepOf(n) /\ attempt' = 1 /\ answer' = answer
    BY <1>3, PricedMoves
  <2>2. Before(n) = Before(transaction) + Rating(transaction) + LongestRate
    BY TransactionsAddUp DEF TypeInv
  <2>3. Before(n) \in Nat /\ Rating(n) \in Nat /\ Tried(1) = 0
    BY <2>1, TransactionsAddUp, LoopsAddUp DEF TypeInv
  <2> HIDE DEF n
  <2>4. Allowed(n, LoopOf(n), StepOf(n), 1) = Before(n)
    BY <2>3 DEF Allowed, LoopOf, StepOf, Rating
  <2>5. elapsed' <= Allowed(transaction', loop', step', attempt')
    BY <2>1, <2>2, <2>4
  <2>6. step' # "done"
    BY <2>1 DEF StepOf
  <2> QED
    BY <1>1, <2>1, <2>5, <2>6, SameBounds DEF InTime
<1> QED
  BY <1>2, <1>3

\* The retry loop is left for the fallback source, or without a historical rate.
LEMMA GiveUpInTime ==
  ASSUME TypeInv, InTime, GiveUp, Fits, setting' = setting, step # "done",
         elapsed' <= Allowed(transaction, loop, "fallback", attempt)
  PROVE  InTime'
<1>1. answer = "none"
  BY DEF InTime
<1>2. CASE loop = "historical"
  BY <1>1, <1>2 DEF GiveUp, Deliver, InTime
<1>3. CASE loop # "historical"
  <2>1. step' = "fallback" /\ UNCHANGED <<transaction, loop, attempt, answer>>
    BY <1>3 DEF GiveUp
  <2>2. elapsed' <= Allowed(transaction', loop', step', attempt')
    BY <2>1
  <2> QED
    BY <1>1, <2>1, <2>2, SameBounds DEF InTime
<1> QED
  BY <1>2, <1>3

LEMMA StepInTime ==
  ASSUME TypeInv, InTime, [Next]_vars
  PROVE  InTime'
<1>1. setting' = setting
  BY DEF Next, vars, Lookup, Answered, CallFails, Wait, FallbackFails, StaleLookup, Expire, Done
<1> SUFFICES ASSUME Fits PROVE InTime'
  BY <1>1, SameBounds DEF InTime
<1> DEFINE c == setting.clientTimeout
           x == setting.max
           t == Tried(attempt)
           l == LongestLoop
           r == LongestRate
           b == Before(transaction)
           own == Rating(transaction)
           base == b + (IF loop = "historical" THEN 0 ELSE own)
<1>2. /\ c \in Nat /\ x \in Nat /\ t \in Nat /\ l \in Nat /\ r \in Nat /\ r = l + c
      /\ t + c <= l
      /\ attempt < setting.maxAttempts =>
           Tried(attempt + 1) = t + c + x /\ Tried(attempt + 1) + c <= l
  <2>1. setting.maxAttempts \in Nat /\ attempt \in 1..setting.maxAttempts
    BY SettingTyped DEF TypeInv
  <2>2. attempt < setting.maxAttempts => attempt + 1 \in 1..setting.maxAttempts
    BY <2>1
  <2> QED
    BY <2>1, <2>2, LoopsAddUp DEF TypeInv
<1>3. /\ b \in Nat /\ own \in Nat /\ b + own + r <= LongestRequest
      /\ LongestRequest \in Nat /\ (loop = "historical" => own = l)
  <2>1. Before(transaction + 1) = b + own + r /\ Before(transaction + 1) <= LongestRequest
        /\ b \in Nat /\ own \in Nat /\ LongestRequest \in Nat
    BY TransactionsAddUp DEF TypeInv
  <2>2. loop = "historical" => own = l
    BY DEF Rating, TypeInv
  <2> QED
    BY <2>1, <2>2
<1>4. /\ elapsed \in Nat /\ setting.requestTimeout \in Nat
      /\ LongestRequest < setting.requestTimeout
  BY SettingTyped DEF TypeInv, Fits
<1>5. \A s, a : Allowed(transaction, loop, s, a)
        = base + (CASE s = "lookup" -> 0 [] s = "call" -> Tried(a) [] s = "wait" -> Tried(a) + c
                    [] s = "fallback" -> l [] OTHER -> r)
  BY DEF Allowed
<1>6. /\ step # "done" => elapsed <= Allowed(transaction, loop, step, attempt)
      /\ step = "done" <=> answer # "none"
      /\ answer # "timeout"
  BY DEF InTime
<1>7. /\ step = "lookup" => elapsed <= base
      /\ step = "call" => elapsed <= base + t
      /\ step = "wait" => elapsed <= base + t + c
      /\ step = "fallback" => elapsed <= base + l
      /\ step = "cache" => elapsed <= base + r
      /\ step \in {"lookup", "call", "wait", "fallback", "cache", "done"}
      /\ loop = "historical" => step \in {"call", "wait", "done"}
  <2>1. base \in Nat
    BY <1>3
  <2> HIDE DEF c, t, l, r, base
  <2>2. step \in {"lookup", "call", "wait", "fallback", "cache", "done"}
        /\ (loop = "historical" => step \in {"call", "wait", "done"})
    BY DEF TypeInv
  <2>3. step = "lookup" => elapsed <= base + 0
    BY <1>5, <1>6
  <2>4. step = "call" => elapsed <= base + t
    BY <1>5, <1>6 DEF t
  <2>5. step = "wait" => elapsed <= base + (t + c)
    BY <1>5, <1>6 DEF t
  <2>6. step = "fallback" => elapsed <= base + l
    BY <1>5, <1>6
  <2>7. step = "cache" => elapsed <= base + r
    BY <1>5, <1>6
  <2> QED
    BY <1>2, <2>1, <2>2, <2>3, <2>4, <2>5, <2>6, <2>7
<1>8. base \in Nat /\ (loop = "historical" => base = b) /\ (loop # "historical" => base = b + own)
  BY <1>3
<1> HIDE DEF c, x, t, l, r, b, own, base
<1>9. step # "done" => elapsed < setting.requestTimeout
  BY <1>2, <1>3, <1>4, <1>7, <1>8
<1>10. CASE Lookup
  <2>1. CASE Priced
    <3>1. elapsed' = elapsed /\ step = "lookup" /\ loop # "historical"
      BY <1>7, <1>10 DEF Lookup
    <3>2. elapsed' \in Nat /\ elapsed' <= b + own + r
      BY <1>2, <1>3, <1>4, <1>7, <1>8, <3>1
    <3> QED
      BY <1>1, <2>1, <3>1, <3>2, PricedInTime DEF b, own, r
  <2>2. CASE ~Priced
    <3>1. /\ step = "lookup" /\ step' = "call" /\ elapsed' = elapsed
          /\ UNCHANGED <<transaction, loop, attempt, answer>>
      BY <1>10, <2>2 DEF Lookup
    <3>2. Allowed(transaction, loop, "call", attempt) = base + t
      BY <1>5 DEF t
    <3>3. elapsed' <= Allowed(transaction', loop', step', attempt')
      BY <1>2, <1>4, <1>7, <1>8, <3>1, <3>2
    <3> QED
      BY <1>1, <1>6, <3>1, <3>3, SameBounds DEF InTime
  <2> QED
    BY <2>1, <2>2
<1>11. CASE Answered
  <2>1. elapsed' \in Nat /\ elapsed' <= elapsed + c /\ step \in {"call", "fallback"}
    BY <1>11, StepSpends DEF Answered, c
  <2>2. elapsed' <= base + t + c \/ elapsed' <= base + l + c
    BY <1>2, <1>4, <1>7, <1>8, <2>1
  <2>3. CASE loop = "historical"
    <3>1. /\ step' = "lookup" /\ loop' = "primary" /\ transaction' = transaction /\ answer' = answer
          /\ step = "call"
      BY <1>7, <1>11, <2>1, <2>3 DEF Answered
    <3>2. elapsed' <= b + own
      <4>1. elapsed <= base + t /\ base = b /\ own = l
        BY <1>3, <1>7, <1>8, <2>3, <3>1
      <4> QED
        BY <1>2, <1>3, <1>4, <2>1, <4>1
    <3>3. Allowed(transaction, "primary", "lookup", attempt') = b + own
      <4>1. Allowed(transaction, "primary", "lookup", attempt') = b + own + 0
        BY DEF Allowed, b, own
      <4> QED
        BY <1>3, <4>1
    <3>4. elapsed' <= Allowed(transaction', loop', step', attempt')
      BY <3>1, <3>2, <3>3
    <3> QED
      BY <1>1, <1>6, <3>1, <3>4, SameBounds DEF InTime
  <2>4. CASE loop # "historical"
    <3>1. Priced
      BY <1>11, <2>4 DEF Answered
    <3>2. elapsed' <= b + own + r
      BY <1>2, <1>3, <1>8, <2>1, <2>2, <2>4
    <3> QED
      BY <1>1, <2>1, <3>1, <3>2, PricedInTime DEF b, own, r
  <2> QED
    BY <2>3, <2>4
<1>12. CASE CallFails
  <2>1. elapsed' \in Nat /\ elapsed' <= elapsed + c /\ step = "call"
    BY <1>12, StepSpends DEF CallFails, c
  <2>2. elapsed' <= base + t + c /\ elapsed' <= base + l
    BY <1>2, <1>4, <1>7, <1>8, <2>1
  <2>3. CASE GiveUp
    <3>1. Allowed(transaction, loop, "fallback", attempt) = base + l
      BY <1>5
    <3> QED
      BY <1>1, <2>1, <2>2, <2>3, <3>1, GiveUpInTime
  <2>4. CASE ~GiveUp
    <3>1. step' = "wait" /\ UNCHANGED <<transaction, loop, attempt, answer>>
      BY <1>12, <2>4 DEF CallFails
    <3>2. Allowed(transaction, loop, "wait", attempt) = base + (t + c)
      BY <1>5 DEF t
    <3>3. elapsed' <= Allowed(transaction', loop', step', attempt')
      BY <1>2, <1>8, <2>1, <2>2, <3>1, <3>2
    <3> QED
      BY <1>1, <1>6, <2>1, <3>1, <3>3, SameBounds DEF InTime
  <2> QED
    BY <2>3, <2>4
<1>13. CASE Wait
  <2>1. elapsed' \in Nat /\ elapsed' <= elapsed + x /\ step = "wait"
    BY <1>13, WaitSpends DEF Wait, x
  <2>2. /\ Tried(attempt + 1) = t + c + x /\ Tried(attempt + 1) + c <= l
    BY <1>2, <2>1 DEF TypeInv
  <2>3. elapsed' <= base + Tried(attempt + 1) /\ elapsed' <= base + l
    BY <1>2, <1>4, <1>7, <1>8, <2>1, <2>2
  <2>4. CASE GiveUp
    <3>1. Allowed(transaction, loop, "fallback", attempt) = base + l
      BY <1>5
    <3> QED
      BY <1>1, <2>1, <2>3, <2>4, <3>1, GiveUpInTime
  <2>5. CASE ~GiveUp
    <3>1. step' = "call" /\ attempt' = attempt + 1 /\ UNCHANGED <<transaction, loop, answer>>
      BY <1>13, <2>5 DEF Wait
    <3>2. Allowed(transaction, loop, "call", attempt + 1) = base + Tried(attempt + 1)
      BY <1>5
    <3>3. elapsed' <= Allowed(transaction', loop', step', attempt')
      BY <2>3, <3>1, <3>2
    <3> QED
      BY <1>1, <1>6, <2>1, <3>1, <3>3, SameBounds DEF InTime
  <2> QED
    BY <2>4, <2>5
<1>14. CASE FallbackFails
  <2>1. elapsed' \in Nat /\ elapsed' <= elapsed + c /\ step = "fallback"
    BY <1>14, StepSpends DEF FallbackFails, c
  <2>2. step' = "cache" /\ UNCHANGED <<transaction, loop, attempt, answer>>
    BY <1>14 DEF FallbackFails
  <2>3. Allowed(transaction, loop, "cache", attempt) = base + r
    BY <1>5
  <2>4. elapsed' <= base + r
    BY <1>2, <1>4, <1>7, <1>8, <2>1
  <2>5. elapsed' <= Allowed(transaction', loop', step', attempt')
    BY <2>2, <2>3, <2>4
  <2> QED
    BY <1>1, <1>6, <2>1, <2>2, <2>5, SameBounds DEF InTime
<1>15. CASE StaleLookup
  <2>1. step = "cache" /\ elapsed' = elapsed /\ loop # "historical"
    BY <1>7, <1>15 DEF StaleLookup
  <2>2. elapsed' \in Nat /\ elapsed' <= b + own + r
    BY <1>2, <1>3, <1>4, <1>7, <1>8, <2>1
  <2>3. CASE Priced
    BY <1>1, <2>1, <2>2, <2>3, PricedInTime DEF b, own, r
  <2>4. CASE ~Priced
    <3>1. step' = "done" /\ answer' = "error"
      BY <1>6, <1>15, <2>1, <2>4 DEF StaleLookup, Deliver
    <3> QED
      BY <3>1 DEF InTime
  <2> QED
    BY <2>3, <2>4
<1>16. CASE Expire
  <2>1. elapsed = setting.requestTimeout /\ answer = "none"
    BY <1>16 DEF Expire, Overdue
  <2>2. step # "done"
    BY <1>6, <2>1
  <2> QED
    BY <1>4, <1>9, <2>1, <2>2
<1>17. CASE Done \/ UNCHANGED vars
  <2>1. UNCHANGED <<setting, elapsed, transaction, loop, step, attempt, answer>>
    BY <1>17 DEF Done, vars
  <2> QED
    BY <1>1, <1>6, <2>1, SameBounds DEF InTime
<1> QED
  BY <1>10, <1>11, <1>12, <1>13, <1>14, <1>15, <1>16, <1>17 DEF Next

\* A request whose transactions, with their historical and current rates one after the other,
\* fit into its timeout is not answered 503; and one that needs no historical rate is not
\* answered with an error while the cache has its pairs: for every setting, not only small ones.
THEOREM CachedQuoteIsServedCorrect == Spec => []CachedQuoteIsServed
<1>1. TypeInv /\ ErrorHasCause /\ InTime => CachedQuoteIsServed
  BY CauseMissing DEF InTime, Fits, CachedQuoteIsServed
<1>2. Init => ErrorHasCause
  BY DEF Init, ErrorHasCause
<1>3. TypeInv /\ ErrorHasCause /\ [Next]_vars => ErrorHasCause'
  BY StepErrs
<1>4. TypeInv /\ InTime /\ [Next]_vars => InTime'
  BY StepInTime
<1> QED
  BY <1>1, <1>2, <1>3, <1>4, InitInTime, TypesHold, PTL DEF Spec
=============================================================================
