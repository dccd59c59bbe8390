--------------------------- MODULE RequestBudget ---------------------------
(***************************************************************************)
(* The time budgets of one exposure request composed.  The loop of         *)
(* CalculateExposure takes the transactions one by one: for one that came  *)
(* without an authorization rate, the retry loop of the historical source; *)
(* then the cache and, on a miss, the retry loop of the primary source,    *)
(* the fallback source, and the expired quote of the cache.  Each upstream *)
(* call ends within the timeout of the HTTP client, and the whole has the  *)
(* timeout of the request: its deadline cancels the call or the wait in    *)
(* hand, the client has its 503, and what the provider still does takes no *)
(* time.                                                                   *)
(*                                                                         *)
(* Transactions in one currency ask no source and are left out, and so is  *)
(* what Exposure models: the transactions are valid.                       *)
(***************************************************************************)
EXTENDS Backoff, Sequences, FiniteSets

CONSTANTS
  Pairs,      \* of two different currencies
  Settings    \* requestTimeout, clientTimeout, maxAttempts, initial and max; and of the
              \* request the pairs of its transactions, in order, and the numbers of those
              \* that are unrated: without an authorization rate

\* What LoadFromEnv accepts (config.go:95-122), for maxima below a quarter of the
\* range (146 years): beyond, the doubled delay can overflow.
ASSUME SettingsAssumption ==
  \A s \in Settings :
    /\ \A name \in {"requestTimeout", "clientTimeout", "maxAttempts", "initial", "max"} :
         s[name] \in Nat \ {0}
    /\ s.initial <= s.max /\ 2 * s.max < Limit
    /\ s.pairs \in Seq(Pairs) /\ s.pairs # <<>> /\ s.unrated \subseteq DOMAIN s.pairs

VARIABLES
  setting,      \* the settings of this process, and the request
  elapsed,      \* time since the request arrived
  transaction,  \* the transaction in hand
  loop,         \* whose retries: of the "historical" or of the "primary" source
  step,         \* "lookup", "call", "wait", "fallback", "cache" or "done"
  attempt,      \* of the retry loop
  cached,       \* pairs of which the cache has a quote, perhaps expired
  answer        \* what the client gets: "none", "report", "error", "timeout"

vars == <<setting, elapsed, transaction, loop, step, attempt, cached, answer>>

Pair == setting.pairs[transaction]
Unrated(t) == t \in setting.unrated

\* Where the work on a transaction begins.
LoopOf(t) == IF Unrated(t) THEN "historical" ELSE "primary"
StepOf(t) == IF Unrated(t) THEN "call" ELSE "lookup"

Init ==
  /\ setting \in Settings
  /\ elapsed = 0 /\ transaction = 1
  /\ loop = LoopOf(1) /\ step = StepOf(1) /\ attempt = 1
  /\ cached \in SUBSET Pairs /\ answer = "none"

\* Time spent in a call or wait, up to the deadline.
Spend(time) ==
  elapsed' = IF elapsed + time < setting.requestTimeout
             THEN elapsed + time ELSE setting.requestTimeout

\* The context of the request is done; a call or wait that it cancels has failed.
Overdue == elapsed = setting.requestTimeout

\* The calculation ends, perhaps after the client had its answer.
Deliver(what) ==
  /\ step' = "done"
  /\ answer' = IF answer = "none" THEN what ELSE answer
  /\ UNCHANGED <<transaction, loop, attempt>>

-----------------------------------------------------------------------------
\* The current rate is known: the next transaction, or the report.
Priced ==
  IF transaction < Len(setting.pairs)
  THEN /\ transaction' = transaction + 1
       /\ loop' = LoopOf(transaction + 1) /\ step' = StepOf(transaction + 1)
       /\ attempt' = 1 /\ UNCHANGED answer
  ELSE Deliver("report")

\* A quote of the cache that has not expired will do.  An expired quote is not renewed
\* when it is served: each transaction of its pair goes through all that follows.
Lookup ==
  /\ step = "lookup"
  /\ \/ Pair \in cached /\ Priced
     \/ step' = "call" /\ UNCHANGED <<transaction, loop, attempt, answer>>
  /\ UNCHANGED <<setting, elapsed, cached>>

\* A source answers in time; what is current is cached, what is historical is not.
Answered ==
  /\ step \in {"call", "fallback"} /\ ~Overdue
  /\ \E time \in 0..(setting.clientTimeout - 1) :
       elapsed + time < setting.requestTimeout /\ Spend(time)
  /\ IF loop = "historical"
     THEN /\ step' = "lookup" /\ loop' = "primary" /\ attempt' = 1
          /\ UNCHANGED <<transaction, cached, answer>>
     ELSE Priced /\ cached' = cached \union {Pair}
  /\ UNCHANGED setting

\* No attempt follows: without a historical rate the request has failed, without a
\* current one the fallback source is asked.
GiveUp ==
  IF loop = "historical" THEN Deliver("error")
  ELSE step' = "fallback" /\ UNCHANGED <<transaction, loop, attempt, answer>>

\* The source refuses, fails or hangs until the client times out; a failure that can be
\* retried is followed by a wait.
CallFails ==
  /\ step = "call"
  /\ \E time \in 0..setting.clientTimeout : Spend(time)
  /\ \/ GiveUp
     \/ /\ attempt < setting.maxAttempts
        /\ step' = "wait" /\ UNCHANGED <<transaction, loop, attempt, answer>>
  /\ UNCHANGED <<setting, cached>>

Delay == Duration([initial |-> setting.initial, max |-> setting.max], attempt)

\* Mutant: the attempt is not counted, nor is the wait cut short by the deadline.
WaitUncounted ==
  /\ step = "wait"
  /\ Spend(Delay)
  /\ step' = "call"
  /\ UNCHANGED <<setting, transaction, loop, attempt, cached, answer>>

\* The delay is over, or the deadline has cut it short: then no attempt follows, but the
\* fallback source is asked all the same.
Wait ==
  /\ step = "wait"
  /\ Spend(Delay)
  /\ IF elapsed + Delay < setting.requestTimeout
     THEN step' = "call" /\ attempt' = attempt + 1 /\ UNCHANGED <<transaction, loop, answer>>
     ELSE GiveUp
  /\ UNCHANGED <<setting, cached>>

FallbackFails ==
  /\ step = "fallback"
  /\ \E time \in 0..setting.clientTimeout : Spend(time)
  /\ step' = "cache"
  /\ UNCHANGED <<setting, transaction, loop, attempt, cached, answer>>

\* Mutant: an expired quote of the cache is not used.
StaleLookupFresh ==
  /\ step = "cache"
  /\ Deliver("error")
  /\ UNCHANGED <<setting, elapsed, cached>>

StaleLookup ==
  /\ step = "cache"
  /\ IF Pair \in cached THEN Priced ELSE Deliver("error")
  /\ UNCHANGED <<setting, elapsed, cached>>

\* The timeout middleware answers.
Expire ==
  /\ Overdue /\ answer = "none"
  /\ answer' = "timeout"
  /\ UNCHANGED <<setting, elapsed, transaction, loop, step, attempt, cached>>

Done == step = "done" /\ answer # "none" /\ UNCHANGED vars

Next ==
  \/ Lookup \/ Answered \/ CallFails \/ Wait \/ FallbackFails \/ StaleLookup
  \/ Expire \/ Done

\* Calls end by the timeout of the client, waits by their timer; goroutines run.
Spec == Init /\ [][Next]_vars /\ WF_vars(Next)

-----------------------------------------------------------------------------
\* What a retry loop can take when its source hangs: all attempts and the longest waits
\* between them; and what a current rate can take, with the fallback source.
LongestLoop ==
  setting.maxAttempts * setting.clientTimeout + (setting.maxAttempts - 1) * setting.max
LongestRate == LongestLoop + setting.clientTimeout

\* The transactions are worked on one after the other, and no result is shared.
LongestRequest ==
  Len(setting.pairs) * LongestRate + Cardinality(setting.unrated) * LongestLoop

\* The calculation falls "back to secondary/cached quotes when live calls fail"
\* (README.md:28), whatever fails and however long each call takes: no request times out
\* whose transactions, one after the other, fit into its timeout; and none that needs
\* no historical rate fails while the cache has a quote of each of its pairs.  With the
\* default settings (8 s, 5 s, 3 attempts) not even one transaction fits.
CachedQuoteIsServed ==
  /\ LongestRequest < setting.requestTimeout => answer # "timeout"
  /\ (setting.unrated = {} /\ \A t \in DOMAIN setting.pairs : setting.pairs[t] \in cached)
       => answer # "error"

\* The goroutine of a request comes to its end, overdue or not, so that it can complete
\* its idempotency record.
CalculationEnds == <>(step = "done")

\* The retry loop waits as documented: iterating in integers of a fixed width, with its
\* cap within the loop, gives what the closed form gives in unbounded ones.
DelayIsExponential ==
  step = "wait" =>
    Delay = Exponential([initial |-> setting.initial, max |-> setting.max], attempt)
=============================================================================
