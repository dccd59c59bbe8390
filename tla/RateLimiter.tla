---------------------------- MODULE RateLimiter ----------------------------
(***************************************************************************)
(* UseRateLimiting of middleware_security.go: a table of token buckets by  *)
(* client, guarded by one mutex.  A request reads the clock before it      *)
(* waits for the mutex; in the critical section it finds or creates the    *)
(* bucket of its client, marks it as used at that earlier time, evicts     *)
(* every entry that has been idle for two windows, and takes a token,      *)
(* which is judged by the present time.                                    *)
(*                                                                         *)
(* A bucket (golang.org/x/time/rate, outside src) is counted in ticks: a   *)
(* token is Interval ticks, and each tick refills one until it is full.    *)
(***************************************************************************)
EXTENDS Integers, FiniteSets

CONSTANTS
  Clients,      \* client addresses, "unknown" among them
  Requests,     \* one pass through the middleware each
  MaxRequests,  \* SERVER_RATE_LIMIT_MAX_REQUESTS, also the burst
  Window,       \* SERVER_RATE_LIMIT_WINDOW, in ticks
  MaxLag,       \* bound on the wait for the mutex
  MaxTime       \* bound on the clock

ASSUME LimiterAssumption ==
  /\ IsFiniteSet(Requests)
  /\ MaxRequests \in Nat \ {0}
  /\ Window \in Nat /\ MaxRequests <= Window
  /\ MaxLag \in Nat /\ MaxTime \in Nat

\* With entries kept for two windows, a wait of one window is harmless.
ASSUME LagAssumption == MaxLag <= Window

\* rate.Every(window / maxRequests): a division of integers.
Interval == Window \div MaxRequests

Capacity == MaxRequests * Interval

VARIABLES
  clock,
  entries,    \* the table: an entry or NoEntry by client
  pc,         \* "new", "waiting" for the mutex, "done"
  client,     \* whose request it is
  reading,    \* `now`, read before the mutex; 0 when the request is done
  verdict,    \* "none", "admitted" or "refused"
  decided     \* when the verdict was given

vars == <<clock, entries, pc, client, reading, verdict, decided>>

Time == 0..MaxTime

\* A bucket that held `level` at time `at`.
Entry == [level: 0..Capacity, at: Time, lastSeen: Time]

NoEntry == [level |-> -1, at |-> 0, lastSeen |-> 0]

TypeOK ==
  /\ clock \in Time
  /\ entries \in [Clients -> Entry \union {NoEntry}]
  /\ pc \in [Requests -> {"new", "waiting", "done"}]
  /\ client \in [Requests -> Clients]
  /\ reading \in [Requests -> Time]
  /\ verdict \in [Requests -> {"none", "admitted", "refused"}]
  /\ decided \in [Requests -> Time]

Init ==
  /\ clock = 0
  /\ entries = [c \in Clients |-> NoEntry]
  /\ pc = [r \in Requests |-> "new"]
  /\ client \in [Requests -> Clients]
  /\ reading = [r \in Requests |-> 0]
  /\ verdict = [r \in Requests |-> "none"]
  /\ decided = [r \in Requests |-> 0]

(***************************************************************************)
(* The critical section, as one operator for each thing it does.           *)
(***************************************************************************)
FullBucket == [level |-> Capacity, at |-> clock, lastSeen |-> clock]

\* Mutant: the level of a bucket is not limited to the burst.
HeldUncapped(e) == e.level + (clock - e.at)

\* What a bucket holds by now.
Held(e) ==
  LET refilled == e.level + (clock - e.at)
  IN IF refilled < Capacity THEN refilled ELSE Capacity

\* Find or create the entry of the client and mark it as seen.
Touched(c, now) ==
  [entries EXCEPT ![c] = [IF @ = NoEntry THEN FullBucket ELSE @ EXCEPT !.lastSeen = now]]

\* Mutant: entries are kept for one window only.
EvictedAfterOneWindow(table, now) ==
  [c \in Clients |-> IF now - table[c].lastSeen > Window THEN NoEntry ELSE table[c]]

\* Evict what has been idle for two windows.
Evicted(table, now) ==
  [c \in Clients |-> IF now - table[c].lastSeen > 2 * Window THEN NoEntry ELSE table[c]]

\* Mutant: a refused request is charged, too.
PaidCharging(e) ==
  [e EXCEPT !.level = IF Held(e) >= Interval THEN Held(e) - Interval ELSE 0, !.at = clock]

\* Allow: an admitted request pays, a refused one changes nothing.
Paid(e) ==
  IF Held(e) >= Interval THEN [e EXCEPT !.level = Held(e) - Interval, !.at = clock] ELSE e

-----------------------------------------------------------------------------
Arrive(r) ==
  /\ pc[r] = "new"
  /\ pc' = [pc EXCEPT ![r] = "waiting"]
  /\ reading' = [reading EXCEPT ![r] = clock]
  /\ UNCHANGED <<clock, entries, client, verdict, decided>>

Limit(r) ==
  LET c     == client[r]
      table == Evicted(Touched(c, reading[r]), reading[r])
  IN /\ pc[r] = "waiting"
     /\ pc' = [pc EXCEPT ![r] = "done"]
     /\ entries' = [table EXCEPT ![c] = Paid(@)]
     /\ verdict' = [verdict EXCEPT ![r] =
                      IF Held(table[c]) >= Interval THEN "admitted" ELSE "refused"]
     /\ decided' = [decided EXCEPT ![r] = clock]
     /\ reading' = [reading EXCEPT ![r] = 0]
     /\ UNCHANGED <<clock, client>>

\* Time passes while no request has waited for MaxLag.
Tick ==
  /\ clock < MaxTime
  /\ \A r \in Requests : pc[r] = "waiting" => clock < reading[r] + MaxLag
  /\ clock' = clock + 1
  /\ UNCHANGED <<entries, pc, client, reading, verdict, decided>>

Next ==
  \/ \E r \in Requests : Arrive(r) \/ Limit(r)
  \/ Tick

Spec == Init /\ [][Next]_vars

-----------------------------------------------------------------------------
Admitted(c, from, to) ==
  {r \in Requests : client[r] = c /\ verdict[r] = "admitted" /\ decided[r] \in from..to}

\* In no span of time is a client admitted more often than the burst and what
\* was refilled during the span pay for, however its entry is evicted and made
\* again in between.  (The spans that matter are those between two admissions.)
BudgetRespected ==
  \A q, r \in Requests :
    LET span == decided[r] - decided[q]
    IN verdict[q] = "admitted" /\ verdict[r] = "admitted" /\ client[q] = client[r] /\ span >= 0 =>
         Cardinality(Admitted(client[r], decided[q], decided[r])) * Interval <= Capacity + span

\* Conversely a refused request would have overdrawn the budget of some span that
\* ends with it: nobody else's requests, and no refused ones, count against a client.
RefusedOnlyOverBudget ==
  \A r \in Requests :
    verdict[r] = "refused" =>
      \E q \in Requests :
        /\ verdict[q] = "admitted" /\ client[q] = client[r] /\ decided[q] <= decided[r]
        /\ (1 + Cardinality(Admitted(client[r], decided[q], decided[r]))) * Interval
             > Capacity + (decided[r] - decided[q])

\* The table may forget a client, its bucket does not: an entry is evicted only
\* when its bucket is full again, and so equal to the one that would replace it.
Bucket(c) == IF entries[c] = NoEntry THEN Capacity ELSE Held(entries[c])

Contract == INSTANCE TokenBucket WITH bucket <- [c \in Clients |-> Bucket(c)]

ImplementsTokenBucket == Contract!Spec
=============================================================================
