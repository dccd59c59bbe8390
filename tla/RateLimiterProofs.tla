------------------------- MODULE RateLimiterProofs -------------------------
(***************************************************************************)
(* Proofs about RateLimiter, for every number of clients and requests, and *)
(* every limit and window: the table behaves like TokenBucket, and refuses *)
(* a request if and only if the budget of its client requires it.          *)
(*                                                                         *)
(* All rests on the times in an entry: a bucket was last charged at most   *)
(* MaxLag after the moment that the entry is marked with (ChargedByMark),  *)
(* so that an entry that is old enough to be evicted has a full bucket.    *)
(***************************************************************************)
EXTENDS RateLimiter, FiniteSetTheorems, TLAPS

\* Who waits for the mutex has read the clock within MaxLag.
WaitIsBounded ==
  \A r \in Requests :
    pc[r] = "waiting" => reading[r] <= clock /\ clock <= reading[r] + MaxLag

\* A verdict is given with the critical section, once.
VerdictWhenDone ==
  \A r \in Requests : (verdict[r] = "none" <=> pc[r] # "done") /\ decided[r] <= clock

\* No bucket was charged in the future, or much later than its entry was marked.
ChargedByMark ==
  \A c \in Clients :
    entries[c] # NoEntry =>
      entries[c].at <= clock /\ entries[c].at <= entries[c].lastSeen + MaxLag

IInv == TypeOK /\ WaitIsBounded /\ VerdictWhenDone /\ ChargedByMark

-----------------------------------------------------------------------------
(* The numbers *)

\* A window holds at least one token, and never less time than it takes to fill a bucket.
LEMMA Sizes ==
  /\ Interval \in Nat \ {0}
  /\ Capacity \in Nat
  /\ Interval <= Capacity
  /\ Capacity <= Window
<1>1. Interval \in Nat \ {0}
  BY LimiterAssumption DEF Interval
<1>2. Capacity \in Nat /\ Capacity <= Window
  BY LimiterAssumption DEF Capacity, Interval
<1>3. Interval <= Capacity
  BY <1>1, LimiterAssumption DEF Capacity
<1>. QED
  BY <1>1, <1>2, <1>3

\* What an entry holds lies between nothing and a full bucket.
LEMMA HeldInRange ==
  ASSUME NEW e \in Entry, clock \in Time, e.at <= clock
  PROVE  Held(e) \in 0..Capacity
BY Sizes, LimiterAssumption DEF Held, Entry, Time

\* An entry is no NoEntry.
LEMMA EntryIsSome == NoEntry \notin Entry
BY Sizes DEF NoEntry, Entry

\* The critical section of a request: its own entry is marked and kept, every other
\* stays as it is or is evicted.
LEMMA SectionEffect ==
  ASSUME IInv, NEW r \in Requests, pc[r] = "waiting",
         NEW table, table = Evicted(Touched(client[r], reading[r]), reading[r])
  PROVE  /\ table \in [Clients -> Entry \union {NoEntry}]
         /\ client[r] \in Clients
         /\ table[client[r]] \in Entry
         /\ table[client[r]].lastSeen = reading[r]
         /\ table[client[r]].at <= clock
         /\ Held(table[client[r]]) = Bucket(client[r])
         /\ \A d \in Clients \ {client[r]} :
              \/ table[d] = entries[d]
              \/ table[d] = NoEntry /\ reading[r] - entries[d].lastSeen > 2 * Window
<1> DEFINE c == client[r]
           now == reading[r]
           mine == IF entries[c] = NoEntry THEN FullBucket ELSE entries[c]
           touched == Touched(c, now)
<1>1. c \in Clients /\ now \in Time /\ clock \in Time /\ now <= clock
  BY DEF IInv, TypeOK, WaitIsBounded
<1>2. FullBucket \in Entry /\ FullBucket.at = clock /\ FullBucket.level = Capacity
  BY <1>1, Sizes DEF FullBucket, Entry
<1>3. mine \in Entry /\ mine.at <= clock
  BY <1>1, <1>2, LimiterAssumption DEF IInv, TypeOK, ChargedByMark, Time
<1>4. touched \in [Clients -> Entry \union {NoEntry}]
       /\ touched[c] = [mine EXCEPT !.lastSeen = now]
       /\ \A d \in Clients \ {c} : touched[d] = entries[d]
  BY <1>1, <1>3 DEF Touched, IInv, TypeOK, Entry
<1>5. touched[c] \in Entry /\ touched[c].lastSeen = now /\ touched[c].at = mine.at
       /\ touched[c].level = mine.level
  BY <1>1, <1>3, <1>4 DEF Entry
<1>6. table = [d \in Clients |-> IF now - touched[d].lastSeen > 2 * Window
                                 THEN NoEntry ELSE touched[d]]
  BY DEF Evicted
<1>7. table[c] = touched[c]
  BY <1>1, <1>5, <1>6, LimiterAssumption DEF Time
<1>8. table \in [Clients -> Entry \union {NoEntry}]
  BY <1>4, <1>6
<1>9. Held(table[c]) = Bucket(c)
  <2>1. CASE entries[c] = NoEntry
    BY <1>1, <1>2, <1>5, <1>7, <2>1, Sizes, LimiterAssumption DEF Held, Bucket, Time
  <2>2. CASE entries[c] # NoEntry
    BY <1>5, <1>7, <2>2 DEF Held, Bucket
  <2>. QED
    BY <2>1, <2>2
<1>10. \A d \in Clients \ {c} :
         \/ table[d] = entries[d]
         \/ table[d] = NoEntry /\ now - entries[d].lastSeen > 2 * Window
  BY <1>4, <1>6
<1>. QED
  BY <1>1, <1>3, <1>5, <1>7, <1>8, <1>9, <1>10

\* Paying leaves an entry that was charged just now, or not at all.
LEMMA PaidEffect ==
  ASSUME NEW e \in Entry, clock \in Time, e.at <= clock
  PROVE  /\ Paid(e) \in Entry
         /\ Paid(e).lastSeen = e.lastSeen
         /\ Paid(e).at \in {e.at, clock}
         /\ Held(Paid(e)) = IF Held(e) >= Interval THEN Held(e) - Interval ELSE Held(e)
<1>1. Held(e) \in 0..Capacity
  BY HeldInRange
<1>2. CASE Held(e) >= Interval
  <2>1. Held(e) - Interval \in 0..Capacity /\ Held(e) - Interval < Capacity
    BY <1>1, <1>2, Sizes
  <2>2. Paid(e) = [e EXCEPT !.level = Held(e) - Interval, !.at = clock]
    BY <1>2 DEF Paid
  <2>3. Paid(e) \in Entry /\ Paid(e).level = Held(e) - Interval /\ Paid(e).at = clock
         /\ Paid(e).lastSeen = e.lastSeen
    BY <2>1, <2>2 DEF Entry
  <2>4. Held(Paid(e)) = Held(e) - Interval
    <3>1. Held(Paid(e)) =
            LET refilled == Paid(e).level + (clock - Paid(e).at)
            IN IF refilled < Capacity THEN refilled ELSE Capacity
      BY DEF Held
    <3>. QED
      BY <2>1, <2>3, <3>1, Sizes, LimiterAssumption DEF Time
  <2>. QED
    BY <1>2, <2>3, <2>4
<1>3. CASE ~(Held(e) >= Interval)
  BY <1>3 DEF Paid
<1>. QED
  BY <1>2, <1>3

-----------------------------------------------------------------------------
(* The invariant *)

LEMMA InitInv == Init => IInv
BY LimiterAssumption DEF Init, IInv, TypeOK, Time, NoEntry, WaitIsBounded, VerdictWhenDone, ChargedByMark

LEMMA ArriveInv ==
  ASSUME IInv, NEW r \in Requests, Arrive(r)
  PROVE  IInv'
<1>1. TypeOK'
  BY DEF IInv, TypeOK, Arrive, Time
<1>2. WaitIsBounded'
  BY LimiterAssumption DEF IInv, TypeOK, WaitIsBounded, Arrive, Time
<1>3. VerdictWhenDone'
  BY DEF IInv, TypeOK, VerdictWhenDone, Arrive
<1>4. ChargedByMark'
  BY DEF IInv, ChargedByMark, Arrive
<1>. QED
  BY <1>1, <1>2, <1>3, <1>4 DEF IInv

LEMMA LimitInv ==
  ASSUME IInv, NEW r \in Requests, Limit(r)
  PROVE  IInv'
<1> DEFINE c == client[r]
           table == Evicted(Touched(c, reading[r]), reading[r])
           e == table[c]
<1>1. /\ pc[r] = "waiting"
      /\ pc' = [pc EXCEPT ![r] = "done"]
      /\ entries' = [table EXCEPT ![c] = Paid(table[c])]
      /\ verdict' = [verdict EXCEPT ![r] =
                       IF Held(e) >= Interval THEN "admitted" ELSE "refused"]
      /\ decided' = [decided EXCEPT ![r] = clock]
      /\ reading' = [reading EXCEPT ![r] = 0]
      /\ clock' = clock /\ client' = client
  BY DEF Limit
<1>2. /\ table \in [Clients -> Entry \union {NoEntry}]
      /\ c \in Clients
      /\ e \in Entry /\ e.lastSeen = reading[r] /\ e.at <= clock
      /\ \A d \in Clients \ {c} : table[d] = entries[d] \/ table[d] = NoEntry
  BY <1>1, SectionEffect
<1>3. clock \in Time /\ reading[r] \in Time /\ reading[r] <= clock /\ clock <= reading[r] + MaxLag
  BY <1>1 DEF IInv, TypeOK, WaitIsBounded
<1>4. Paid(e) \in Entry /\ Paid(e).lastSeen = reading[r] /\ Paid(e).at \in {e.at, clock}
  BY <1>2, <1>3, PaidEffect
<1>5. entries'[c] = Paid(e) /\ \A d \in Clients \ {c} : entries'[d] = table[d]
  BY <1>1, <1>2
<1>6. TypeOK'
  <2>1. entries' \in [Clients -> Entry \union {NoEntry}]
    BY <1>1, <1>2, <1>4
  <2>2. 0 \in Time
    BY LimiterAssumption DEF Time
  <2>. QED
    BY <1>1, <1>3, <2>1, <2>2 DEF IInv, TypeOK
<1>7. WaitIsBounded'
  BY <1>1 DEF IInv, TypeOK, WaitIsBounded
<1>8. VerdictWhenDone'
  BY <1>1, <1>3, LimiterAssumption DEF IInv, TypeOK, VerdictWhenDone, Time
<1>9. ChargedByMark'
  <2>1. entries'[c].at <= clock /\ entries'[c].at <= entries'[c].lastSeen + MaxLag
    <3>1. Paid(e).at <= clock /\ Paid(e).at \in Time
      BY <1>2, <1>3, <1>4, LimiterAssumption DEF Time, Entry
    <3>. QED
      BY <1>3, <1>4, <1>5, <3>1, LimiterAssumption DEF Time
  <2>2. ASSUME NEW d \in Clients \ {c}, entries'[d] # NoEntry
        PROVE  entries'[d].at <= clock /\ entries'[d].at <= entries'[d].lastSeen + MaxLag
    <3>1. entries'[d] = entries[d]
      BY <1>2, <1>5, <2>2
    <3>. QED
      BY <2>2, <3>1 DEF IInv, ChargedByMark
  <2>. QED
    BY <1>1, <2>1, <2>2 DEF ChargedByMark
<1>. QED
  BY <1>6, <1>7, <1>8, <1>9 DEF IInv

LEMMA TickInv ==
  ASSUME IInv, Tick
  PROVE  IInv'
<1>1. TypeOK'
  BY LimiterAssumption DEF IInv, TypeOK, Tick, Time
<1>2. WaitIsBounded'
  BY LimiterAssumption DEF IInv, TypeOK, WaitIsBounded, Tick, Time
<1>3. VerdictWhenDone'
  BY LimiterAssumption DEF IInv, TypeOK, VerdictWhenDone, Tick, Time
<1>4. ChargedByMark'
  <2>1. ASSUME NEW c \in Clients, entries[c] # NoEntry
        PROVE  entries[c].at <= clock + 1
    BY <2>1, LimiterAssumption DEF IInv, TypeOK, ChargedByMark, Time, Entry
  <2>. QED
    BY <2>1 DEF IInv, ChargedByMark, Tick
<1>. QED
  BY <1>1, <1>2, <1>3, <1>4 DEF IInv

LEMMA NextInv == IInv /\ [Next]_vars => IInv'
<1>1. ASSUME IInv, Next PROVE IInv'
  BY <1>1, ArriveInv, LimitInv, TickInv DEF Next
<1>2. ASSUME IInv, UNCHANGED vars PROVE IInv'
  BY <1>2 DEF vars, IInv, TypeOK, WaitIsBounded, VerdictWhenDone, ChargedByMark
<1>. QED
  BY <1>1, <1>2

\* Times and levels stay in their ranges, and every entry was charged at most MaxLag
\* after its mark: the times that the critical section compares are these.
THEOREM InvariantHolds == Spec => []IInv
BY InitInv, NextInv, PTL DEF Spec

-----------------------------------------------------------------------------
(* The refinement *)

\* A bucket holds at most Capacity.
LEMMA BucketInRange ==
  ASSUME IInv, NEW c \in Clients
  PROVE  Bucket(c) \in 0..Capacity
<1>1. CASE entries[c] = NoEntry
  BY <1>1, Sizes DEF Bucket
<1>2. CASE entries[c] # NoEntry
  BY <1>2, HeldInRange DEF Bucket, IInv, TypeOK, ChargedByMark
<1>. QED
  BY <1>1, <1>2

\* The heart of the matter: an entry that is evicted holds a full bucket.
LEMMA EvictedIsFull ==
  ASSUME IInv, NEW r \in Requests, pc[r] = "waiting", NEW d \in Clients,
         reading[r] - entries[d].lastSeen > 2 * Window
  PROVE  Bucket(d) = Capacity
<1>1. CASE entries[d] = NoEntry
  BY <1>1 DEF Bucket
<1>2. CASE entries[d] # NoEntry
  <2>1. entries[d] \in Entry /\ entries[d].at <= entries[d].lastSeen + MaxLag
    BY <1>2 DEF IInv, TypeOK, ChargedByMark
  <2>2. reading[r] <= clock /\ reading[r] \in Time /\ clock \in Time
    BY DEF IInv, TypeOK, WaitIsBounded
  <2>3. clock - entries[d].at > Window
    BY <2>1, <2>2, LimiterAssumption, LagAssumption DEF Entry, Time
  <2>4. ~(entries[d].level + (clock - entries[d].at) < Capacity)
    BY <2>1, <2>2, <2>3, Sizes, LimiterAssumption DEF Entry, Time
  <2>. QED
    BY <1>2, <2>4 DEF Bucket, Held
<1>. QED
  BY <1>1, <1>2

\* What a critical section does to the buckets: the client pays, and that is all.
LEMMA BucketOfLimit ==
  ASSUME IInv, NEW r \in Requests, Limit(r), NEW c \in Clients, c = client[r]
  PROVE  /\ \A d \in Clients \ {c} : Bucket(d)' = Bucket(d)
         /\ Bucket(c)' = IF Bucket(c) >= Interval THEN Bucket(c) - Interval ELSE Bucket(c)
         /\ verdict' = [verdict EXCEPT ![r] =
                          IF Bucket(c) >= Interval THEN "admitted" ELSE "refused"]
<1> DEFINE table == Evicted(Touched(c, reading[r]), reading[r])
           e == table[c]
<1>1. /\ pc[r] = "waiting"
      /\ entries' = [table EXCEPT ![c] = Paid(table[c])]
      /\ verdict' = [verdict EXCEPT ![r] =
                       IF Held(e) >= Interval THEN "admitted" ELSE "refused"]
      /\ clock' = clock
  BY DEF Limit
<1>2. /\ table \in [Clients -> Entry \union {NoEntry}]
      /\ c \in Clients
      /\ e \in Entry /\ e.at <= clock /\ Held(e) = Bucket(c)
      /\ \A d \in Clients \ {c} :
           \/ table[d] = entries[d]
           \/ table[d] = NoEntry /\ reading[r] - entries[d].lastSeen > 2 * Window
  BY <1>1, SectionEffect
<1>3. entries'[c] = Paid(e) /\ \A d \in Clients \ {c} : entries'[d] = table[d]
  BY <1>1, <1>2
<1>4. ASSUME NEW d \in Clients \ {c} PROVE Bucket(d)' = Bucket(d)
  <2>1. CASE table[d] = entries[d]
    BY <1>1, <1>3, <2>1 DEF Bucket, Held
  <2>2. CASE table[d] = NoEntry /\ reading[r] - entries[d].lastSeen > 2 * Window
    <3>1. Bucket(d) = Capacity
      BY <1>1, <2>2, EvictedIsFull
    <3>2. Bucket(d)' = Capacity
      BY <1>3, <2>2 DEF Bucket
    <3>. QED
      BY <3>1, <3>2
  <2>. QED
    BY <1>2, <2>1, <2>2
<1>5. Bucket(c)' = IF Bucket(c) >= Interval THEN Bucket(c) - Interval ELSE Bucket(c)
  <2>1. clock \in Time
    BY DEF IInv, TypeOK
  <2>2. Paid(e) \in Entry
         /\ Held(Paid(e)) = IF Held(e) >= Interval THEN Held(e) - Interval ELSE Held(e)
    BY <1>2, <2>1, PaidEffect
  <2>3. Bucket(c)' = Held(entries'[c])
    BY <1>1, <1>3, <2>2, EntryIsSome DEF Bucket, Held
  <2>4. Bucket(c)' = Held(Paid(e))
    BY <1>3, <2>3
  <2>. QED
    BY <1>2, <2>2, <2>4
<1>. QED
  BY <1>1, <1>2, <1>4, <1>5

\* What a tick does to them: all are refilled.
LEMMA BucketOfTick ==
  ASSUME IInv, Tick, NEW c \in Clients
  PROVE  Bucket(c)' = IF Bucket(c) < Capacity THEN Bucket(c) + 1 ELSE Capacity
<1>1. entries' = entries /\ clock' = clock + 1 /\ clock \in Time
  BY DEF Tick, IInv, TypeOK
<1>2. CASE entries[c] = NoEntry
  BY <1>1, <1>2, Sizes DEF Bucket
<1>3. CASE entries[c] # NoEntry
  <2>1. entries[c] \in Entry
    BY <1>3 DEF IInv, TypeOK
  <2>2. entries[c].level \in Int /\ entries[c].at \in Int /\ clock \in Int
    BY <1>1, <2>1, LimiterAssumption DEF Entry, Time
  <2>. QED
    BY <1>1, <1>3, <2>2, Sizes DEF Bucket, Held
<1>. QED
  BY <1>2, <1>3

\* The table of buckets that is marked late and evicted from implements TokenBucket.
THEOREM Refinement == Spec => ImplementsTokenBucket
<1> DEFINE map == [c \in Clients |-> Bucket(c)]
<1>1. Init => Contract!Init
  BY Sizes DEF Init, Contract!Init, Bucket
<1>2. ASSUME IInv, [Next]_vars PROVE [Contract!Next]_(Contract!vars)
  <2>1. CASE UNCHANGED vars
    BY <2>1 DEF vars, Contract!vars, Bucket, Held
  <2>2. CASE \E r \in Requests : Arrive(r)
    BY <2>2 DEF Arrive, Contract!vars, Bucket, Held
  <2>3. ASSUME NEW r \in Requests, Limit(r) PROVE Contract!Next
    <3>1. PICK c \in Clients : c = client[r] /\ verdict[r] = "none"
      BY <2>3, <1>2 DEF Limit, IInv, TypeOK, VerdictWhenDone
    <3>2. /\ \A d \in Clients \ {c} : Bucket(d)' = Bucket(d)
          /\ Bucket(c)' = IF Bucket(c) >= Interval THEN Bucket(c) - Interval ELSE Bucket(c)
          /\ verdict' = [verdict EXCEPT ![r] =
                           IF Bucket(c) >= Interval THEN "admitted" ELSE "refused"]
      BY <1>2, <2>3, <3>1, BucketOfLimit
    <3>3. Bucket(c) \in Int /\ Interval \in Int
      BY <1>2, <3>1, BucketInRange, Sizes
    <3>4. CASE Bucket(c) >= Interval
      <4>1. map' = [map EXCEPT ![c] = @ - Interval]
        BY <3>1, <3>2, <3>4
      <4>. QED
        BY <3>1, <3>2, <3>4, <4>1 DEF Contract!Next, Contract!Admit
    <3>5. CASE ~(Bucket(c) >= Interval)
      <4>1. map' = map
        BY <3>1, <3>2, <3>5
      <4>2. map[c] < Interval
        BY <3>1, <3>3, <3>5
      <4>. QED
        BY <3>1, <3>2, <3>5, <4>1, <4>2 DEF Contract!Next, Contract!Refuse
    <3>. QED
      BY <3>4, <3>5
  <2>4. ASSUME Tick PROVE Contract!Next
    <3>1. \A c \in Clients : Bucket(c)' = IF Bucket(c) < Capacity THEN Bucket(c) + 1 ELSE Capacity
      BY <1>2, <2>4, BucketOfTick
    <3>2. UNCHANGED verdict
      BY <2>4 DEF Tick
    <3>. QED
      BY <3>1, <3>2 DEF Contract!Next, Contract!Refill
  <2>. QED
    BY <1>2, <2>1, <2>2, <2>3, <2>4 DEF Next
<1>. QED
  BY <1>1, <1>2, InvariantHolds, PTL DEF Spec, ImplementsTokenBucket, Contract!Spec

-----------------------------------------------------------------------------
(* The budget *)

\* The price of what a client was admitted for.
Spent(c, from, to) == Cardinality(Admitted(c, from, to)) * Interval

\* In no span has a client spent more than the burst and what was refilled; in one that
\* ends now, what is left in its bucket counts as well.
WithinBudget ==
  \A c \in Clients, s \in Time :
    /\ s <= clock => Spent(c, s, clock) + Bucket(c) <= Capacity + (clock - s)
    /\ \A u \in Time : s <= u /\ u <= clock => Spent(c, s, u) <= Capacity + (u - s)

\* The converse: a bucket that is not full lacks only what its client spent since some
\* admission.
AllSpent ==
  \A c \in Clients :
    \/ Bucket(c) = Capacity
    \/ \E q \in Requests :
         /\ verdict[q] = "admitted" /\ client[q] = c
         /\ Spent(c, decided[q], clock) + Bucket(c) >= Capacity + (clock - decided[q])

\* RefusedOnlyOverBudget in terms of Spent.
RefusedWhenSpent ==
  \A r \in Requests :
    verdict[r] = "refused" =>
      \E q \in Requests :
        /\ verdict[q] = "admitted" /\ client[q] = client[r] /\ decided[q] <= decided[r]
        /\ Spent(client[r], decided[q], decided[r]) + Interval
             > Capacity + (decided[r] - decided[q])

BudgetInv == WithinBudget /\ AllSpent /\ RefusedWhenSpent

LEMMA SpentInNat ==
  ASSUME NEW c, NEW s, NEW u
  PROVE  /\ IsFiniteSet(Admitted(c, s, u))
         /\ Cardinality(Admitted(c, s, u)) \in Nat
         /\ Spent(c, s, u) \in Nat
<1>1. IsFiniteSet(Admitted(c, s, u))
  BY LimiterAssumption, FS_Subset DEF Admitted
<1>2. Cardinality(Admitted(c, s, u)) \in Nat
  BY <1>1, FS_CardinalityType
<1>. QED
  BY <1>1, <1>2, Sizes DEF Spent

\* One more admission costs one Interval.
LEMMA OneMore ==
  ASSUME NEW n \in Nat
  PROVE  (n + 1) * Interval = n * Interval + Interval /\ (1 + n) * Interval = n * Interval + Interval
BY Sizes

\* Spending depends on what the requests were answered, by nothing else.
LEMMA SpentUnchanged ==
  ASSUME UNCHANGED <<client, verdict, decided>>, NEW c, NEW s, NEW u
  PROVE  Spent(c, s, u)' = Spent(c, s, u)
BY DEF Spent, Admitted

LEMMA SpentByTick ==
  ASSUME IInv, Tick, NEW c \in Clients, NEW s \in Time
  PROVE  /\ s <= clock => Spent(c, s, clock)' = Spent(c, s, clock)
         /\ s = clock + 1 => Spent(c, s, clock)' = 0
<1>1. /\ clock' = clock + 1 /\ clock \in Int /\ s \in Int
      /\ UNCHANGED <<client, verdict, decided>>
      /\ decided \in [Requests -> Time]
      /\ \A r \in Requests : decided[r] <= clock /\ decided[r] \in Int
  BY LimiterAssumption DEF IInv, TypeOK, VerdictWhenDone, Tick, Time
<1>2. ASSUME s <= clock PROVE Spent(c, s, clock)' = Spent(c, s, clock)
  <2>1. \A r \in Requests : decided[r] \in s..(clock + 1) <=> decided[r] \in s..clock
    BY <1>1
  <2>2. Admitted(c, s, clock)' = Admitted(c, s, clock)
    BY <1>1, <2>1 DEF Admitted
  <2>. QED
    BY <2>2 DEF Spent
<1>3. ASSUME s = clock + 1 PROVE Spent(c, s, clock)' = 0
  <2>1. \A r \in Requests : decided[r] \notin s..(clock + 1)
    BY <1>1, <1>3
  <2>2. Admitted(c, s, clock)' = {}
    BY <1>1, <2>1 DEF Admitted
  <2>3. Spent(c, s, clock)' = 0 * Interval
    BY <2>2, FS_EmptySet DEF Spent
  <2>. QED
    BY <2>3, Sizes
<1>. QED
  BY <1>2, <1>3

LEMMA SpentByLimit ==
  ASSUME IInv, NEW r \in Requests, Limit(r), NEW c \in Clients, c = client[r],
         NEW d \in Clients, NEW s \in Time, NEW u \in Time
  PROVE  Spent(d, s, u)' = IF d = c /\ Bucket(c) >= Interval /\ clock \in s..u
                           THEN Spent(d, s, u) + Interval ELSE Spent(d, s, u)
<1>1. /\ verdict' = [verdict EXCEPT ![r] = IF Bucket(c) >= Interval THEN "admitted" ELSE "refused"]
      /\ decided' = [decided EXCEPT ![r] = clock]
      /\ client' = client
      /\ verdict[r] = "none"
      /\ verdict \in [Requests -> {"none", "admitted", "refused"}]
      /\ decided \in [Requests -> Time]
  BY BucketOfLimit DEF Limit, IInv, TypeOK, VerdictWhenDone
<1>2. r \notin Admitted(d, s, u)
  BY <1>1 DEF Admitted
<1>3. CASE d = c /\ Bucket(c) >= Interval /\ clock \in s..u
  <2>1. Admitted(d, s, u)' = Admitted(d, s, u) \union {r}
    BY <1>1, <1>3 DEF Admitted
  <2>2. Cardinality(Admitted(d, s, u) \union {r}) = Cardinality(Admitted(d, s, u)) + 1
    BY <1>2, SpentInNat, FS_AddElement
  <2>3. (Cardinality(Admitted(d, s, u)) + 1) * Interval = Spent(d, s, u) + Interval
    BY SpentInNat, OneMore DEF Spent
  <2>4. Spent(d, s, u)' = Cardinality(Admitted(d, s, u)') * Interval
    BY DEF Spent
  <2>. QED
    BY <1>3, <2>1, <2>2, <2>3, <2>4
<1>4. CASE ~(d = c /\ Bucket(c) >= Interval /\ clock \in s..u)
  <2>1. Admitted(d, s, u)' = Admitted(d, s, u)
    BY <1>1, <1>4 DEF Admitted
  <2>. QED
    BY <1>4, <2>1 DEF Spent
<1>. QED
  BY <1>3, <1>4

-----------------------------------------------------------------------------
LEMMA InitBudget == Init => BudgetInv
<1> SUFFICES ASSUME Init PROVE BudgetInv
  OBVIOUS
<1>1. \A c \in Clients : Bucket(c) = Capacity
  BY DEF Init, Bucket
<1>2. ASSUME NEW c, NEW s, NEW u PROVE Spent(c, s, u) = 0
  <2>1. Admitted(c, s, u) = {}
    BY DEF Init, Admitted
  <2>2. Spent(c, s, u) = 0 * Interval
    BY <2>1, FS_EmptySet DEF Spent
  <2>. QED
    BY <2>2, Sizes
<1>3. WithinBudget
  BY <1>1, <1>2, Sizes, LimiterAssumption DEF Init, WithinBudget, Time
<1>4. AllSpent /\ RefusedWhenSpent
  BY <1>1 DEF Init, AllSpent, RefusedWhenSpent
<1>. QED
  BY <1>3, <1>4 DEF BudgetInv

\* Steps that leave clock, buckets and verdicts alone.
LEMMA IdleBudget ==
  ASSUME BudgetInv, UNCHANGED <<clock, entries, client, verdict, decided>>
  PROVE  BudgetInv'
<1>1. \A c \in Clients : Bucket(c)' = Bucket(c)
  BY DEF Bucket, Held
<1>2. \A c, s, u : Spent(c, s, u)' = Spent(c, s, u)
  BY SpentUnchanged
<1>3. \A c, s : Spent(c, s, clock)' = Spent(c, s, clock)
  BY DEF Spent, Admitted
<1>4. \A q : \A c : Spent(c, decided[q], clock)' = Spent(c, decided[q], clock)
  BY DEF Spent, Admitted
<1>5. \A q, r : Spent(client[r], decided[q], decided[r])' = Spent(client[r], decided[q], decided[r])
  BY DEF Spent, Admitted
<1>6. WithinBudget'
  BY <1>1, <1>2, <1>3 DEF BudgetInv, WithinBudget
<1>7. AllSpent'
  BY <1>1, <1>4 DEF BudgetInv, AllSpent
<1>8. RefusedWhenSpent'
  BY <1>5 DEF BudgetInv, RefusedWhenSpent
<1>. QED
  BY <1>6, <1>7, <1>8 DEF BudgetInv

LEMMA TickBudget ==
  ASSUME IInv, BudgetInv, Tick
  PROVE  BudgetInv'
<1>1. /\ clock' = clock + 1 /\ clock \in Time /\ clock + 1 \in Time
      /\ UNCHANGED <<client, verdict, decided>>
      /\ \A r \in Requests : decided[r] <= clock /\ decided[r] \in Time
  BY LimiterAssumption DEF IInv, TypeOK, VerdictWhenDone, Tick, Time
<1>2. \A c \in Clients : /\ Bucket(c) \in 0..Capacity
                         /\ Bucket(c)' = IF Bucket(c) < Capacity THEN Bucket(c) + 1 ELSE Capacity
  BY BucketInRange, BucketOfTick
<1>3. WithinBudget'
  <2> SUFFICES ASSUME NEW c \in Clients, NEW s \in Time
               PROVE  /\ s <= clock' => Spent(c, s, clock)' + Bucket(c)' <= Capacity + (clock' - s)
                      /\ \A u \in Time : s <= u /\ u <= clock' => Spent(c, s, u)' <= Capacity + (u - s)
    BY DEF WithinBudget
  <2>1. \A t : Spent(c, s, t) \in Nat
    BY SpentInNat
  <2>2. /\ s <= clock => Spent(c, s, clock)' = Spent(c, s, clock)
        /\ s = clock + 1 => Spent(c, s, clock)' = 0
    BY SpentByTick
  <2>3. s <= clock => Spent(c, s, clock) + Bucket(c) <= Capacity + (clock - s)
    BY DEF BudgetInv, WithinBudget
  <2>4. /\ clock \in Int /\ s \in Int /\ Capacity \in Int /\ Bucket(c) \in Int
        /\ clock' = clock + 1
    BY <1>1, <1>2, Sizes DEF Time
  <2>5. s <= clock' => Spent(c, s, clock)' + Bucket(c)' <= Capacity + (clock' - s)
    <3>1. CASE s <= clock
      BY <1>2, <2>1, <2>2, <2>3, <2>4, <3>1
    <3>2. CASE s = clock + 1
      BY <1>2, <2>2, <2>4, <3>2
    <3>. QED
      BY <2>4, <3>1, <3>2
  <2>6. ASSUME NEW u \in Time, s <= u, u <= clock'
        PROVE  Spent(c, s, u)' <= Capacity + (u - s)
    <3>1. CASE u <= clock
      BY <1>1, <2>6, <3>1, SpentUnchanged DEF BudgetInv, WithinBudget
    <3>2. CASE u = clock + 1
      <4>1. Spent(c, s, u)' = Spent(c, s, clock)'
        BY <1>1, <3>2 DEF Spent, Admitted
      <4>2. Spent(c, s, clock)' \in Nat
        BY <1>1, <2>1, <2>2, <2>4, <2>6, <3>2
      <4>3. Bucket(c)' \in Nat
        BY <1>2, <2>4
      <4>. QED
        BY <2>4, <2>5, <2>6, <3>2, <4>1, <4>2, <4>3
    <3>. QED
      BY <2>4, <2>6, <3>1, <3>2 DEF Time
  <2>. QED
    BY <2>5, <2>6
<1>4. AllSpent'
  <2>1. client' = client /\ verdict' = verdict /\ decided' = decided
    BY <1>1
  <2> SUFFICES ASSUME NEW c \in Clients, Bucket(c)' # Capacity
               PROVE  \E q \in Requests :
                        /\ verdict[q] = "admitted" /\ client[q] = c
                        /\ Spent(c, decided[q], clock)' + Bucket(c)' >= Capacity + (clock' - decided[q])
    BY <2>1 DEF AllSpent
  <2>2. Bucket(c) < Capacity /\ Bucket(c)' = Bucket(c) + 1
    BY <1>2
  <2>3. PICK q \in Requests :
          /\ verdict[q] = "admitted" /\ client[q] = c
          /\ Spent(c, decided[q], clock) + Bucket(c) >= Capacity + (clock - decided[q])
    BY <1>2, <2>2, Sizes DEF BudgetInv, AllSpent
  <2>4. PICK s \in Time : s = decided[q]
    BY <1>1
  <2>5. Spent(c, s, clock)' = Spent(c, s, clock) /\ Spent(c, s, clock) \in Nat
    BY <1>1, <2>4, SpentByTick, SpentInNat
  <2>6. Spent(c, decided[q], clock)' = Spent(c, s, clock)'
    BY <1>1, <2>4 DEF Spent, Admitted
  <2>7. /\ Bucket(c) \in Int /\ clock \in Int /\ s \in Int /\ Capacity \in Int
        /\ clock' = clock + 1
    BY <1>1, <1>2, Sizes DEF Time
  <2>8. Spent(c, s, clock)' + Bucket(c)' >= Capacity + (clock' - s)
    BY <2>2, <2>3, <2>4, <2>5, <2>7
  <2>. QED
    BY <2>3, <2>4, <2>6, <2>8
<1>5. RefusedWhenSpent'
  <2>1. \A q, r : Spent(client[r], decided[q], decided[r])' = Spent(client[r], decided[q], decided[r])
    BY <1>1 DEF Spent, Admitted
  <2>2. client' = client /\ verdict' = verdict /\ decided' = decided
    BY <1>1
  <2>. QED
    BY <2>1, <2>2 DEF BudgetInv, RefusedWhenSpent
<1>. QED
  BY <1>3, <1>4, <1>5 DEF BudgetInv

LEMMA LimitBudget ==
  ASSUME IInv, BudgetInv, NEW r \in Requests, Limit(r)
  PROVE  BudgetInv'
<1>1. PICK c \in Clients : c = client[r]
  BY DEF IInv, TypeOK
<1>2. /\ clock' = clock /\ clock \in Time /\ client' = client
      /\ verdict' = [verdict EXCEPT ![r] = IF Bucket(c) >= Interval THEN "admitted" ELSE "refused"]
      /\ decided' = [decided EXCEPT ![r] = clock]
      /\ verdict[r] = "none"
      /\ verdict \in [Requests -> {"none", "admitted", "refused"}]
      /\ decided \in [Requests -> Time]
      /\ client \in [Requests -> Clients]
      /\ \A q \in Requests : decided[q] <= clock
  BY <1>1, BucketOfLimit DEF Limit, IInv, TypeOK, VerdictWhenDone
<1>3. /\ \A d \in Clients : Bucket(d) \in 0..Capacity
      /\ \A d \in Clients \ {c} : Bucket(d)' = Bucket(d)
      /\ Bucket(c)' = IF Bucket(c) >= Interval THEN Bucket(c) - Interval ELSE Bucket(c)
  BY <1>1, BucketInRange, BucketOfLimit
<1>4. \A d \in Clients, s, u \in Time :
        Spent(d, s, u)' = IF d = c /\ Bucket(c) >= Interval /\ clock \in s..u
                          THEN Spent(d, s, u) + Interval ELSE Spent(d, s, u)
  BY <1>1, SpentByLimit
<1>5. \A d, s, u : Spent(d, s, u) \in Nat
  BY SpentInNat
<1>6. clock \in Int /\ Interval \in Nat \ {0} /\ Capacity \in Nat /\ Interval <= Capacity /\ Time \subseteq Int
  BY <1>2, Sizes DEF Time
<1>7. \A d \in Clients, s \in Time : Spent(d, s, clock)' =
        IF d = c /\ Bucket(c) >= Interval /\ s <= clock
        THEN Spent(d, s, clock) + Interval ELSE Spent(d, s, clock)
  <2> SUFFICES ASSUME NEW d \in Clients, NEW s \in Time
               PROVE  Spent(d, s, clock)' =
                        IF d = c /\ Bucket(c) >= Interval /\ s <= clock
                        THEN Spent(d, s, clock) + Interval ELSE Spent(d, s, clock)
    OBVIOUS
  <2>1. PICK u \in Time : u = clock
    BY <1>2
  <2>2. Spent(d, s, clock)' = Spent(d, s, u)'
    BY <1>2, <2>1 DEF Spent, Admitted
  <2>. QED
    BY <1>4, <1>6, <2>1, <2>2
<1>8. WithinBudget'
  <2> SUFFICES ASSUME NEW d \in Clients, NEW s \in Time
               PROVE  /\ s <= clock => Spent(d, s, clock)' + Bucket(d)' <= Capacity + (clock - s)
                      /\ \A u \in Time : s <= u /\ u <= clock => Spent(d, s, u)' <= Capacity + (u - s)
    BY <1>2 DEF WithinBudget
  <2>1. s <= clock => Spent(d, s, clock) + Bucket(d) <= Capacity + (clock - s)
    BY DEF BudgetInv, WithinBudget
  <2>2. s \in Int /\ Bucket(d) \in Int /\ Bucket(c) \in Int
    BY <1>3, <1>6
  <2>3. s <= clock => Spent(d, s, clock)' + Bucket(d)' <= Capacity + (clock - s)
    BY <1>3, <1>5, <1>6, <1>7, <2>1, <2>2
  <2>4. ASSUME NEW u \in Time, s <= u, u <= clock
        PROVE  Spent(d, s, u)' <= Capacity + (u - s)
    <3>1. CASE u = clock
      <4>1. Spent(d, s, u)' = Spent(d, s, clock)'
        BY <1>2, <3>1 DEF Spent, Admitted
      <4>2. Bucket(d)' \in Int /\ Bucket(d)' >= 0
        BY <1>3, <1>6, <2>2
      <4>3. Spent(d, s, clock)' \in Int
        BY <1>5, <1>6, <1>7
      <4>. QED
        BY <1>6, <2>2, <2>3, <2>4, <3>1, <4>1, <4>2, <4>3
    <3>2. CASE u # clock
      <4>1. Spent(d, s, u)' = Spent(d, s, u)
        BY <1>4, <1>6, <2>4, <3>2
      <4>. QED
        BY <2>4, <4>1 DEF BudgetInv, WithinBudget
    <3>. QED
      BY <3>1, <3>2
  <2>. QED
    BY <2>3, <2>4
<1>9. AllSpent'
  <2> SUFFICES ASSUME NEW d \in Clients, Bucket(d)' # Capacity
               PROVE  \E q \in Requests :
                        /\ verdict'[q] = "admitted" /\ client'[q] = d
                        /\ Spent(d, decided[q], clock)' + Bucket(d)' >= Capacity + (clock - decided'[q])
    BY <1>2 DEF AllSpent
  <2>1. CASE Bucket(d) # Capacity
    <3>1. PICK q \in Requests :
            /\ verdict[q] = "admitted" /\ client[q] = d
            /\ Spent(d, decided[q], clock) + Bucket(d) >= Capacity + (clock - decided[q])
      BY <2>1 DEF BudgetInv, AllSpent
    <3>2. PICK s \in Time : s = decided[q] /\ s <= clock /\ s \in Int
      BY <1>2, <1>6
    <3>3. q # r /\ verdict'[q] = "admitted" /\ client'[q] = d /\ decided'[q] = s
      BY <1>2, <3>1, <3>2
    <3>4. Spent(d, s, clock)' + Bucket(d)' = Spent(d, s, clock) + Bucket(d)
      BY <1>3, <1>5, <1>6, <1>7, <3>2
    <3>5. Spent(d, decided[q], clock)' = Spent(d, s, clock)'
      BY <3>3
    <3>. QED
      BY <3>1, <3>2, <3>3, <3>4, <3>5
  <2>2. CASE Bucket(d) = Capacity
    <3>1. d = c /\ Bucket(c) >= Interval /\ Bucket(d)' = Capacity - Interval
      BY <1>3, <1>6, <2>2
    <3>2. verdict'[r] = "admitted" /\ client'[r] = d /\ decided'[r] = clock
      BY <1>1, <1>2, <3>1
    <3>3. Spent(d, clock, clock)' = Spent(d, clock, clock) + Interval
      BY <1>2, <1>6, <1>7, <3>1
    <3>4. PICK s \in Time : s = clock
      BY <1>2
    <3>5. Spent(d, s, clock)' + Bucket(d)' >= Capacity + (clock - s)
      BY <1>5, <1>6, <1>7, <3>1, <3>4
    <3>. QED
      BY <3>2, <3>4, <3>5
  <2>. QED
    BY <2>1, <2>2
<1>10. RefusedWhenSpent'
  <2> SUFFICES ASSUME NEW p \in Requests, verdict'[p] = "refused"
               PROVE  \E q \in Requests :
                        /\ verdict'[q] = "admitted" /\ client'[q] = client'[p]
                        /\ decided'[q] <= decided'[p]
                        /\ Spent(client[p], decided[q], decided[p])' + Interval
                             > Capacity + (decided'[p] - decided'[q])
    BY DEF RefusedWhenSpent
  <2>1. CASE p # r
    <3>1. verdict[p] = "refused" /\ decided'[p] = decided[p]
      BY <1>2, <2>1
    <3>2. PICK q \in Requests :
            /\ verdict[q] = "admitted" /\ client[q] = client[p] /\ decided[q] <= decided[p]
            /\ Spent(client[p], decided[q], decided[p]) + Interval > Capacity + (decided[p] - decided[q])
      BY <3>1 DEF BudgetInv, RefusedWhenSpent
    <3>3. q # r /\ verdict'[q] = "admitted" /\ client' = client /\ decided'[q] = decided[q]
      BY <1>2, <3>2
    <3>4. PICK d \in Clients, s \in Time, u \in Time : d = client[p] /\ s = decided[q] /\ u = decided[p]
      BY <1>2
    <3>5. Spent(client[p], decided[q], decided[p])' = Spent(d, s, u)'
      BY <3>1, <3>3, <3>4 DEF Spent, Admitted
    <3>6. Spent(d, s, u)' >= Spent(d, s, u) /\ Spent(d, s, u)' \in Nat /\ Spent(d, s, u) \in Nat
      BY <1>4, <1>5, <1>6
    <3>. QED
      BY <1>6, <3>1, <3>2, <3>3, <3>4, <3>5, <3>6
  <2>2. CASE p = r
    <3>1. Bucket(c) < Interval
      BY <1>2, <1>3, <1>6, <2>2
    <3>2. PICK q \in Requests :
            /\ verdict[q] = "admitted" /\ client[q] = c
            /\ Spent(c, decided[q], clock) + Bucket(c) >= Capacity + (clock - decided[q])
      BY <1>3, <1>6, <3>1 DEF BudgetInv, AllSpent
    <3>3. /\ q # r /\ verdict'[q] = "admitted" /\ client'[q] = client'[r]
          /\ decided'[q] = decided[q] /\ decided[q] <= clock /\ decided'[r] = clock
      BY <1>1, <1>2, <3>2
    <3>4. PICK s \in Time : s = decided[q]
      BY <1>2
    <3>5. Spent(client[r], decided[q], decided[r])' = Spent(c, s, clock)'
      BY <1>1, <1>2, <3>3, <3>4 DEF Spent, Admitted
    <3>6. Spent(c, s, clock)' = Spent(c, s, clock) /\ Spent(c, s, clock) \in Nat
      BY <1>3, <1>5, <1>6, <1>7, <3>1
    <3>. QED
      BY <1>3, <1>6, <2>2, <3>1, <3>2, <3>3, <3>4, <3>5, <3>6
  <2>. QED
    BY <2>1, <2>2
<1>. QED
  BY <1>8, <1>9, <1>10 DEF BudgetInv

LEMMA NextBudget == IInv /\ BudgetInv /\ [Next]_vars => BudgetInv'
<1>1. ASSUME BudgetInv, UNCHANGED vars PROVE BudgetInv'
  BY <1>1, IdleBudget DEF vars
<1>2. ASSUME BudgetInv, NEW r \in Requests, Arrive(r) PROVE BudgetInv'
  BY <1>2, IdleBudget DEF Arrive
<1>. QED
  BY <1>1, <1>2, LimitBudget, TickBudget DEF Next

LEMMA BudgetInvHolds == Spec => []BudgetInv
BY InvariantHolds, InitBudget, NextBudget, PTL DEF Spec

\* No client exceeds its budget in any span of time, whatever is evicted meanwhile.
THEOREM BudgetRespectedCorrect == Spec => []BudgetRespected
<1>1. ASSUME IInv, BudgetInv PROVE BudgetRespected
  <2> SUFFICES ASSUME NEW q \in Requests, NEW r \in Requests,
                      client[q] = client[r], decided[r] - decided[q] >= 0
               PROVE  Cardinality(Admitted(client[r], decided[q], decided[r])) * Interval
                        <= Capacity + (decided[r] - decided[q])
    BY DEF BudgetRespected
  <2>1. /\ client[r] \in Clients /\ decided[q] \in Time /\ decided[r] \in Time
        /\ decided[r] <= clock
    BY <1>1 DEF IInv, TypeOK, VerdictWhenDone
  <2>2. decided[q] <= decided[r]
    BY <2>1 DEF Time
  <2>. QED
    BY <1>1, <2>1, <2>2 DEF BudgetInv, WithinBudget, Spent
<1>. QED
  BY <1>1, InvariantHolds, BudgetInvHolds, PTL

\* No request is refused that its client's budget had room for.
THEOREM RefusedOnlyOverBudgetCorrect == Spec => []RefusedOnlyOverBudget
<1>1. ASSUME IInv, BudgetInv PROVE RefusedOnlyOverBudget
  <2> SUFFICES ASSUME NEW r \in Requests, verdict[r] = "refused"
               PROVE  \E q \in Requests :
                        /\ verdict[q] = "admitted" /\ client[q] = client[r]
                        /\ decided[q] <= decided[r]
                        /\ (1 + Cardinality(Admitted(client[r], decided[q], decided[r]))) * Interval
                             > Capacity + (decided[r] - decided[q])
    BY DEF RefusedOnlyOverBudget
  <2>1. PICK q \in Requests :
          /\ verdict[q] = "admitted" /\ client[q] = client[r] /\ decided[q] <= decided[r]
          /\ Spent(client[r], decided[q], decided[r]) + Interval > Capacity + (decided[r] - decided[q])
    BY <1>1 DEF BudgetInv, RefusedWhenSpent
  <2>2. (1 + Cardinality(Admitted(client[r], decided[q], decided[r]))) * Interval
          = Spent(client[r], decided[q], decided[r]) + Interval
    BY SpentInNat, OneMore DEF Spent
  <2>. QED
    BY <2>1, <2>2
<1>. QED
  BY <1>1, InvariantHolds, BudgetInvHolds, PTL
=============================================================================
