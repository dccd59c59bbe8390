--------------------------- MODULE IdempotencyProofs ---------------------------
(***************************************************************************)
(* Proofs about Idempotency, for every number of requests, identifiers and *)
(* payloads, and for every TTL, clock bound and number of restarts.        *)
(*                                                                         *)
(* Typing and InFlightHasRunner hold whatever the TTL.  The rest needs     *)
(* MaxLag <= TTL: a request leaves its last critical section before its    *)
(* record can expire.  Then a running request still owns the record under  *)
(* its identifier (RunnerOwnsKey), so what it completes or deletes there   *)
(* is its own, and no completed record is ever written again.              *)
(* The refinement of IdempotencyContract comes last and rests on the same  *)
(* invariant.                                                              *)
(***************************************************************************)
EXTENDS Idempotency, TLAPS

\* A request in the store or past Arrive has its identifier and its hash.
Identified ==
    \A r \in Requests :
        pc[r] \in {"waiting", "running", "replaying"} =>
            rid[r] \in RecordIds /\ hash[r] \in Hashes

\* A record describes the request that created it, which has left the first section.
RecordOfCreator ==
    \A x \in Requests :
        rec[x] # None =>
            /\ pc[x] \in {"running", "answered"}
            /\ rid[x] \in RecordIds
            /\ rec[x].bodyHash = hash[x]
            /\ rec[x].createdAt = now[x]

\* What the store points to is a record, filed under the identifier of its creator.
StoredUnderId ==
    \A id \in RecordIds :
        store[id] # None => rec[store[id]] # None /\ rid[store[id]] = id

\* A replaying request points to a record.
ReplayerHasRecord ==
    \A r \in Requests :
        pc[r] = "replaying" => existing[r] \in Requests /\ rec[existing[r]] # None

\* A request has read the clock in the past, and not long ago if it is in the store.
BoundedLag ==
    \A r \in Requests :
        /\ now[r] <= clock
        /\ pc[r] \in {"waiting", "running"} => clock - now[r] <= MaxLag

\* The record that a running request will find is the one it created.
RunnerOwnsKey ==
    \A r \in Requests :
        pc[r] = "running" => store[rid[r]] = r /\ rec[r] # None /\ rec[r].inFlight

\* A completed record holds the response of its creator, which has finished.
CompletedByCreator ==
    \A x \in Requests :
        rec[x] # None /\ ~rec[x].inFlight =>
            pc[x] = "answered" /\ rec[x].response \in {x, Empty}

\* x completed under the key and payload of r, at most a TTL before r.
Matches(x, r) ==
    /\ x \in Requests
    /\ pc[x] # "idle"
    /\ rid[x] = rid[r]
    /\ hash[x] = hash[r]
    /\ now[r] - now[x] <= TTL

\* The record of a replaying request is completed and matches it.
ReplayerMatches ==
    \A r \in Requests :
        pc[r] = "replaying" =>
            Matches(existing[r], r) /\ ~rec[existing[r]].inFlight

\* ... and once it is answered, what it was answered does.
ReplayedMatches ==
    \A r \in Requests :
        out[r].kind = "replay" =>
            /\ pc[r] \in {"answered", "dead"}
            /\ Matches(existing[r], r)
            /\ out[r].body \in {existing[r], Empty}

\* Inductive without any assumption on the TTL.
BaseInv ==
    /\ TypeOK
    /\ Identified
    /\ RecordOfCreator
    /\ StoredUnderId
    /\ ReplayerHasRecord
    /\ InFlightHasRunner

\* Inductive when MaxLag <= TTL.
IInv ==
    /\ BaseInv
    /\ BoundedLag
    /\ RunnerOwnsKey
    /\ CompletedByCreator
    /\ CompletedIsKept
    /\ ReplayerMatches
    /\ ReplayedMatches

--------------------------------------------------------------------------------
(* Lemmas about the critical sections *)

\* Eviction only takes records out of the store.
LEMMA EvictionShrinks ==
    ASSUME TypeOK, NEW t
    PROVE  /\ AfterEviction(t) \in [RecordIds -> Requests \cup {None}]
           /\ \A id \in RecordIds : AfterEviction(t)[id] \in {store[id], None}
BY DEF AfterEviction, TypeOK

\* Storing a response changes the record under r's identifier, if there is one, and of
\* that record only the response and the flag.
LEMMA StoreResponseEffect ==
    ASSUME BaseInv, NEW r \in Requests, pc[r] = "running",
           NEW body \in Bodies, StoreResponse(r, body)
    PROVE  /\ rec' \in [Requests -> Record \cup {None}]
           /\ store' = store
           /\ \A x \in Requests : x # store[rid[r]] => rec'[x] = rec[x]
           /\ store[rid[r]] # None =>
                /\ rec'[store[rid[r]]].bodyHash = rec[store[rid[r]]].bodyHash
                /\ rec'[store[rid[r]]].createdAt = rec[store[rid[r]]].createdAt
                /\ rec'[store[rid[r]]].response = body
                /\ ~rec'[store[rid[r]]].inFlight
           /\ \A x \in Requests : rec[x] = None <=> rec'[x] = None
<1> DEFINE h == store[rid[r]]
<1>1. rec \in [Requests -> Record \cup {None}] /\ h \in Requests \cup {None}
  BY DEF BaseInv, TypeOK, Identified
<1>2. h # None => rec[h] \in Record
  BY <1>1 DEF BaseInv, StoredUnderId, Identified
<1>3. CASE h = None
  BY <1>1, <1>3, IdempotencyAssumption DEF StoreResponse
<1>4. CASE h # None
  <2>1. rec' = [rec EXCEPT ![h] = [rec[h] EXCEPT !.response = body, !.inFlight = FALSE]]
    BY <1>1, <1>2, <1>4 DEF StoreResponse
  <2>2. [rec[h] EXCEPT !.response = body, !.inFlight = FALSE] \in Record
    BY <1>2, <1>4 DEF Record
  <2>3. rec'[h] = [rec[h] EXCEPT !.response = body, !.inFlight = FALSE]
    BY <1>1, <1>4, <2>1
  <2>4. /\ rec'[h].bodyHash = rec[h].bodyHash
        /\ rec'[h].createdAt = rec[h].createdAt
        /\ rec'[h].response = body
        /\ ~rec'[h].inFlight
    BY <1>2, <1>4, <2>3 DEF Record
  <2>5. store' = store
    BY DEF StoreResponse
  <2>6. rec' \in [Requests -> Record \cup {None}]
    BY <1>1, <1>4, <2>1, <2>2
  <2>7. \A x \in Requests : x # h => rec'[x] = rec[x]
    BY <1>1, <2>1
  <2>8. rec[h] # None /\ rec'[h] # None
    BY <1>2, <1>4, <2>2, <2>3, NilAssumption DEF Record
  <2>9. \A x \in Requests : rec[x] = None <=> rec'[x] = None
    BY <2>7, <2>8
  <2> QED
    BY <2>4, <2>5, <2>6, <2>7, <2>9
<1> QED
  BY <1>3, <1>4

--------------------------------------------------------------------------------
(* Typing, and the truth of REQUEST_IN_PROCESS *)

LEMMA BaseInit == Init => BaseInv
BY IdempotencyAssumption DEF Init, BaseInv, TypeOK, Identified, RecordOfCreator,
   StoredUnderId, ReplayerHasRecord, InFlightHasRunner, NoAnswer, Answer, Answers, Kinds

\* Steps that leave the store and the records alone.
LEMMA BaseOutside ==
    ASSUME BaseInv, NEW r \in Requests,
           RejectHeaders(r) \/ Arrive(r) \/ Deliver(r) \/ Timeout(r) \/ Replay(r)
    PROVE  BaseInv'
<1> USE DEF BaseInv, RejectHeaders, Arrive, Deliver, Timeout, Replay, storeVars, requestVars
<1>1. TypeOK'
  <2>1. CASE Replay(r)
    <3>1. rec[existing[r]].response \in Bodies \cup {None}
      BY <2>1 DEF TypeOK, ReplayerHasRecord, Record
    <3>2. Answer("replay", rec[existing[r]].response) \in Answers
      BY <3>1 DEF Answer, Answers, Kinds
    <3> QED
      BY <2>1, <3>2 DEF TypeOK
  <2>2. CASE RejectHeaders(r)
    BY <2>2 DEF TypeOK, Answer, Answers, Kinds
  <2>3. CASE Arrive(r)
    BY <2>3 DEF TypeOK
  <2>4. CASE Deliver(r)
    BY <2>4 DEF TypeOK
  <2>5. CASE Timeout(r)
    BY <2>5 DEF TypeOK, Answer, Answers, Kinds
  <2> QED
    BY <2>1, <2>2, <2>3, <2>4, <2>5
<1>2. Identified' /\ ReplayerHasRecord' /\ StoredUnderId'
  BY DEF Identified, ReplayerHasRecord, StoredUnderId, RecordOfCreator, TypeOK
<1>3. RecordOfCreator' /\ InFlightHasRunner'
  BY DEF RecordOfCreator, InFlightHasRunner, StoredUnderId, TypeOK
<1> QED
  BY <1>1, <1>2, <1>3

LEMMA BaseEnter ==
    ASSUME BaseInv, NEW r \in Requests, Enter(r)
    PROVE  BaseInv'
<1> USE IdempotencyAssumption, NilAssumption DEF BaseInv
<1> DEFINE kept == AfterEviction(now[r])
<1>1. /\ kept \in [RecordIds -> Requests \cup {None}]
      /\ \A id \in RecordIds : kept[id] \in {store[id], None}
  BY EvictionShrinks
<1>2. rid[r] \in RecordIds /\ hash[r] \in Hashes /\ pc[r] = "waiting"
  BY DEF Enter, Execute, RefuseDuplicate, RefuseInProcess, BeginReplay, Identified
<1>3. rec[r] = None
  BY <1>2 DEF RecordOfCreator
<1> HIDE DEF kept
<1>4. CASE Execute(r)
  <2>1. /\ store' = [kept EXCEPT ![rid[r]] = r]
        /\ rec' = [rec EXCEPT ![r] = [bodyHash |-> hash[r], inFlight |-> TRUE,
                                      response |-> None, createdAt |-> now[r]]]
        /\ pc' = [pc EXCEPT ![r] = "running"]
        /\ decision' = [decision EXCEPT ![r] = "execute"]
        /\ UNCHANGED <<clock, rid, hash, now, existing, out, reply, collector, restarts>>
    BY <1>4 DEF Execute, requestVars, kept
  <2>2. [bodyHash |-> hash[r], inFlight |-> TRUE, response |-> None, createdAt |-> now[r]]
            \in Record
    BY <1>2 DEF TypeOK, Record
  <2>3. TypeOK'
    BY <1>1, <1>2, <2>1, <2>2 DEF TypeOK
  <2>4. Identified' /\ RecordOfCreator' /\ ReplayerHasRecord'
    BY <1>2, <1>3, <2>1 DEF TypeOK, Identified, RecordOfCreator, ReplayerHasRecord
  <2>5. \A id \in RecordIds : \/ id = rid[r] /\ store'[id] = r
                              \/ store'[id] = None
                              \/ store'[id] = store[id] /\ store[id] # r
    BY <1>1, <1>2, <1>3, <2>1 DEF StoredUnderId
  <2>6. rec'[r] # None /\ \A x \in Requests : x # r => rec'[x] = rec[x] /\ pc'[x] = pc[x]
    BY <2>1, <2>2 DEF TypeOK
  <2>7. StoredUnderId'
    BY <2>1, <2>5, <2>6 DEF TypeOK, StoredUnderId
  <2>8. InFlightHasRunner'
    BY <2>1, <2>5, <2>6 DEF TypeOK, InFlightHasRunner
  <2> QED
    BY <2>3, <2>4, <2>7, <2>8
<1>5. ASSUME NEW kind \in {"duplicated", "inProcess"}, Refuse(r, kind) PROVE BaseInv'
  <2>1. store' = kept /\ pc' = [pc EXCEPT ![r] = "answered"]
    BY <1>5 DEF Refuse, kept
  <2>2. TypeOK'
    <3>1. out' \in [Requests -> Answers] /\ collector' \in [replays : Nat, conflicts : Nat]
      BY <1>5 DEF Refuse, TypeOK, Answer, Answers, Kinds
    <3> QED
      BY <1>1, <1>5, <2>1, <3>1 DEF Refuse, TypeOK, requestVars
  <2>3. Identified' /\ RecordOfCreator' /\ ReplayerHasRecord'
    BY <1>2, <1>3, <1>5, <2>1
       DEF Refuse, requestVars, TypeOK, Identified, RecordOfCreator, ReplayerHasRecord
  <2>4. StoredUnderId' /\ InFlightHasRunner'
    BY <1>1, <1>2, <1>5, <2>1
       DEF Refuse, requestVars, TypeOK, StoredUnderId, InFlightHasRunner
  <2> QED
    BY <2>2, <2>3, <2>4
<1>6. CASE BeginReplay(r)
  <2>1. /\ store' = kept
        /\ pc' = [pc EXCEPT ![r] = "replaying"]
        /\ existing' = [existing EXCEPT ![r] = kept[rid[r]]]
        /\ kept[rid[r]] # None
    BY <1>6 DEF BeginReplay, Found, kept
  <2>2. kept[rid[r]] \in Requests /\ rec[kept[rid[r]]] # None
    BY <1>1, <1>2, <2>1 DEF StoredUnderId
  <2>3. TypeOK'
    BY <1>1, <1>6, <2>1, <2>2 DEF BeginReplay, TypeOK, requestVars
  <2>4. Identified' /\ RecordOfCreator' /\ ReplayerHasRecord'
    BY <1>2, <1>3, <1>6, <2>1, <2>2
       DEF BeginReplay, requestVars, TypeOK, Identified, RecordOfCreator, ReplayerHasRecord
  <2>5. StoredUnderId' /\ InFlightHasRunner'
    BY <1>1, <1>2, <1>6, <2>1
       DEF BeginReplay, requestVars, TypeOK, StoredUnderId, InFlightHasRunner
  <2> QED
    BY <2>3, <2>4, <2>5
<1> QED
  BY <1>4, <1>5, <1>6 DEF Enter, RefuseDuplicate, RefuseInProcess

\* The second critical section, for a response that is stored.
LEMMA BaseStore ==
    ASSUME BaseInv, NEW r \in Requests, NEW kind \in {"ok", "error"},
           NEW body \in Bodies, NEW told \in Bodies \cup {None},
           Finish(r, Answer(kind, told)), StoreResponse(r, body)
    PROVE  BaseInv'
<1> USE DEF BaseInv
<1>1. pc[r] = "running" /\ rid[r] \in RecordIds
  BY DEF Finish, Identified
<1>2. /\ pc' = [pc EXCEPT ![r] = "answered"]
      /\ UNCHANGED <<clock, rid, hash, now, decision, existing, reply, collector, restarts>>
      /\ out' = [out EXCEPT ![r] = Answer(kind, told)]
  BY DEF Finish, requestVars
<1> DEFINE h == store[rid[r]]
<1>3. /\ rec' \in [Requests -> Record \cup {None}]
      /\ store' = store
      /\ \A x \in Requests : x # h => rec'[x] = rec[x]
      /\ h # None => /\ rec'[h].bodyHash = rec[h].bodyHash
                     /\ rec'[h].createdAt = rec[h].createdAt
                     /\ ~rec'[h].inFlight
      /\ \A x \in Requests : rec[x] = None <=> rec'[x] = None
  BY <1>1, StoreResponseEffect
<1>4. h \in Requests \cup {None}
  BY <1>1 DEF TypeOK
<1> HIDE DEF h
<1>5. TypeOK'
  BY <1>2, <1>3 DEF TypeOK, Answer, Answers, Kinds
<1>6. Identified' /\ StoredUnderId' /\ ReplayerHasRecord'
  BY <1>2, <1>3 DEF TypeOK, Identified, StoredUnderId, ReplayerHasRecord
<1>7. RecordOfCreator'
  BY <1>1, <1>2, <1>3, <1>4, IdempotencyAssumption DEF TypeOK, RecordOfCreator
<1>8. InFlightHasRunner'
  <2> SUFFICES ASSUME NEW id \in RecordIds, store[id] # None, rec'[store[id]].inFlight
               PROVE  pc'[store[id]] = "running" /\ rid[store[id]] = id
    BY <1>2, <1>3 DEF InFlightHasRunner
  <2>1. store[id] # h
    BY <1>3
  <2>2. store[id] # r
    BY <1>4, <2>1 DEF StoredUnderId, h
  <2> QED
    BY <1>2, <1>3, <2>1, <2>2 DEF TypeOK, InFlightHasRunner
<1> QED
  BY <1>5, <1>6, <1>7, <1>8

LEMMA BaseLeave ==
    ASSUME BaseInv, NEW r \in Requests, Leave(r)
    PROVE  BaseInv'
<1>1. CASE FinishOk(r)
  BY <1>1, BaseStore DEF FinishOk, Bodies
<1>2. CASE FinishUnwritten(r)
  BY <1>2, BaseStore DEF FinishUnwritten, Bodies
<1>3. CASE FinishFailed(r)
  BY <1>3, IdempotencyAssumption
     DEF BaseInv, FinishFailed, Finish, requestVars, TypeOK, Identified, RecordOfCreator,
         StoredUnderId, ReplayerHasRecord, InFlightHasRunner, Answer, Answers, Kinds
<1> QED
  BY <1>1, <1>2, <1>3 DEF Leave

LEMMA BaseRestart == BaseInv /\ Restart => BaseInv'
BY IdempotencyAssumption
   DEF BaseInv, Restart, requestVars, Unfinished, TypeOK, Identified, RecordOfCreator,
       StoredUnderId, ReplayerHasRecord, InFlightHasRunner, Answer, Answers, Kinds

LEMMA BaseStep == BaseInv /\ [Next]_vars => BaseInv'
<1> SUFFICES ASSUME BaseInv, [Next]_vars PROVE BaseInv'
  OBVIOUS
<1>1. ASSUME NEW r \in Requests,
             RejectHeaders(r) \/ Arrive(r) \/ Replay(r) \/ Deliver(r) \/ Timeout(r)
      PROVE  BaseInv'
  BY <1>1, BaseOutside
<1>2. CASE Tick
  BY <1>2 DEF BaseInv, Tick, storeVars, requestVars, TypeOK, Identified, RecordOfCreator,
              StoredUnderId, ReplayerHasRecord, InFlightHasRunner
<1>3. CASE UNCHANGED vars
  BY <1>3 DEF vars, BaseInv, TypeOK, Identified, RecordOfCreator,
              StoredUnderId, ReplayerHasRecord, InFlightHasRunner
<1> QED
  BY <1>1, <1>2, <1>3, BaseEnter, BaseLeave, BaseRestart DEF Next

LEMMA BaseInvariant == Spec => []BaseInv
BY BaseInit, BaseStep, PTL DEF Spec

\* Every variable keeps its type (whatever the TTL).
THEOREM TypeCorrect == Spec => []TypeOK
BY BaseInvariant, PTL DEF BaseInv

\* Whatever the TTL, REQUEST_IN_PROCESS is only answered while the request that holds
\* the key is running: no path through the middleware strands a record in flight.
THEOREM InFlightCorrect == Spec => []InFlightHasRunner
BY BaseInvariant, PTL DEF BaseInv

--------------------------------------------------------------------------------
(* The invariant for MaxLag <= TTL *)

\* What r evicts: no running request's record, no record younger than the TTL.
LEMMA EvictionIsOld ==
    ASSUME IInv, MaxLag <= TTL, NEW r \in Requests
    PROVE  /\ \A x \in Requests :
                pc[x] = "running" => AfterEviction(now[r])[rid[x]] = x
           /\ \A x \in Requests :
                /\ rec[x] # None /\ store[rid[x]] = x
                /\ AfterEviction(now[r])[rid[x]] # x
                => clock - now[x] > TTL
           /\ \A id \in RecordIds :
                AfterEviction(now[r])[id] # None => now[r] - now[store[id]] <= TTL
<1> USE IdempotencyAssumption DEF IInv, BaseInv
<1>1. now[r] <= clock /\ now[r] \in Nat /\ clock \in Nat
  BY DEF BoundedLag, TypeOK
<1>2. ASSUME NEW x \in Requests, pc[x] = "running"
      PROVE  AfterEviction(now[r])[rid[x]] = x
  <2>1. rid[x] \in RecordIds /\ store[rid[x]] = x /\ rec[x] # None
    BY <1>2 DEF RunnerOwnsKey, Identified
  <2>2. rec[x].createdAt = now[x] /\ clock - now[x] <= MaxLag /\ now[x] \in Nat
    BY <1>2, <2>1 DEF RecordOfCreator, BoundedLag, TypeOK
  <2>3. ~(now[r] - now[x] > TTL)
    BY <1>1, <2>2
  <2> QED
    BY <2>1, <2>2, <2>3 DEF AfterEviction
<1>3. ASSUME NEW x \in Requests, rec[x] # None, store[rid[x]] = x,
             AfterEviction(now[r])[rid[x]] # x
      PROVE  clock - now[x] > TTL
  <2>1. rid[x] \in RecordIds /\ rec[x].createdAt = now[x] /\ now[x] \in Nat
    BY <1>3 DEF RecordOfCreator, TypeOK
  <2>2. now[r] - now[x] > TTL
    BY <1>3, <2>1 DEF AfterEviction
  <2> QED
    BY <1>1, <2>1, <2>2
<1>4. ASSUME NEW id \in RecordIds, AfterEviction(now[r])[id] # None
      PROVE  now[r] - now[store[id]] <= TTL
  <2>1. store[id] # None /\ ~(now[r] - rec[store[id]].createdAt > TTL)
    BY <1>4 DEF AfterEviction
  <2>2. rec[store[id]].createdAt = now[store[id]] /\ now[store[id]] \in Nat
    BY <2>1 DEF StoredUnderId, RecordOfCreator, TypeOK
  <2> QED
    BY <1>1, <2>1, <2>2
<1> QED
  BY <1>2, <1>3, <1>4

LEMMA IInvInit == Init => IInv
<1> SUFFICES ASSUME Init PROVE IInv
  OBVIOUS
<1>1. BaseInv
  BY BaseInit
<1>2. BoundedLag /\ RunnerOwnsKey /\ CompletedByCreator /\ CompletedIsKept
  BY IdempotencyAssumption
     DEF Init, BoundedLag, RunnerOwnsKey, CompletedByCreator, CompletedIsKept
<1>3. ReplayerMatches /\ ReplayedMatches
  BY DEF Init, ReplayerMatches, ReplayedMatches, NoAnswer, Answer
<1> QED
  BY <1>1, <1>2, <1>3 DEF IInv

LEMMA IInvExecute ==
    ASSUME IInv, BaseInv', MaxLag <= TTL, NEW r \in Requests, Execute(r)
    PROVE  IInv'
<1> USE IdempotencyAssumption, NilAssumption DEF IInv, BaseInv
<1> DEFINE kept == AfterEviction(now[r])
<1>1. /\ pc[r] = "waiting" /\ rid[r] \in RecordIds /\ rec[r] = None
      /\ kept[rid[r]] = None
  BY DEF Execute, Found, Identified, RecordOfCreator
<1>2. /\ store' = [kept EXCEPT ![rid[r]] = r]
      /\ \A x \in Requests : x # r => rec'[x] = rec[x] /\ pc'[x] = pc[x]
      /\ rec'[r] # None /\ rec'[r].inFlight /\ pc'[r] = "running"
      /\ UNCHANGED <<clock, rid, hash, now, existing, out>>
  <2>1. rec' = [rec EXCEPT ![r] = [bodyHash |-> hash[r], inFlight |-> TRUE,
                                  response |-> None, createdAt |-> now[r]]]
    BY DEF Execute
  <2>2. [bodyHash |-> hash[r], inFlight |-> TRUE, response |-> None, createdAt |-> now[r]]
            \in Record
    BY <1>1 DEF TypeOK, Record, Identified
  <2>3. rec'[r] # None /\ rec'[r].inFlight
    BY <2>1, <2>2 DEF TypeOK
  <2>4. \A x \in Requests : x # r => rec'[x] = rec[x]
    BY <2>1 DEF TypeOK
  <2>5. pc' = [pc EXCEPT ![r] = "running"] /\ store' = [kept EXCEPT ![rid[r]] = r]
    BY DEF Execute
  <2> QED
    BY <2>3, <2>4, <2>5 DEF Execute, requestVars, TypeOK
<1>3. /\ kept \in [RecordIds -> Requests \cup {None}]
      /\ \A id \in RecordIds : kept[id] \in {store[id], None}
      /\ \A x \in Requests : pc[x] = "running" => kept[rid[x]] = x
      /\ \A x \in Requests : /\ rec[x] # None /\ store[rid[x]] = x
                             /\ kept[rid[x]] # x
                             => clock - now[x] > TTL
  BY EvictionShrinks, EvictionIsOld
<1> HIDE DEF kept
<1>4. BoundedLag'
  BY <1>1, <1>2 DEF BoundedLag
<1>5. RunnerOwnsKey'
  <2>1. ASSUME NEW x \in Requests, x # r, pc[x] = "running"
        PROVE  store'[rid[x]] = x
    BY <1>1, <1>2, <1>3, <2>1 DEF Identified
  <2> QED
    BY <1>1, <1>2, <1>3, <2>1 DEF RunnerOwnsKey
<1>6. CompletedByCreator'
  BY <1>2 DEF CompletedByCreator
<1>7. CompletedIsKept'
  <2>1. ASSUME NEW x \in Requests, x # r, rec[x] # None, ~rec[x].inFlight, store'[rid[x]] # x
        PROVE  clock - now[x] > TTL
    <3>1. rid[x] \in RecordIds
      BY <2>1 DEF RecordOfCreator
    <3>2. CASE store[rid[x]] = x
      BY <1>1, <1>2, <1>3, <2>1, <3>1, <3>2
    <3>3. CASE store[rid[x]] # x
      BY <2>1, <3>3 DEF CompletedIsKept
    <3> QED
      BY <3>2, <3>3
  <2> QED
    BY <1>2, <2>1 DEF CompletedIsKept
<1>8. ReplayerMatches' /\ ReplayedMatches'
  BY <1>1, <1>2 DEF ReplayerMatches, ReplayedMatches, Matches, ReplayerHasRecord
<1> QED
  BY <1>4, <1>5, <1>6, <1>7, <1>8

\* Evictions without an insertion.
LEMMA IInvEvict ==
    ASSUME IInv, MaxLag <= TTL, NEW r \in Requests, store' = AfterEviction(now[r]),
           NEW s \in {"answered", "replaying"}, pc[r] = "waiting",
           pc' = [pc EXCEPT ![r] = s],
           UNCHANGED <<clock, rec, rid, hash, now>>
    PROVE  BoundedLag' /\ RunnerOwnsKey' /\ CompletedByCreator' /\ CompletedIsKept'
<1> USE IdempotencyAssumption DEF IInv, BaseInv
<1>1. /\ store' \in [RecordIds -> Requests \cup {None}]
      /\ \A id \in RecordIds : store'[id] \in {store[id], None}
      /\ \A x \in Requests : pc[x] = "running" => store'[rid[x]] = x
      /\ \A x \in Requests : /\ rec[x] # None /\ store[rid[x]] = x
                             /\ store'[rid[x]] # x
                             => clock - now[x] > TTL
  BY EvictionShrinks, EvictionIsOld
<1>2. \A x \in Requests : IF x = r THEN pc'[x] = s ELSE pc'[x] = pc[x]
  BY DEF TypeOK
<1>3. BoundedLag' /\ RunnerOwnsKey'
  BY <1>1, <1>2 DEF BoundedLag, RunnerOwnsKey
<1>4. CompletedByCreator'
  BY <1>2 DEF CompletedByCreator
<1>5. CompletedIsKept'
  BY <1>1 DEF CompletedIsKept
<1> QED
  BY <1>3, <1>4, <1>5

LEMMA IInvRefuse ==
    ASSUME IInv, BaseInv', MaxLag <= TTL, NEW r \in Requests, pc[r] = "waiting",
           NEW kind \in {"duplicated", "inProcess"}, Refuse(r, kind)
    PROVE  IInv'
<1>1. BoundedLag' /\ RunnerOwnsKey' /\ CompletedByCreator' /\ CompletedIsKept'
  BY IInvEvict DEF Refuse, requestVars
<1>2. ReplayerMatches' /\ ReplayedMatches'
  BY DEF IInv, BaseInv, TypeOK, Refuse, requestVars, Answer, ReplayerMatches,
         ReplayedMatches, Matches
<1> QED
  BY <1>1, <1>2 DEF IInv

LEMMA IInvBeginReplay ==
    ASSUME IInv, BaseInv', MaxLag <= TTL, NEW r \in Requests, BeginReplay(r)
    PROVE  IInv'
<1> USE DEF IInv, BaseInv
<1>1. BoundedLag' /\ RunnerOwnsKey' /\ CompletedByCreator' /\ CompletedIsKept'
  BY IInvEvict DEF BeginReplay, requestVars
<1> DEFINE h == AfterEviction(now[r])[rid[r]]
<1>2. /\ pc[r] = "waiting" /\ rid[r] \in RecordIds
      /\ h # None /\ rec[h].bodyHash = hash[r] /\ ~rec[h].inFlight
      /\ existing' = [existing EXCEPT ![r] = h]
      /\ pc' = [pc EXCEPT ![r] = "replaying"]
      /\ UNCHANGED <<rec, rid, hash, now, out>>
  BY DEF BeginReplay, Found, Identified, requestVars
<1>3. h = store[rid[r]] /\ h \in Requests
  BY <1>2, EvictionShrinks DEF TypeOK
<1>4. now[r] - now[h] <= TTL
  BY <1>2, <1>3, EvictionIsOld
<1> HIDE DEF h
<1>5. Matches(h, r)
  BY <1>2, <1>3, <1>4 DEF Matches, StoredUnderId, RecordOfCreator
<1>6. ReplayerMatches'
  BY <1>2, <1>3, <1>5 DEF TypeOK, ReplayerMatches, Matches
<1>7. ReplayedMatches'
  BY <1>2 DEF TypeOK, ReplayedMatches, Matches
<1> QED
  BY <1>1, <1>6, <1>7

\* The response is stored in r's own record.
LEMMA IInvStore ==
    ASSUME IInv, BaseInv', NEW r \in Requests, NEW body \in {r, Empty},
           NEW kind \in {"ok", "error"}, NEW told,
           Finish(r, Answer(kind, told)), StoreResponse(r, body)
    PROVE  IInv'
<1> USE IdempotencyAssumption DEF IInv, BaseInv
<1>1. /\ pc[r] = "running" /\ rid[r] \in RecordIds
      /\ store[rid[r]] = r /\ rec[r] # None /\ rec[r].inFlight
  BY DEF Finish, Identified, RunnerOwnsKey
<1>2. /\ store' = store
      /\ \A x \in Requests : x # r => rec'[x] = rec[x]
      /\ rec'[r].response = body /\ ~rec'[r].inFlight
  <2>1. body \in Bodies
    BY DEF Bodies
  <2> QED
    BY <1>1, <2>1, StoreResponseEffect
<1>3. /\ pc' = [pc EXCEPT ![r] = "answered"]
      /\ out' = [out EXCEPT ![r] = Answer(kind, told)]
      /\ UNCHANGED <<clock, rid, hash, now, existing>>
  BY DEF Finish, requestVars
<1>4. BoundedLag' /\ RunnerOwnsKey' /\ CompletedByCreator'
  BY <1>1, <1>2, <1>3 DEF TypeOK, BoundedLag, RunnerOwnsKey, CompletedByCreator
<1>5. CompletedIsKept'
  BY <1>1, <1>2, <1>3 DEF CompletedIsKept
<1>6. ReplayerMatches'
  BY <1>1, <1>2, <1>3 DEF TypeOK, ReplayerMatches, Matches
<1>7. ReplayedMatches'
  BY <1>1, <1>3 DEF TypeOK, ReplayedMatches, Matches, Answer
<1> QED
  BY <1>4, <1>5, <1>6, <1>7

\* The record that is deleted is r's own, which is not completed.
LEMMA IInvFinishFailed ==
    ASSUME IInv, BaseInv', NEW r \in Requests, FinishFailed(r)
    PROVE  IInv'
<1> USE IdempotencyAssumption DEF IInv, BaseInv
<1>1. /\ pc[r] = "running" /\ rid[r] \in RecordIds
      /\ store[rid[r]] = r /\ rec[r] # None /\ rec[r].inFlight
  BY DEF FinishFailed, Finish, Identified, RunnerOwnsKey
<1>2. /\ store' = [store EXCEPT ![rid[r]] = None]
      /\ pc' = [pc EXCEPT ![r] = "answered"]
      /\ out' = [out EXCEPT ![r] = Answer("failed", None)]
      /\ UNCHANGED <<clock, rec, rid, hash, now, existing>>
  BY DEF FinishFailed, Finish, requestVars
<1>3. BoundedLag' /\ CompletedByCreator'
  BY <1>1, <1>2 DEF TypeOK, BoundedLag, CompletedByCreator
<1>4. RunnerOwnsKey'
  BY <1>1, <1>2 DEF TypeOK, Identified, RunnerOwnsKey
<1>5. CompletedIsKept'
  BY <1>1, <1>2 DEF TypeOK, CompletedIsKept, RecordOfCreator
<1>6. ReplayerMatches'
  BY <1>2 DEF TypeOK, ReplayerMatches, Matches
<1>7. ReplayedMatches'
  BY <1>1, <1>2 DEF TypeOK, ReplayedMatches, Matches, Answer
<1> QED
  BY <1>3, <1>4, <1>5, <1>6, <1>7

\* Requests that come and requests that are answered.
LEMMA IInvOutside ==
    ASSUME IInv, BaseInv', NEW r \in Requests,
           RejectHeaders(r) \/ Arrive(r) \/ Replay(r) \/ Deliver(r) \/ Timeout(r)
    PROVE  IInv'
<1> USE IdempotencyAssumption DEF IInv, BaseInv
<1>1. CASE RejectHeaders(r)
  <2>1. /\ pc[r] = "idle" /\ pc' = [pc EXCEPT ![r] = "answered"]
        /\ out' = [out EXCEPT ![r] = Answer("badRequest", None)]
        /\ UNCHANGED <<clock, store, rec, rid, hash, now, existing>>
    BY <1>1 DEF RejectHeaders, storeVars, requestVars
  <2>2. BoundedLag' /\ RunnerOwnsKey' /\ CompletedByCreator' /\ CompletedIsKept'
    BY <2>1 DEF TypeOK, BoundedLag, RunnerOwnsKey, CompletedByCreator, CompletedIsKept
  <2>3. ReplayerMatches' /\ ReplayedMatches'
    BY <2>1 DEF TypeOK, ReplayerMatches, ReplayedMatches, Matches, Answer
  <2> QED
    BY <2>2, <2>3
<1>2. CASE Arrive(r)
  <2>1. /\ pc[r] = "idle" /\ rec[r] = None
        /\ pc' = [pc EXCEPT ![r] = "waiting"]
        /\ now' = [now EXCEPT ![r] = clock]
        /\ \A x \in Requests : x # r => rid'[x] = rid[x] /\ hash'[x] = hash[x]
        /\ UNCHANGED <<clock, store, rec, existing, out>>
    BY <1>2 DEF Arrive, storeVars, TypeOK, RecordOfCreator
  <2>2. BoundedLag'
    BY <2>1 DEF TypeOK, BoundedLag
  <2>3. RunnerOwnsKey' /\ CompletedByCreator' /\ CompletedIsKept'
    BY <2>1 DEF TypeOK, RunnerOwnsKey, CompletedByCreator, CompletedIsKept
  <2>4. ReplayerMatches' /\ ReplayedMatches'
    BY <2>1 DEF TypeOK, ReplayerMatches, ReplayedMatches, Matches
  <2> QED
    BY <2>2, <2>3, <2>4
<1>3. CASE Replay(r)
  <2>1. /\ pc[r] = "replaying" /\ pc' = [pc EXCEPT ![r] = "answered"]
        /\ out' = [out EXCEPT ![r] = Answer("replay", rec[existing[r]].response)]
        /\ UNCHANGED <<clock, store, rec, rid, hash, now, existing>>
    BY <1>3 DEF Replay, storeVars, requestVars
  <2>2. BoundedLag' /\ RunnerOwnsKey' /\ CompletedByCreator' /\ CompletedIsKept'
    BY <2>1 DEF TypeOK, BoundedLag, RunnerOwnsKey, CompletedByCreator, CompletedIsKept,
                RecordOfCreator
  <2>3. ReplayerMatches'
    BY <2>1 DEF TypeOK, ReplayerMatches, Matches
  <2>4. Matches(existing[r], r) /\ rec[existing[r]].response \in {existing[r], Empty}
    BY <2>1 DEF ReplayerMatches, ReplayerHasRecord, CompletedByCreator
  <2>5. ReplayedMatches'
    BY <2>1, <2>4 DEF TypeOK, ReplayedMatches, Matches, Answer
  <2> QED
    BY <2>2, <2>3, <2>5
<1>4. CASE Deliver(r) \/ Timeout(r)
  <2>1. UNCHANGED <<clock, store, rec, pc, rid, hash, now, existing, out>>
    BY <1>4 DEF Deliver, Timeout, storeVars, requestVars
  <2> QED
    BY <2>1 DEF BoundedLag, RunnerOwnsKey, CompletedByCreator, CompletedIsKept,
                ReplayerMatches, ReplayedMatches, Matches
<1> QED
  BY <1>1, <1>2, <1>3, <1>4

LEMMA IInvRestart == IInv /\ BaseInv' /\ Restart => IInv'
<1> SUFFICES ASSUME IInv, BaseInv', Restart PROVE IInv'
  OBVIOUS
<1>1. /\ \A x \in Requests : rec'[x] = None
      /\ \A x \in Requests : pc'[x] \notin {"waiting", "running", "replaying"}
      /\ \A x \in Requests : pc[x] # "idle" => pc'[x] # "idle"
      /\ \A x \in Requests : pc[x] \in {"answered", "dead"} => pc'[x] \in {"answered", "dead"}
      /\ UNCHANGED <<clock, rid, hash, now, existing, out>>
  BY DEF IInv, BaseInv, TypeOK, Restart, Unfinished, requestVars
<1>2. BoundedLag' /\ RunnerOwnsKey' /\ CompletedByCreator' /\ CompletedIsKept'
  BY <1>1 DEF IInv, BoundedLag, RunnerOwnsKey, CompletedByCreator, CompletedIsKept
<1>3. ReplayerMatches' /\ ReplayedMatches'
  BY <1>1 DEF IInv, ReplayerMatches, ReplayedMatches, Matches
<1> QED
  BY <1>2, <1>3 DEF IInv

LEMMA IInvTick == IInv /\ BaseInv' /\ Tick => IInv'
<1> SUFFICES ASSUME IInv, BaseInv', Tick PROVE IInv'
  OBVIOUS
<1>1. /\ clock' = clock + 1
      /\ \A r \in Requests : pc[r] \in {"waiting", "running"} => clock - now[r] < MaxLag
      /\ UNCHANGED <<store, rec, pc, rid, hash, now, existing, out>>
  BY DEF Tick, storeVars, requestVars
<1>2. BoundedLag' /\ CompletedIsKept'
  BY <1>1, IdempotencyAssumption
     DEF IInv, BaseInv, TypeOK, BoundedLag, CompletedIsKept, RecordOfCreator
<1>3. RunnerOwnsKey' /\ CompletedByCreator'
  BY <1>1 DEF IInv, RunnerOwnsKey, CompletedByCreator
<1>4. ReplayerMatches' /\ ReplayedMatches'
  BY <1>1 DEF IInv, ReplayerMatches, ReplayedMatches, Matches
<1> QED
  BY <1>2, <1>3, <1>4 DEF IInv

LEMMA IInvStep ==
    ASSUME MaxLag <= TTL
    PROVE  IInv /\ [Next]_vars => IInv'
<1> SUFFICES ASSUME IInv, [Next]_vars PROVE IInv'
  OBVIOUS
<1>0. BaseInv'
  BY BaseStep DEF IInv
<1>1. ASSUME NEW r \in Requests,
             RejectHeaders(r) \/ Arrive(r) \/ Replay(r) \/ Deliver(r) \/ Timeout(r)
      PROVE  IInv'
  BY <1>0, <1>1, IInvOutside
<1>2. ASSUME NEW r \in Requests, Enter(r) PROVE IInv'
  BY <1>0, <1>2, IInvExecute, IInvRefuse, IInvBeginReplay
     DEF Enter, RefuseDuplicate, RefuseInProcess
<1>3. ASSUME NEW r \in Requests, Leave(r) PROVE IInv'
  BY <1>0, <1>3, IInvStore, IInvFinishFailed DEF Leave, FinishOk, FinishUnwritten
<1>4. CASE Restart
  BY <1>0, <1>4, IInvRestart
<1>5. CASE Tick
  BY <1>0, <1>5, IInvTick
<1>6. CASE UNCHANGED vars
  BY <1>0, <1>6 DEF vars, IInv, BoundedLag, RunnerOwnsKey, CompletedByCreator, CompletedIsKept,
              ReplayerMatches, ReplayedMatches, Matches
<1> QED
  BY <1>1, <1>2, <1>3, <1>4, <1>5, <1>6 DEF Next

LEMMA IInvInvariant == ASSUME MaxLag <= TTL PROVE Spec => []IInv
BY IInvInit, IInvStep, PTL DEF Spec

\* README.md:153 holds when a request is bounded by less than the TTL: a key is executed
\* by one request at a time.
THEOREM OneRunPerKeyCorrect == ASSUME MaxLag <= TTL PROVE Spec => []OneRunPerKey
<1>1. IInv => OneRunPerKey
  BY DEF IInv, RunnerOwnsKey, OneRunPerKey
<1> QED
  BY <1>1, IInvInvariant, PTL

\* README.md:151: what is replayed was computed for the same key and payload within a TTL.
THEOREM ReplayCorrect == ASSUME MaxLag <= TTL PROVE Spec => []ReplaySameRequest
<1>1. IInv => ReplaySameRequest
  BY DEF IInv, ReplayedMatches, Matches, ReplaySameRequest
<1> QED
  BY <1>1, IInvInvariant, PTL

\* README.md:151: a completed response is kept for the whole TTL.
THEOREM KeptCorrect == ASSUME MaxLag <= TTL PROVE Spec => []CompletedIsKept
<1>1. IInv => CompletedIsKept
  BY DEF IInv
<1> QED
  BY <1>1, IInvInvariant, PTL

--------------------------------------------------------------------------------
(* Action properties *)

\* The body that a replay reads without the mutex can no longer change.
THEOREM ResponseImmutableCorrect == ASSUME MaxLag <= TTL PROVE Spec => ResponseImmutable
<1>1. ASSUME IInv, Next, NEW x \in Requests, rec[x] # None, ~rec[x].inFlight,
             restarts' = restarts
      PROVE  rec'[x] = rec[x]
  <2> USE DEF IInv, BaseInv
  <2>1. ASSUME NEW r \in Requests, Execute(r) PROVE rec'[x] = rec[x]
    <3>1. rec[r] = None
      BY <1>1, <2>1 DEF Execute, RecordOfCreator
    <3> DEFINE v == [bodyHash |-> hash[r], inFlight |-> TRUE, response |-> None,
                     createdAt |-> now[r]]
    <3>2. rec' = [rec EXCEPT ![r] = v]
      BY <2>1 DEF Execute
    <3> HIDE DEF v
    <3>3. x # r
      BY <1>1, <3>1
    <3> QED
      BY <1>1, <3>2, <3>3 DEF TypeOK
  <2>2. ASSUME NEW r \in Requests, Leave(r) PROVE rec'[x] = rec[x]
    <3>1. pc[r] = "running" /\ store[rid[r]] = r /\ rec[r].inFlight /\ r # x
      BY <1>1, <2>2 DEF Leave, FinishOk, FinishFailed, FinishUnwritten, Finish, RunnerOwnsKey
    <3>2. FinishFailed(r) => rec' = rec
      BY DEF FinishFailed
    <3>3. ASSUME NEW body \in Bodies, StoreResponse(r, body) PROVE rec'[x] = rec[x]
      BY <1>1, <3>1, <3>3, StoreResponseEffect
    <3> QED
      BY <2>2, <3>2, <3>3 DEF Leave, FinishOk, FinishUnwritten, Bodies
  <2>3. ~Restart
    BY <1>1 DEF Restart, TypeOK
  <2> QED
    BY <1>1, <2>1, <2>2, <2>3
       DEF Next, Enter, RejectHeaders, Arrive, RefuseDuplicate, RefuseInProcess, Refuse,
           BeginReplay, Replay, Deliver, Timeout, Tick, storeVars
<1>2. IInv /\ [Next]_vars =>
        [\A x \in Requests :
            rec[x] # None /\ ~rec[x].inFlight /\ restarts' = restarts => rec'[x] = rec[x]]_vars
  BY <1>1
<1> QED
  BY <1>2, IInvInvariant, PTL DEF Spec, ResponseImmutable

\* A key is executed again only when what completed under it is older than the TTL.
THEOREM NoReexecutionCorrect == ASSUME MaxLag <= TTL PROVE Spec => NoReexecution
<1>1. ASSUME IInv, Next, NEW r \in Requests, NEW x \in Requests,
             pc[r] # "running", pc'[r] = "running",
             rec[x] # None, ~rec[x].inFlight, rid[x] = rid[r]
      PROVE  clock - now[x] > TTL
  <2> USE DEF IInv, BaseInv
  <2>1. Execute(r)
    BY <1>1 DEF Next, Enter, Leave, RejectHeaders, Arrive, Execute, RefuseDuplicate,
                RefuseInProcess, Refuse, BeginReplay, Replay, FinishOk, FinishFailed,
                FinishUnwritten, Finish, Deliver, Timeout, Restart, Unfinished, Tick, TypeOK
  <2>2. AfterEviction(now[r])[rid[x]] = None
    BY <1>1, <2>1 DEF Execute, Found
  <2> QED
    BY <1>1, <2>2, EvictionIsOld, IdempotencyAssumption DEF CompletedIsKept
<1>2. IInv /\ [Next]_vars =>
        [\A r, x \in Requests :
            /\ pc[r] # "running" /\ pc'[r] = "running"
            /\ rec[x] # None /\ ~rec[x].inFlight /\ rid[x] = rid[r]
            => clock - now[x] > TTL]_vars
  BY <1>1
<1> QED
  BY <1>2, IInvInvariant, PTL DEF Spec, NoReexecution

--------------------------------------------------------------------------------
(* The middleware implements the contract *)

\* Nothing is decided about a request before the first critical section.
Undecided ==
    \A r \in Requests :
        pc[r] \in {"idle", "waiting"} => decision[r] = "none" /\ existing[r] = None

LEMMA UndecidedStep == BaseInv /\ Undecided /\ [Next]_vars => Undecided'
<1> SUFFICES ASSUME BaseInv, Undecided, [Next]_vars PROVE Undecided'
  OBVIOUS
<1> USE DEF BaseInv, TypeOK, Undecided
<1>1. ASSUME NEW r \in Requests, RejectHeaders(r) \/ Arrive(r) PROVE Undecided'
  BY <1>1 DEF RejectHeaders, Arrive
<1>2. ASSUME NEW r \in Requests, Enter(r) PROVE Undecided'
  <2>1. /\ pc'[r] \notin {"idle", "waiting"}
        /\ \A x \in Requests : x # r => /\ pc'[x] = pc[x]
                                       /\ decision'[x] = decision[x]
                                       /\ existing'[x] = existing[x]
    BY <1>2 DEF Enter, Execute, RefuseDuplicate, RefuseInProcess, Refuse, BeginReplay
  <2> QED
    BY <2>1
<1>3. ASSUME NEW r \in Requests, Replay(r) PROVE Undecided'
  BY <1>3 DEF Replay
<1>4. ASSUME NEW r \in Requests, Leave(r) PROVE Undecided'
  BY <1>4 DEF Leave, FinishOk, FinishFailed, FinishUnwritten, Finish
<1>5. ASSUME NEW r \in Requests, Deliver(r) \/ Timeout(r) PROVE Undecided'
  BY <1>5 DEF Deliver, Timeout
<1>6. CASE Restart
  BY <1>6 DEF Restart
<1>7. CASE Tick \/ UNCHANGED vars
  BY <1>7 DEF Tick, vars
<1> QED
  BY <1>1, <1>2, <1>3, <1>4, <1>5, <1>6, <1>7 DEF Next

\* An eviction forgets completed keys only.
LEMMA EvictionForgets ==
    ASSUME IInv, MaxLag <= TTL, NEW r \in Requests,
           NEW E, E = {id \in RecordIds : store[id] # None /\ AfterEviction(now[r])[id] = None}
    PROVE  /\ E \in SUBSET Contract!Completed
           /\ Contract!Forget(E) =
                [id \in RecordIds |->
                    IF AfterEviction(now[r])[id] = None THEN Contract!Free ELSE SlotOf(id)]
<1> USE DEF IInv, BaseInv
<1>1. \A id \in RecordIds : AfterEviction(now[r])[id] \in {store[id], None}
  BY EvictionShrinks
<1>2. ASSUME NEW id \in E PROVE id \in Contract!Completed
  <2>1. id \in RecordIds /\ store[id] # None /\ AfterEviction(now[r])[id] = None
    OBVIOUS
  <2>2. ~rec[store[id]].inFlight
    BY <2>1, EvictionIsOld, IdempotencyAssumption DEF InFlightHasRunner, TypeOK
  <2> QED
    BY <2>1, <2>2 DEF Contract!Completed, slotBar, SlotOf
<1>3. \A id \in RecordIds :
        Contract!Forget(E)[id] =
            IF AfterEviction(now[r])[id] = None THEN Contract!Free ELSE SlotOf(id)
  BY <1>1 DEF Contract!Forget, Contract!Free, slotBar, SlotOf
<1> QED
  BY <1>2, <1>3 DEF Contract!Forget

LEMMA EnterRefines ==
    ASSUME IInv, Undecided, MaxLag <= TTL, NEW r \in Requests, Enter(r)
    PROVE  Contract!Admit(r)
<1> USE IdempotencyAssumption, NilAssumption DEF IInv, BaseInv
<1> DEFINE kept == AfterEviction(now[r])
           E    == {id \in RecordIds : store[id] # None /\ kept[id] = None}
           F    == Contract!Forget(E)
<1>1. /\ pc[r] = "waiting" /\ rid[r] \in RecordIds /\ hash[r] \in Hashes
      /\ rec[r] = None /\ decision[r] = "none" /\ existing[r] = None
  BY DEF Enter, Execute, RefuseDuplicate, RefuseInProcess, Refuse, BeginReplay,
         Identified, RecordOfCreator, Undecided
<1>2. verdictBar[r].kind = "none"
  BY <1>1 DEF verdictBar
<1>3. /\ kept \in [RecordIds -> Requests \cup {None}]
      /\ \A id \in RecordIds : kept[id] \in {store[id], None}
      /\ kept[rid[r]] = Found(r)
  BY EvictionShrinks DEF Found
<1>4. /\ E \in SUBSET Contract!Completed
      /\ F = [id \in RecordIds |-> IF kept[id] = None THEN Contract!Free ELSE SlotOf(id)]
  BY EvictionForgets
<1> SUFFICES \/ Contract!Execute(r, rid[r], hash[r], E)
             \/ Contract!Duplicated(r, rid[r], hash[r], E)
             \/ Contract!InProcess(r, rid[r], hash[r], E)
             \/ Contract!Replay(r, rid[r], hash[r], E)
  BY <1>1, <1>2, <1>4 DEF Contract!Admit
<1> HIDE DEF kept, E, F
<1>5. CASE Execute(r)
  <2> DEFINE v == [bodyHash |-> hash[r], inFlight |-> TRUE, response |-> None,
                   createdAt |-> now[r]]
  <2>1. /\ kept[rid[r]] = None
        /\ store' = [kept EXCEPT ![rid[r]] = r]
        /\ rec' = [rec EXCEPT ![r] = v]
        /\ decision' = [decision EXCEPT ![r] = "execute"]
        /\ existing' = existing
    BY <1>3, <1>5 DEF Execute, kept
  <2>2. rec'[r].inFlight /\ rec'[r].bodyHash = hash[r]
    BY <2>1 DEF TypeOK
  <2> HIDE DEF v
  <2>3. ASSUME NEW id \in RecordIds, id = rid[r]
        PROVE  SlotOf(id)' = [state |-> "running", owner |-> r, hash |-> hash[r]]
    BY <1>1, <1>3, <2>1, <2>2, <2>3 DEF SlotOf
  <2>4. ASSUME NEW id \in RecordIds, id # rid[r]
        PROVE  SlotOf(id)' = F[id]
    <3>1. store'[id] = kept[id]
      BY <1>3, <2>1, <2>4
    <3>2. CASE kept[id] = None
      BY <1>4, <2>4, <3>1, <3>2 DEF SlotOf, Contract!Free
    <3>3. CASE kept[id] # None
      <4>1. kept[id] = store[id] /\ store[id] \in Requests /\ store[id] # r
        BY <1>1, <1>3, <2>4, <3>3 DEF TypeOK, StoredUnderId
      <4>2. rec'[store[id]] = rec[store[id]]
        BY <2>1, <4>1 DEF TypeOK
      <4> QED
        BY <1>4, <2>4, <3>1, <3>3, <4>1, <4>2 DEF SlotOf
    <3> QED
      BY <3>2, <3>3
  <2>5. slotBar' = [F EXCEPT ![rid[r]] = [state |-> "running", owner |-> r, hash |-> hash[r]]]
    BY <1>1, <1>4, <2>3, <2>4 DEF slotBar
  <2>6. verdictBar' = [verdictBar EXCEPT ![r] = Contract!Verdict("execute", None)]
    BY <1>1, <2>1 DEF verdictBar, Contract!Verdict, TypeOK
  <2>7. F[rid[r]] = Contract!Free
    BY <1>1, <1>4, <2>1
  <2> QED
    BY <2>5, <2>6, <2>7 DEF Contract!Execute, F
<1>6. ASSUME store' = kept, rec' = rec PROVE slotBar' = F
  <2>1. ASSUME NEW id \in RecordIds PROVE SlotOf(id)' = F[id]
    BY <1>3, <1>4, <1>6 DEF SlotOf, Contract!Free
  <2> QED
    BY <1>4, <2>1 DEF slotBar
<1>7. ASSUME NEW kind \in {"duplicated", "inProcess"}, Refuse(r, kind)
      PROVE  /\ slotBar' = F
             /\ verdictBar' = [verdictBar EXCEPT ![r] = Contract!Verdict(kind, None)]
  BY <1>1, <1>6, <1>7 DEF Refuse, kept, verdictBar, Contract!Verdict, TypeOK
<1>8. ASSUME kept[rid[r]] # None
      PROVE  /\ F[rid[r]] # Contract!Free
             /\ F[rid[r]] = slotBar[rid[r]]
             /\ F[rid[r]].hash = rec[kept[rid[r]]].bodyHash
             /\ F[rid[r]].state = IF rec[kept[rid[r]]].inFlight THEN "running" ELSE "done"
             /\ F[rid[r]].owner = kept[rid[r]]
  <2>1. F[rid[r]] = [state |-> IF rec[kept[rid[r]]].inFlight THEN "running" ELSE "done",
                     owner |-> kept[rid[r]], hash |-> rec[kept[rid[r]]].bodyHash]
    BY <1>1, <1>3, <1>4, <1>8 DEF SlotOf
  <2>2. F[rid[r]] = slotBar[rid[r]]
    BY <1>1, <1>4, <1>8 DEF slotBar
  <2> QED
    BY <2>1, <2>2 DEF Contract!Free
<1>9. CASE RefuseDuplicate(r)
  BY <1>3, <1>7, <1>8, <1>9 DEF RefuseDuplicate, Contract!Duplicated, F
<1>10. CASE RefuseInProcess(r)
  BY <1>3, <1>7, <1>8, <1>10 DEF RefuseInProcess, Contract!InProcess, F
<1>11. CASE BeginReplay(r)
  <2>1. /\ kept[rid[r]] # None
        /\ rec[kept[rid[r]]].bodyHash = hash[r] /\ ~rec[kept[rid[r]]].inFlight
        /\ existing' = [existing EXCEPT ![r] = kept[rid[r]]]
        /\ decision' = [decision EXCEPT ![r] = "replay"]
        /\ store' = kept /\ rec' = rec
    BY <1>3, <1>11 DEF BeginReplay, kept
  <2>2. verdictBar' = [verdictBar EXCEPT ![r] = Contract!Verdict("replay", kept[rid[r]])]
    BY <2>1 DEF verdictBar, Contract!Verdict, TypeOK
  <2> QED
    BY <1>6, <1>8, <2>1, <2>2 DEF Contract!Replay, F
<1> QED
  BY <1>5, <1>9, <1>10, <1>11 DEF Enter

LEMMA LeaveRefines ==
    ASSUME IInv, IInv', NEW r \in Requests, Leave(r)
    PROVE  Contract!Complete(rid[r]) \/ Contract!Abort(rid[r])
<1> USE IdempotencyAssumption DEF IInv, BaseInv
<1>1. /\ pc[r] = "running" /\ rid[r] \in RecordIds
      /\ store[rid[r]] = r /\ rec[r] # None /\ rec[r].inFlight
      /\ \A id \in RecordIds : store[id] = r => id = rid[r]
  BY DEF Leave, FinishOk, FinishFailed, FinishUnwritten, Finish, Identified, RunnerOwnsKey,
         StoredUnderId
<1>2. verdictBar' = verdictBar
  BY DEF Leave, FinishOk, FinishFailed, FinishUnwritten, Finish, verdictBar
<1>3. slotBar[rid[r]] = [state |-> "running", owner |-> r, hash |-> rec[r].bodyHash]
  BY <1>1 DEF slotBar, SlotOf
<1>4. ASSUME NEW body \in Bodies, StoreResponse(r, body)
      PROVE  Contract!Complete(rid[r])
  <2>1. /\ store' = store
        /\ \A x \in Requests : x # r => rec'[x] = rec[x]
        /\ rec'[r].bodyHash = rec[r].bodyHash /\ ~rec'[r].inFlight
    BY <1>1, <1>4, StoreResponseEffect
  <2>2. ASSUME NEW id \in RecordIds
        PROVE  SlotOf(id)' = IF id = rid[r]
                             THEN [state |-> "done", owner |-> r, hash |-> rec[r].bodyHash]
                             ELSE SlotOf(id)
    <3>1. CASE id = rid[r]
      BY <1>1, <2>1, <3>1 DEF SlotOf
    <3>2. CASE id # rid[r]
      BY <1>1, <2>1, <3>2 DEF SlotOf, TypeOK
    <3> QED
      BY <3>1, <3>2
  <2>3. slotBar' = [slotBar EXCEPT ![rid[r]] =
                        [state |-> "done", owner |-> r, hash |-> rec[r].bodyHash]]
    BY <1>1, <2>2 DEF slotBar
  <2> QED
    BY <1>2, <1>3, <2>3 DEF Contract!Complete
<1>5. CASE FinishFailed(r)
  <2>1. store' = [store EXCEPT ![rid[r]] = None] /\ rec' = rec
    BY <1>5 DEF FinishFailed
  <2>2. ASSUME NEW id \in RecordIds
        PROVE  SlotOf(id)' = IF id = rid[r] THEN Contract!Free ELSE SlotOf(id)
    BY <1>1, <2>1 DEF SlotOf, TypeOK, Contract!Free
  <2>3. slotBar' = [slotBar EXCEPT ![rid[r]] = Contract!Free]
    BY <1>1, <2>2 DEF slotBar
  <2> QED
    BY <1>2, <1>3, <2>3 DEF Contract!Abort
<1> QED
  BY <1>4, <1>5 DEF Leave, FinishOk, FinishUnwritten, Bodies

\* The middleware implements the contract: seen through the refinement mapping, every
\* step is a step of the contract or changes nothing.
THEOREM Refinement == ASSUME MaxLag <= TTL PROVE Spec => ImplementsContract
<1>1. Init => Contract!Init
  BY DEF Init, Contract!Init, Contract!Free, Contract!Verdict, slotBar, SlotOf, verdictBar
<1>2. Init => Undecided
  BY DEF Init, Undecided
<1>3. ASSUME IInv, IInv', Undecided, [Next]_vars
      PROVE  [Contract!Next]_<<slotBar, verdictBar>>
  <2>1. ASSUME NEW r \in Requests, Enter(r) PROVE Contract!Next
    BY <1>3, <2>1, EnterRefines DEF Contract!Next
  <2>2. ASSUME NEW r \in Requests, Leave(r) PROVE Contract!Next
    <3>1. rid[r] \in RecordIds
      BY <1>3, <2>2 DEF IInv, BaseInv, Identified, Leave, FinishOk, FinishFailed,
                        FinishUnwritten, Finish
    <3> QED
      BY <1>3, <2>2, <3>1, LeaveRefines DEF Contract!Next
  <2>3. CASE Restart
    <3>1. slotBar' = [id \in RecordIds |-> Contract!Free] /\ verdictBar' = verdictBar
      BY <2>3 DEF Restart, slotBar, SlotOf, verdictBar, Contract!Free
    <3> QED
      BY <3>1 DEF Contract!Next, Contract!Restart
  <2>4. ASSUME UNCHANGED <<store, rec, decision, existing>>
        PROVE  UNCHANGED <<slotBar, verdictBar>>
    BY <2>4 DEF slotBar, SlotOf, verdictBar
  <2>5. ASSUME NEW r \in Requests,
               RejectHeaders(r) \/ Arrive(r) \/ Replay(r) \/ Deliver(r) \/ Timeout(r)
        PROVE  UNCHANGED <<slotBar, verdictBar>>
    BY <2>4, <2>5 DEF RejectHeaders, Arrive, Replay, Deliver, Timeout, storeVars
  <2>6. CASE Tick \/ UNCHANGED vars
    BY <2>4, <2>6 DEF Tick, vars, storeVars
  <2> QED
    BY <1>3, <2>1, <2>2, <2>3, <2>5, <2>6 DEF Next
<1>4. IInv => BaseInv
  BY DEF IInv
<1> QED
  BY <1>1, <1>2, <1>3, <1>4, IInvInvariant, UndecidedStep, PTL
     DEF Spec, ImplementsContract, Contract!Spec, Contract!contractVars
================================================================================
