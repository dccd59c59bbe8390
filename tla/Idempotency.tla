------------------------------ MODULE Idempotency ------------------------------
(***************************************************************************)
(* The idempotency middleware (middleware_idempotency.go) under concurrent *)
(* requests, with the request timeout that surrounds it                    *)
(* (UseRequestTimeout) and process restarts.                               *)
(*                                                                         *)
(* A request reads the clock, then waits for the mutex; the first critical *)
(* section evicts expired records and decides between executing the        *)
(* handler, replaying and refusing; the handler runs without the mutex; a  *)
(* second critical section looks the record up AGAIN by its identifier and *)
(* completes or deletes whatever record it finds there.  A replayed        *)
(* response is read from the record after the mutex is released.           *)
(*                                                                         *)
(* When the timeout fires, the client is answered 503 and the handler goes *)
(* on in its own goroutine: its later answer is dropped, its record is not.*)
(*                                                                         *)
(* Records are heap objects: store[id] points to the request that created  *)
(* the record, rec[h] is the object that request h created.                *)
(***************************************************************************)
EXTENDS Integers

CONSTANTS
    Requests,    \* POST requests; each is issued once
    RecordIds,   \* method:path:key
    Hashes,      \* hashes of request bodies
    None,        \* nil pointer, absent value
    Empty,       \* the empty response body
    TTL,         \* SERVER_IDEMPOTENCY_TTL
    MaxLag,      \* bound on the time from a request's clock reading to its last
                 \* critical section; the request timeout cancels the handler
    MaxTime,     \* bound on the clock, for model checking
    MaxRestarts  \* bound on process restarts, for model checking

ASSUME IdempotencyAssumption ==
    /\ TTL \in Nat \ {0}
    /\ MaxLag \in Nat
    /\ MaxTime \in Nat
    /\ MaxRestarts \in Nat
    /\ None \notin Requests \cup RecordIds \cup Hashes
    /\ Empty \notin Requests \cup {None}

VARIABLES
    clock,       \* wall clock (time.Now().UTC())
    store,       \* idempotencyStore.records: id -> creator of the record, or None
    rec,         \* the record objects, by creator
    pc,          \* where the goroutine of each request is
    rid, hash,   \* recordID and body hash of each request
    now,         \* the clock reading of each request, taken before the mutex
    decision,    \* what the first critical section decided
    existing,    \* the record a replaying request holds a pointer to
    out,         \* what the middleware chain returns to the outer layers
    reply,       \* what the client has received
    collector,   \* replay and conflict counters of metrics.Collector
    restarts     \* number of restarts so far

storeVars   == <<store, rec>>
requestVars == <<rid, hash, now>>
vars == <<clock, store, rec, pc, rid, hash, now, decision, existing, out, reply,
          collector, restarts>>

--------------------------------------------------------------------------------
(* Types *)

Bodies == Requests \cup {Empty}   \* a response is named by the request that computed it

Record == [bodyHash : Hashes, inFlight : BOOLEAN, response : Bodies \cup {None},
           createdAt : Nat]

\* The nil pointer is no record.
ASSUME NilAssumption == None \notin Record

Kinds == {"none", "badRequest", "duplicated", "inProcess", "ok", "failed", "error",
          "replay", "timeout", "lost"}

Answers == [kind : Kinds, body : Bodies \cup {None}]

Answer(kind, body) == [kind |-> kind, body |-> body]
NoAnswer == Answer("none", None)

TypeOK ==
    /\ clock \in Nat
    /\ store \in [RecordIds -> Requests \cup {None}]
    /\ rec \in [Requests -> Record \cup {None}]
    /\ pc \in [Requests -> {"idle", "waiting", "running", "replaying", "answered", "dead"}]
    /\ rid \in [Requests -> RecordIds \cup {None}]
    /\ hash \in [Requests -> Hashes \cup {None}]
    /\ now \in [Requests -> Nat]
    /\ decision \in [Requests -> {"none", "execute", "replay", "duplicated", "inProcess"}]
    /\ existing \in [Requests -> Requests \cup {None}]
    /\ out \in [Requests -> Answers]
    /\ reply \in [Requests -> Answers]
    /\ collector \in [replays : Nat, conflicts : Nat]
    /\ restarts \in Nat

Init ==
    /\ clock = 0
    /\ store = [id \in RecordIds |-> None]
    /\ rec = [r \in Requests |-> None]
    /\ pc = [r \in Requests |-> "idle"]
    /\ rid = [r \in Requests |-> None]
    /\ hash = [r \in Requests |-> None]
    /\ now = [r \in Requests |-> 0]
    /\ decision = [r \in Requests |-> "none"]
    /\ existing = [r \in Requests |-> None]
    /\ out = [r \in Requests |-> NoAnswer]
    /\ reply = [r \in Requests |-> NoAnswer]
    /\ collector = [replays |-> 0, conflicts |-> 0]
    /\ restarts = 0

--------------------------------------------------------------------------------
(* A request reaches the middleware *)

\* Missing or malformed key, or a body that cannot be read: 400, nothing stored.
RejectHeaders(r) ==
    /\ pc[r] = "idle"
    /\ pc' = [pc EXCEPT ![r] = "answered"]
    /\ out' = [out EXCEPT ![r] = Answer("badRequest", None)]
    /\ UNCHANGED <<clock, storeVars, requestVars, decision, existing, reply, collector,
                   restarts>>

\* Mutant: the early return of lines 75-81 is missing, an unreadable body has no hash.
ArriveUnread(r) ==
    /\ pc[r] = "idle"
    /\ \E id \in RecordIds, h \in Hashes \cup {None} :
          /\ rid' = [rid EXCEPT ![r] = id]
          /\ hash' = [hash EXCEPT ![r] = h]
    /\ now' = [now EXCEPT ![r] = clock]
    /\ pc' = [pc EXCEPT ![r] = "waiting"]
    /\ UNCHANGED <<clock, storeVars, decision, existing, out, reply, collector, restarts>>

\* The body is read and hashed, the clock is read; the mutex is not yet held.
Arrive(r) ==
    /\ pc[r] = "idle"
    /\ \E id \in RecordIds, h \in Hashes :
          /\ rid' = [rid EXCEPT ![r] = id]
          /\ hash' = [hash EXCEPT ![r] = h]
    /\ now' = [now EXCEPT ![r] = clock]
    /\ pc' = [pc EXCEPT ![r] = "waiting"]
    /\ UNCHANGED <<clock, storeVars, decision, existing, out, reply, collector, restarts>>

--------------------------------------------------------------------------------
(* The first critical section *)

\* Mutant: records are evicted when they reach the TTL (>= for >).
AfterEvictionEarly(t) ==
    [id \in RecordIds |->
        IF store[id] # None /\ t - rec[store[id]].createdAt >= TTL
        THEN None ELSE store[id]]

\* evictExpired(t): every record older than the TTL at t leaves the store,
\* whether or not its request is still in flight.
AfterEviction(t) ==
    [id \in RecordIds |->
        IF store[id] # None /\ t - rec[store[id]].createdAt > TTL
        THEN None ELSE store[id]]

\* The pointer found under r's identifier once expired records are evicted.
Found(r) == AfterEviction(now[r])[rid[r]]

\* Mutant: a key that is used with another payload is executed anew.
ExecuteOverwriting(r) ==
    /\ pc[r] = "waiting"
    /\ Found(r) # None => rec[Found(r)].bodyHash # hash[r]
    /\ rec' = [rec EXCEPT ![r] = [bodyHash |-> hash[r], inFlight |-> TRUE,
                                  response |-> None, createdAt |-> now[r]]]
    /\ store' = [AfterEviction(now[r]) EXCEPT ![rid[r]] = r]
    /\ pc' = [pc EXCEPT ![r] = "running"]
    /\ decision' = [decision EXCEPT ![r] = "execute"]
    /\ UNCHANGED <<clock, requestVars, existing, out, reply, collector, restarts>>

Execute(r) ==
    /\ pc[r] = "waiting"
    /\ Found(r) = None
    /\ rec' = [rec EXCEPT ![r] = [bodyHash |-> hash[r], inFlight |-> TRUE,
                                  response |-> None, createdAt |-> now[r]]]
    /\ store' = [AfterEviction(now[r]) EXCEPT ![rid[r]] = r]
    /\ pc' = [pc EXCEPT ![r] = "running"]
    /\ decision' = [decision EXCEPT ![r] = "execute"]
    /\ UNCHANGED <<clock, requestVars, existing, out, reply, collector, restarts>>

\* 409, with the code given by kind.
Refuse(r, kind) ==
    /\ store' = AfterEviction(now[r])
    /\ pc' = [pc EXCEPT ![r] = "answered"]
    /\ decision' = [decision EXCEPT ![r] = kind]
    /\ out' = [out EXCEPT ![r] = Answer(kind, None)]
    /\ collector' = [collector EXCEPT !.conflicts = @ + 1]
    /\ UNCHANGED <<clock, rec, requestVars, existing, reply, restarts>>

RefuseDuplicate(r) ==
    /\ pc[r] = "waiting"
    /\ Found(r) # None
    /\ rec[Found(r)].bodyHash # hash[r]
    /\ Refuse(r, "duplicated")

RefuseInProcess(r) ==
    /\ pc[r] = "waiting"
    /\ Found(r) # None
    /\ rec[Found(r)].bodyHash = hash[r]
    /\ rec[Found(r)].inFlight
    /\ Refuse(r, "inProcess")

\* Mutant: the comparison of the body hashes (line 91) is dropped.
BeginReplayOfAnyPayload(r) ==
    /\ pc[r] = "waiting"
    /\ Found(r) # None
    /\ ~rec[Found(r)].inFlight
    /\ store' = AfterEviction(now[r])
    /\ existing' = [existing EXCEPT ![r] = Found(r)]
    /\ pc' = [pc EXCEPT ![r] = "replaying"]
    /\ decision' = [decision EXCEPT ![r] = "replay"]
    /\ UNCHANGED <<clock, rec, requestVars, out, reply, collector, restarts>>

BeginReplay(r) ==
    /\ pc[r] = "waiting"
    /\ Found(r) # None
    /\ rec[Found(r)].bodyHash = hash[r]
    /\ ~rec[Found(r)].inFlight
    /\ store' = AfterEviction(now[r])
    /\ existing' = [existing EXCEPT ![r] = Found(r)]
    /\ pc' = [pc EXCEPT ![r] = "replaying"]
    /\ decision' = [decision EXCEPT ![r] = "replay"]
    /\ UNCHANGED <<clock, rec, requestVars, out, reply, collector, restarts>>

Enter(r) == Execute(r) \/ RefuseDuplicate(r) \/ RefuseInProcess(r) \/ BeginReplay(r)

\* Mutant: a replay without a body is never written.
ReplayWithBody(r) ==
    /\ pc[r] = "replaying"
    /\ rec[existing[r]].response # Empty
    /\ pc' = [pc EXCEPT ![r] = "answered"]
    /\ out' = [out EXCEPT ![r] = Answer("replay", rec[existing[r]].response)]
    /\ collector' = [collector EXCEPT !.replays = @ + 1]
    /\ UNCHANGED <<clock, storeVars, requestVars, decision, existing, reply, restarts>>

\* The stored response is read through the pointer, the mutex released.
Replay(r) ==
    /\ pc[r] = "replaying"
    /\ pc' = [pc EXCEPT ![r] = "answered"]
    /\ out' = [out EXCEPT ![r] = Answer("replay", rec[existing[r]].response)]
    /\ collector' = [collector EXCEPT !.replays = @ + 1]
    /\ UNCHANGED <<clock, storeVars, requestVars, decision, existing, reply, restarts>>

--------------------------------------------------------------------------------
(* The handler returns, and the second critical section runs *)

\* The record now under r's identifier takes r's response, whoever created it.
StoreResponse(r, body) ==
    LET h == store[rid[r]] IN
    /\ rec' = IF h = None THEN rec
              ELSE [rec EXCEPT ![h].response = body, ![h].inFlight = FALSE]
    /\ UNCHANGED store

Finish(r, answer) ==
    /\ pc[r] = "running"
    /\ pc' = [pc EXCEPT ![r] = "answered"]
    /\ out' = [out EXCEPT ![r] = answer]
    /\ UNCHANGED <<clock, requestVars, decision, existing, reply, collector, restarts>>

\* The handler wrote a 2xx or 3xx response.
FinishOk(r) ==
    /\ Finish(r, Answer("ok", r))
    /\ StoreResponse(r, r)

\* The handler wrote a 4xx or 5xx response: the record is deleted.
FinishFailed(r) ==
    /\ Finish(r, Answer("failed", None))
    /\ store' = [store EXCEPT ![rid[r]] = None]
    /\ UNCHANGED rec

\* Mutant: the error is returned before the second critical section.
FinishUnwrittenEarly(r) ==
    /\ Finish(r, Answer("error", None))
    /\ UNCHANGED storeVars

\* The handler returned an error and wrote nothing (no route, or a response that
\* cannot be encoded): the recorder has no status, the response object still says
\* 200, and the record is completed with an empty body.  The client is answered
\* by the error handler of the outer layer.
FinishUnwritten(r) ==
    /\ Finish(r, Answer("error", None))
    /\ StoreResponse(r, Empty)

\* Mutant: a handler whose client was answered by the timeout never comes back.
LeaveInTime(r) ==
    /\ reply[r] = NoAnswer
    /\ FinishOk(r) \/ FinishFailed(r) \/ FinishUnwritten(r)

Leave(r) == FinishOk(r) \/ FinishFailed(r) \/ FinishUnwritten(r)

--------------------------------------------------------------------------------
(* The layers around the middleware *)

Arrived(r) == pc[r] \in {"waiting", "running", "replaying", "answered"}

\* The buffered answer is sent, unless the timeout has already answered.
Deliver(r) ==
    /\ pc[r] = "answered"
    /\ reply[r] = NoAnswer
    /\ reply' = [reply EXCEPT ![r] = out[r]]
    /\ UNCHANGED <<clock, storeVars, pc, requestVars, decision, existing, out, collector,
                   restarts>>

\* The timeout fires, or the client disconnects: 503, and the goroutine goes on.
Timeout(r) ==
    /\ Arrived(r)
    /\ reply[r] = NoAnswer
    /\ reply' = [reply EXCEPT ![r] = Answer("timeout", None)]
    /\ UNCHANGED <<clock, storeVars, pc, requestVars, decision, existing, out, collector,
                   restarts>>

Unfinished(r) ==
    \/ pc[r] \in {"waiting", "running", "replaying"}
    \/ pc[r] = "answered" /\ reply[r] = NoAnswer

\* The process is killed and started again: memory and goroutines are gone.
Restart ==
    /\ restarts < MaxRestarts
    /\ restarts' = restarts + 1
    /\ store' = [id \in RecordIds |-> None]
    /\ rec' = [r \in Requests |-> None]
    /\ pc' = [r \in Requests |-> IF Unfinished(r) THEN "dead" ELSE pc[r]]
    /\ reply' = [r \in Requests |->
                    IF Unfinished(r) /\ reply[r] = NoAnswer
                    THEN Answer("lost", None) ELSE reply[r]]
    /\ collector' = [replays |-> 0, conflicts |-> 0]
    /\ UNCHANGED <<clock, requestVars, decision, existing, out>>

\* Time passes, as long as no request exceeds its bound.
Tick ==
    /\ clock < MaxTime
    /\ \A r \in Requests : pc[r] \in {"waiting", "running"} => clock - now[r] < MaxLag
    /\ clock' = clock + 1
    /\ UNCHANGED <<storeVars, pc, requestVars, decision, existing, out, reply, collector,
                   restarts>>

Next ==
    \/ \E r \in Requests :
          \/ RejectHeaders(r) \/ Arrive(r)
          \/ Enter(r) \/ Replay(r) \/ Leave(r)
          \/ Deliver(r) \/ Timeout(r)
    \/ Restart
    \/ Tick

Spec == Init /\ [][Next]_vars

\* Go schedules every runnable goroutine, the mutex is held only for finite
\* sections, and the handler returns: every upstream call has a timeout and the
\* context of a timed out request is cancelled.  Nothing makes clients send,
\* timeouts fire or processes die.
Fairness ==
    \A r \in Requests :
        /\ WF_vars(Enter(r))
        /\ WF_vars(Replay(r))
        /\ WF_vars(Leave(r))
        /\ WF_vars(Deliver(r))

FairSpec == Spec /\ Fairness

--------------------------------------------------------------------------------
(* Properties *)

\* The answer REQUEST_IN_PROCESS (lines 102-111) is always truthful: a record is in
\* flight only while the request that created it runs.  No error path of the second
\* critical section (lines 141-159) leaves a record behind that refuses every retry.
InFlightHasRunner ==
    \A id \in RecordIds :
        LET h == store[id] IN
        h # None /\ rec[h].inFlight => pc[h] = "running" /\ rid[h] = id

\* README.md:153: while a request is being processed no other request with its key is
\* executed.  The eviction of line 88 ignores inFlight, so this needs MaxLag <= TTL.
OneRunPerKey ==
    \A r, s \in Requests :
        pc[r] = "running" /\ pc[s] = "running" /\ rid[r] = rid[s] => r = s

\* README.md:151: a replayed body was computed for the same key and the same payload,
\* by a request at most a TTL older, although it is read after the mutex is released
\* (line 125) and written by whoever completes the record (lines 142-154).
ReplaySameRequest ==
    \A r \in Requests :
        out[r].kind = "replay" =>
            LET x == existing[r] IN
            /\ out[r].body \in {x, Empty}
            /\ rid[x] = rid[r]
            /\ hash[x] = hash[r]
            /\ now[r] - now[x] <= TTL

\* README.md:151: a completed response stays available for the whole TTL; neither the
\* eviction with a late clock reading (line 171) nor the deletion that follows another
\* request's failure (line 156) removes it before.
CompletedIsKept ==
    \A x \in Requests :
        rec[x] # None /\ ~rec[x].inFlight /\ store[rid[x]] # x => clock - now[x] > TTL

\* The response of a completed record never changes: the unlocked read of line 125 is
\* safe because no later critical section writes to the object again.
ResponseImmutable ==
    [][\A x \in Requests :
          rec[x] # None /\ ~rec[x].inFlight /\ restarts' = restarts => rec'[x] = rec[x]]_vars

\* At most one execution per key and TTL: a request starts to run only if every
\* request that completed under its key in this process is older than the TTL.
NoReexecution ==
    [][\A r, x \in Requests :
          /\ pc[r] # "running" /\ pc'[r] = "running"
          /\ rec[x] # None /\ ~rec[x].inFlight /\ rid[x] = rid[r]
          => clock - now[x] > TTL]_vars

\* Every key is released again: whatever the handler does and whether or not the client
\* was answered by the timeout, no record stays in flight (lines 141-159).
KeyReleased ==
    \A id \in RecordIds : []<>(store[id] # None => ~rec[store[id]].inFlight)

\* Every request that reaches the store is answered: by its own result, a refusal, a
\* replay, the timeout or the end of the process.
EveryoneAnswered == \A r \in Requests : pc[r] = "waiting" ~> reply[r] # NoAnswer

\* README.md:151, "Same key + same payload returns cached response": the client that
\* retries is given the response that the first client was given.  Refuted: a response
\* that was never written is replayed as an empty 200 (lines 144-147).
ReplayMatchesFirstAnswer ==
    \A r \in Requests :
        reply[r].kind = "replay" =>
            LET first == reply[existing[r]] IN
            first.kind \in {"ok", "error"} => reply[r].body = first.body

\* Refinement mapping: a record is a slot, and what the first critical section decided
\* is the verdict.
SlotOf(id) ==
    IF store[id] = None
    THEN [state |-> "free", owner |-> None, hash |-> None]
    ELSE [state |-> IF rec[store[id]].inFlight THEN "running" ELSE "done",
          owner |-> store[id],
          hash  |-> rec[store[id]].bodyHash]

slotBar    == [id \in RecordIds |-> SlotOf(id)]
verdictBar == [r \in Requests |-> [kind |-> decision[r], owner |-> existing[r]]]

Contract == INSTANCE IdempotencyContract WITH slot <- slotBar, verdict <- verdictBar

\* Every behaviour of the middleware is one that the contract allows: a running key is
\* never forgotten, and each verdict is the one the state of the key calls for.
ImplementsContract == Contract!Spec
================================================================================
