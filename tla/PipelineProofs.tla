--------------------------- MODULE PipelineProofs ---------------------------
(***************************************************************************)
(* Proofs about Pipeline, for every number of requests and keys, every     *)
(* limit and every window of latencies: a refused request leaves no trace  *)
(* in the layers within, the metrics reconcile with what was answered, and *)
(* the percentile that they show is one of the latest latencies.           *)
(***************************************************************************)
EXTENDS Pipeline, FiniteSetTheorems, SequenceTheorems, TLAPS

Owns(r) == \E id \in Ids : slot[id].owner = r

\* A request that has not reached a layer has left nothing there.
NotReached ==
  \A r \in Requests :
    /\ inner[r] \in {"idle", "key"} => limited[r] = "none"
    /\ inner[r] \in {"idle", "key", "limit"} => ~Owns(r)

\* The statuses of the layers that refuse are final, and were set there.
RefusedThere ==
  \A r \in Requests :
    /\ status[r] \in {401, 429} => inner[r] = "done" /\ ~Owns(r)
    /\ status[r] = 401 => limited[r] = "none"

\* What the client is sent is what the chain returned, unless that was too late.
AnswerKnown ==
  \A r \in Requests :
    /\ outer[r] = "new" => inner[r] = "idle"
    /\ outer[r] \in {"new", "inside"} => answer[r] = 0
    /\ outer[r] \in {"latency", "error", "done"} =>
         \/ answer[r] = 503
         \/ failed[r] /\ answer[r] = 404
         \/ failed[r] /\ answer[r] = 413 /\ inner[r] = "idle"
         \/ ~failed[r] /\ answer[r] = status[r] /\ inner[r] = "done"

\* Nothing writes these statuses but the layers that they belong to.
Unwritten == \A r \in Requests : status[r] \notin {0, 404, 413, 503}

FlowInv == TypeOK /\ NotReached /\ RefusedThere /\ AnswerKnown /\ Unwritten

LEMMA FlowImpliesNoTrace == FlowInv => RefusedLeavesNoTrace
BY DEF FlowInv, TypeOK, NotReached, RefusedThere, AnswerKnown, Unwritten, RefusedLeavesNoTrace, Owns

LEMMA InitFlow == Init => FlowInv
<1> SUFFICES ASSUME Init PROVE FlowInv
  OBVIOUS
<1>1. TypeOK
  BY MetricsAssumption
     DEF Init, TypeOK, Statuses, Keys!Init, Keys!Slots, Limiter!Init, Collector!Init
<1>2. NotReached /\ RefusedThere /\ AnswerKnown /\ Unwritten
  BY PipelineAssumption DEF Init, Keys!Init, Keys!Free, Limiter!Init, NotReached, RefusedThere, AnswerKnown, Unwritten, Owns
<1>. QED
  BY <1>1, <1>2 DEF FlowInv

\* Adding one to a counter keeps the record of counters typed.
LEMMA CountersStayTyped ==
  ASSUME NEW k \in [requests : Nat, errors : Nat, replays : Nat, conflicts : Nat]
  PROVE  /\ [k EXCEPT !.requests = @ + 1] \in [requests : Nat, errors : Nat, replays : Nat, conflicts : Nat]
         /\ [k EXCEPT !.errors = @ + 1] \in [requests : Nat, errors : Nat, replays : Nat, conflicts : Nat]
         /\ [k EXCEPT !.replays = @ + 1] \in [requests : Nat, errors : Nat, replays : Nat, conflicts : Nat]
         /\ [k EXCEPT !.conflicts = @ + 1] \in [requests : Nat, errors : Nat, replays : Nat, conflicts : Nat]
<1>1. [k EXCEPT !.requests = @ + 1] \in [requests : Nat, errors : Nat, replays : Nat, conflicts : Nat]
  OBVIOUS
<1>2. [k EXCEPT !.errors = @ + 1] \in [requests : Nat, errors : Nat, replays : Nat, conflicts : Nat]
  OBVIOUS
<1>3. [k EXCEPT !.replays = @ + 1] \in [requests : Nat, errors : Nat, replays : Nat, conflicts : Nat]
  OBVIOUS
<1>4. [k EXCEPT !.conflicts = @ + 1] \in [requests : Nat, errors : Nat, replays : Nat, conflicts : Nat]
  OBVIOUS
<1>. QED
  BY <1>1, <1>2, <1>3, <1>4

-----------------------------------------------------------------------------
(* Steps of observability, body limit and timeout.  They change neither the *)
(* layers within nor the response object, except that a request enters.     *)

LEMMA OuterStep ==
  ASSUME FlowInv, TypeOK', NEW r \in Requests,
         UNCHANGED <<status, limited, slot>>,
         \A s \in Requests \ {r} :
           /\ outer'[s] = outer[s] /\ inner'[s] = inner[s]
           /\ failed'[s] = failed[s] /\ answer'[s] = answer[s],
         inner'[r] = inner[r] \/ (inner[r] = "idle" /\ inner'[r] = "key"),
         outer'[r] # "new",
         outer'[r] = "inside" => answer'[r] = 0,
         outer'[r] \in {"latency", "error", "done"} =>
           \/ answer'[r] = 503
           \/ failed'[r] /\ answer'[r] = 404
           \/ failed'[r] /\ answer'[r] = 413 /\ inner'[r] = "idle"
           \/ ~failed'[r] /\ answer'[r] = status[r] /\ inner'[r] = "done"
  PROVE  FlowInv'
<1>1. \A s \in Requests : Owns(s)' <=> Owns(s)
  BY DEF Owns
<1>2. NotReached'
  BY <1>1 DEF NotReached, FlowInv
<1>3. RefusedThere'
  BY <1>1 DEF RefusedThere, FlowInv
<1>4. AnswerKnown'
  BY DEF AnswerKnown, FlowInv
<1>5. Unwritten'
  BY DEF Unwritten, FlowInv
<1>. QED
  BY <1>2, <1>3, <1>4, <1>5 DEF FlowInv

LEMMA ReceiveFlow == ASSUME FlowInv, NEW r \in Requests, Receive(r) PROVE FlowInv'
<1>1. TypeOK
  BY DEF FlowInv
<1>2. inner[r] = "idle" /\ answer[r] = 0
  BY DEF Receive, FlowInv, AnswerKnown
<1>3. CASE outer' = [outer EXCEPT ![r] = "inside"]
  <2>1. /\ inner' = [inner EXCEPT ![r] = "key"]
        /\ UNCHANGED <<route, status, failed, answer, history, limited, slot>>
    BY <1>1, <1>3 DEF Receive, TypeOK, After, latencies
  <2>2. TypeOK'
    <3>1. /\ counter' = [counter EXCEPT !.requests = @ + 1]
          /\ UNCHANGED <<latencies, bucket, verdict>>
      BY DEF Receive
    <3>2. counter' \in [requests : Nat, errors : Nat, replays : Nat, conflicts : Nat]
      BY <1>1, <3>1, CountersStayTyped DEF TypeOK
    <3>3. inner' \in [Requests -> Layers \union {"idle", "done"}]
      BY <1>1, <2>1 DEF TypeOK, Layers
    <3>4. outer' \in [Requests -> {"new", "inside", "latency", "error", "done"}]
      BY <1>1, <1>3 DEF TypeOK
    <3>. QED
      BY <1>1, <2>1, <3>2, <3>3, <3>4 DEF TypeOK
  <2>3. /\ outer'[r] = "inside" /\ answer'[r] = 0 /\ inner'[r] = "key"
        /\ \A s \in Requests \ {r} :
             /\ outer'[s] = outer[s] /\ inner'[s] = inner[s]
             /\ failed'[s] = failed[s] /\ answer'[s] = answer[s]
    BY <1>1, <1>2, <1>3, <2>1 DEF TypeOK
  <2>. QED
    BY <1>2, <2>1, <2>2, <2>3, OuterStep
<1>4. CASE outer' = [outer EXCEPT ![r] = "latency"]
  <2>1. /\ failed' = [failed EXCEPT ![r] = TRUE] /\ answer' = [answer EXCEPT ![r] = 413]
        /\ UNCHANGED <<route, inner, status, history, limited, slot>>
    BY <1>1, <1>4 DEF Receive, TypeOK, latencies
  <2>2. TypeOK'
    <3>1. /\ counter' = [counter EXCEPT !.requests = @ + 1]
          /\ UNCHANGED <<latencies, bucket, verdict>>
      BY DEF Receive
    <3>2. counter' \in [requests : Nat, errors : Nat, replays : Nat, conflicts : Nat]
      BY <1>1, <3>1, CountersStayTyped DEF TypeOK
    <3>3. failed' \in [Requests -> BOOLEAN]
      BY <1>1, <2>1 DEF TypeOK
    <3>4. answer' \in [Requests -> Statuses \union {0}]
      BY <1>1, <2>1 DEF TypeOK, Statuses
    <3>5. outer' \in [Requests -> {"new", "inside", "latency", "error", "done"}]
      BY <1>1, <1>4 DEF TypeOK
    <3>. QED
      BY <1>1, <2>1, <3>1, <3>2, <3>3, <3>4, <3>5 DEF TypeOK, latencies
  <2>3. /\ outer'[r] = "latency" /\ failed'[r] /\ answer'[r] = 413 /\ inner'[r] = "idle"
        /\ \A s \in Requests \ {r} :
             /\ outer'[s] = outer[s] /\ inner'[s] = inner[s]
             /\ failed'[s] = failed[s] /\ answer'[s] = answer[s]
    BY <1>1, <1>2, <1>4, <2>1 DEF TypeOK
  <2>. QED
    BY <2>1, <2>2, <2>3, OuterStep
<1>. QED
  BY <1>3, <1>4 DEF Receive

LEMMA ReturnFlow == ASSUME FlowInv, NEW r \in Requests, Return(r) PROVE FlowInv'
<1>1. TypeOK
  BY DEF FlowInv
<1>2. TypeOK'
  BY <1>1 DEF Return, TypeOK, Statuses, latencies
<1>. QED
  BY <1>1, <1>2, OuterStep DEF Return, TypeOK

LEMMA TimeoutFlow == ASSUME FlowInv, NEW r \in Requests, Timeout(r) PROVE FlowInv'
<1>1. TypeOK
  BY DEF FlowInv
<1>2. TypeOK'
  BY <1>1 DEF Timeout, TypeOK, Statuses, latencies
<1>. QED
  BY <1>1, <1>2, OuterStep DEF Timeout, TypeOK

LEMMA HistoryGrows ==
  ASSUME history \in Seq(Latencies), NEW d \in Latencies, Collector!AddLatency(d)
  PROVE  history' \in Seq(Latencies) /\ Len(history') = Len(history) + 1
BY DEF Collector!AddLatency

LEMMA AddLatencyFlow == ASSUME FlowInv, NEW r \in Requests, AddLatency(r) PROVE FlowInv'
<1>1. TypeOK /\ AnswerKnown
  BY DEF FlowInv
<1>2. history' \in Seq(Latencies)
  BY <1>1, HistoryGrows DEF AddLatency, TypeOK
<1>3. TypeOK'
  BY <1>1, <1>2 DEF AddLatency, TypeOK
<1>. QED
  BY <1>1, <1>3, OuterStep DEF AddLatency, TypeOK, AnswerKnown

LEMMA AddErrorFlow == ASSUME FlowInv, NEW r \in Requests, AddError(r) PROVE FlowInv'
<1>1. TypeOK /\ AnswerKnown
  BY DEF FlowInv
<1>2. counter' \in [requests : Nat, errors : Nat, replays : Nat, conflicts : Nat]
  <2>1. counter' = counter \/ counter' = [counter EXCEPT !.errors = @ + 1]
    BY DEF AddError
  <2>2. counter \in [requests : Nat, errors : Nat, replays : Nat, conflicts : Nat]
    BY <1>1 DEF TypeOK
  <2>. QED
    BY <2>1, <2>2, CountersStayTyped
<1>3. TypeOK'
  BY <1>1, <1>2 DEF AddError, TypeOK, latencies
<1>. QED
  BY <1>1, <1>3, OuterStep DEF AddError, TypeOK, AnswerKnown

-----------------------------------------------------------------------------
(* Steps of the layers within. *)

LEMMA InnerStep ==
  ASSUME FlowInv, TypeOK', NEW r \in Requests,
         inner[r] \in Layers,
         UNCHANGED <<outer, answer>>,
         \A s \in Requests \ {r} :
           /\ inner'[s] = inner[s] /\ status'[s] = status[s] /\ failed'[s] = failed[s]
           /\ limited'[s] = limited[s] /\ (Owns(s)' => Owns(s)),
         inner'[r] \in {"limit", "idempotency", "handler", "done"},
         inner'[r] = "limit" => ~Owns(r)',
         failed[r] => failed'[r],
         status'[r] \notin {0, 404, 413, 503},
         status'[r] \in {401, 429} => inner'[r] = "done" /\ ~Owns(r)',
         status'[r] = 401 => limited'[r] = "none"
  PROVE  FlowInv'
<1>2. NotReached'
  BY DEF NotReached, FlowInv
<1>3. RefusedThere'
  BY DEF RefusedThere, FlowInv
<1>4. AnswerKnown'
  BY DEF AnswerKnown, FlowInv, Layers
<1>5. Unwritten'
  BY DEF Unwritten, FlowInv
<1>. QED
  BY <1>2, <1>3, <1>4, <1>5 DEF FlowInv

\* A request that is still in a layer has not been refused.
LEMMA NotYetRefused ==
  ASSUME FlowInv, NEW r \in Requests, inner[r] \in Layers
  PROVE  status[r] \notin {0, 401, 404, 413, 429, 503}
BY DEF FlowInv, RefusedThere, Unwritten, Layers

\* What the three ways out of a layer do to the request, and to the others.
LEMMA ProceedMoves ==
  ASSUME TypeOK, NEW r \in Requests, NEW layer, Proceed(r, layer)
  PROVE  /\ inner' \in [Requests -> Layers \union {"idle", "done"}]
         /\ inner'[r] = After(layer)
         /\ status' = status /\ failed' = failed
         /\ \A s \in Requests \ {r} : inner'[s] = inner[s]
<1>1. After(layer) \in Layers
  BY DEF After, Layers
<1>. QED
  BY <1>1 DEF Proceed, TypeOK

LEMMA WriteMoves ==
  ASSUME TypeOK, NEW r \in Requests, NEW code \in Statuses, Write(r, code)
  PROVE  /\ inner' \in [Requests -> Layers \union {"idle", "done"}]
         /\ status' \in [Requests -> Statuses]
         /\ inner'[r] = "done" /\ status'[r] = code /\ failed' = failed
         /\ \A s \in Requests \ {r} : inner'[s] = inner[s] /\ status'[s] = status[s]
BY DEF Write, TypeOK

LEMMA FailMoves ==
  ASSUME TypeOK, NEW r \in Requests, Fail(r)
  PROVE  /\ inner' \in [Requests -> Layers \union {"idle", "done"}]
         /\ failed' \in [Requests -> BOOLEAN]
         /\ inner'[r] = "done" /\ failed'[r] /\ status' = status
         /\ \A s \in Requests \ {r} : inner'[s] = inner[s] /\ failed'[s] = failed[s]
BY DEF Fail, TypeOK

LEMMA CheckKeyFlow == ASSUME FlowInv, NEW r \in Requests, CheckKey(r) PROVE FlowInv'
<1>1. TypeOK /\ inner[r] \in Layers
  BY DEF FlowInv, CheckKey, Layers
<1>2. limited[r] = "none" /\ ~Owns(r)
  BY DEF FlowInv, NotReached, CheckKey
<1>3. \A s \in Requests : Owns(s)' <=> Owns(s)
  BY DEF Owns, CheckKey
<1>4. UNCHANGED <<route, outer, answer, counter, history, limited, slot>>
  BY DEF CheckKey, InnerOnly, latencies
<1>5. CASE Proceed(r, "key")
  <2>1. After("key") = "limit"
    BY DEF After
  <2>2. TypeOK'
    BY <1>1, <1>4, <1>5, ProceedMoves DEF TypeOK
  <2>. QED
    BY <1>1, <1>2, <1>3, <1>4, <1>5, <2>1, <2>2, ProceedMoves, NotYetRefused, InnerStep
<1>6. CASE Write(r, 401)
  <2>1. 401 \in Statuses
    BY DEF Statuses
  <2>2. TypeOK'
    BY <1>1, <1>4, <1>6, <2>1, WriteMoves DEF TypeOK
  <2>. QED
    BY <1>1, <1>2, <1>3, <1>4, <1>6, <2>1, <2>2, WriteMoves, InnerStep
<1>. QED
  BY <1>5, <1>6 DEF CheckKey

LEMMA LimitFlow == ASSUME FlowInv, NEW r \in Requests, Limit(r) PROVE FlowInv'
<1>1. TypeOK /\ inner[r] \in Layers
  BY DEF FlowInv, Limit, Layers
<1>2. ~Owns(r)
  BY DEF FlowInv, NotReached, Limit
<1>3. \A s \in Requests : Owns(s)' <=> Owns(s)
  BY DEF Owns, Limit
<1>4. /\ limited' \in [Requests -> {"none", "admitted", "refused"}]
      /\ \A s \in Requests \ {r} : limited'[s] = limited[s]
  BY <1>1 DEF Limit, Limiter!Admit, Limiter!Refuse, TypeOK
<1>5. UNCHANGED <<route, outer, answer, counter, history, slot>>
  BY DEF Limit, InnerOnly, latencies
<1>6. CASE Proceed(r, "limit")
  <2>1. After("limit") = "idempotency"
    BY DEF After
  <2>2. TypeOK'
    BY <1>1, <1>4, <1>5, <1>6, ProceedMoves DEF TypeOK
  <2>. QED
    BY <1>1, <1>3, <1>4, <1>5, <1>6, <2>1, <2>2, ProceedMoves, NotYetRefused, InnerStep
<1>7. CASE Write(r, 429)
  <2>1. 429 \in Statuses
    BY DEF Statuses
  <2>2. TypeOK'
    BY <1>1, <1>4, <1>5, <1>7, <2>1, WriteMoves DEF TypeOK
  <2>. QED
    BY <1>1, <1>2, <1>3, <1>4, <1>5, <1>7, <2>1, <2>2, WriteMoves, InnerStep
<1>. QED
  BY <1>6, <1>7 DEF Limit

LEMMA CheckIdempotencyFlow ==
  ASSUME FlowInv, NEW r \in Requests, CheckIdempotency(r)
  PROVE  FlowInv'
<1>1. TypeOK /\ inner[r] \in Layers
  BY DEF FlowInv, CheckIdempotency, Layers
<1>2. /\ slot' \in [Ids -> Keys!Slots]
      /\ \A s \in Requests \ {r} : Owns(s)' => Owns(s)
      /\ counter' \in [requests : Nat, errors : Nat, replays : Nat, conflicts : Nat]
      /\ \/ Proceed(r, "idempotency")
         \/ \E code \in {200, 400, 409} : Write(r, code)
  <2>1. CASE UNCHANGED <<counter, slot, verdict>> /\ (Write(r, 400) \/ Proceed(r, "idempotency"))
    BY <1>1, <2>1 DEF TypeOK, Owns
  <2>2. ASSUME NEW id \in Ids,
               \/ Keys!Execute(r, id, "payload", {}) /\ Proceed(r, "idempotency") /\ UNCHANGED counter
               \/ /\ Keys!InProcess(r, id, "payload", {}) /\ Write(r, 409)
                  /\ counter' = [counter EXCEPT !.conflicts = @ + 1]
               \/ /\ Keys!Replay(r, id, "payload", {}) /\ Write(r, 200)
                  /\ counter' = [counter EXCEPT !.replays = @ + 1]
        PROVE  <1>2!1 /\ <1>2!2 /\ <1>2!3 /\ <1>2!4
    <3>1. Keys!Forget({}) = slot
      BY <1>1 DEF Keys!Forget, TypeOK
    <3>2. \/ slot' = slot
          \/ slot' = [slot EXCEPT ![id] = [state |-> "running", owner |-> r, hash |-> "payload"]]
      BY <2>2, <3>1 DEF Keys!Execute, Keys!InProcess, Keys!Replay
    <3>3. slot' \in [Ids -> Keys!Slots] /\ \A s \in Requests \ {r} : Owns(s)' => Owns(s)
      <4>1. slot \in [Ids -> Keys!Slots]
        BY <1>1 DEF TypeOK
      <4>2. [state |-> "running", owner |-> r, hash |-> "payload"] \in Keys!Slots
        BY DEF Keys!Slots
      <4>3. slot' \in [Ids -> Keys!Slots]
        BY <3>2, <4>1, <4>2
      <4>. QED
        BY <3>2, <4>1, <4>3 DEF Owns
    <3>4. counter' \in [requests : Nat, errors : Nat, replays : Nat, conflicts : Nat]
      <4>1. \/ counter' = counter
            \/ counter' = [counter EXCEPT !.conflicts = @ + 1]
            \/ counter' = [counter EXCEPT !.replays = @ + 1]
        BY <2>2
      <4>2. counter \in [requests : Nat, errors : Nat, replays : Nat, conflicts : Nat]
        BY <1>1 DEF TypeOK
      <4>. QED
        BY <4>1, <4>2, CountersStayTyped
    <3>. QED
      BY <2>2, <3>3, <3>4
  <2>. QED
    <3>1. \A id \in IdsOf(r) : id \in Ids
      BY PipelineAssumption DEF IdsOf
    <3>. QED
      BY <2>1, <2>2, <3>1 DEF CheckIdempotency
<1>3. UNCHANGED <<route, outer, answer, latencies, limited>>
  BY DEF CheckIdempotency, InnerOnly
<1>4. CASE Proceed(r, "idempotency")
  <2>1. After("idempotency") = "handler"
    BY DEF After
  <2>2. TypeOK'
    BY <1>1, <1>2, <1>3, <1>4, ProceedMoves DEF TypeOK, latencies
  <2>. QED
    BY <1>1, <1>2, <1>3, <1>4, <2>1, <2>2, ProceedMoves, NotYetRefused, InnerStep
<1>5. ASSUME NEW code \in {200, 400, 409}, Write(r, code)
      PROVE  FlowInv'
  <2>1. code \in Statuses \ {0, 401, 404, 413, 429, 503}
    BY DEF Statuses
  <2>2. /\ inner' \in [Requests -> Layers \union {"idle", "done"}]
        /\ status' \in [Requests -> Statuses]
        /\ failed' = failed
    BY <1>1, <1>5, <2>1, WriteMoves
  <2>3. TypeOK'
    BY <1>1, <1>2, <1>3, <2>2 DEF TypeOK, latencies
  <2>. QED
    BY <1>1, <1>2, <1>3, <1>5, <2>1, <2>3, WriteMoves, InnerStep
<1>. QED
  BY <1>2, <1>4, <1>5

LEMMA HandleFlow == ASSUME FlowInv, NEW r \in Requests, Handle(r) PROVE FlowInv'
<1>1. TypeOK /\ inner[r] \in Layers
  BY DEF FlowInv, Handle, Layers
<1>2. /\ slot' \in [Ids -> Keys!Slots]
      /\ \A s \in Requests : Owns(s)' => Owns(s)
  <2>1. ASSUME NEW id \in Ids, Keys!Complete(id) \/ Keys!Abort(id)
        PROVE  <1>2!1 /\ <1>2!2
    <3>1. slot \in [Ids -> Keys!Slots]
      BY <1>1 DEF TypeOK
    <3>2. PICK t \in Keys!Slots : slot' = [slot EXCEPT ![id] = t] /\ t.owner \in {slot[id].owner, None}
      BY <2>1, <3>1 DEF Keys!Complete, Keys!Abort, Keys!Slots, Keys!Free
    <3>. QED
      BY <3>1, <3>2, PipelineAssumption DEF Owns
  <2>2. CASE UNCHANGED slot
    BY <1>1, <2>2 DEF TypeOK, Owns
  <2>. QED
    BY <2>1, <2>2 DEF Handle
<1>3. Fail(r) \/ \E code \in {200, 400, 500, 502} : Write(r, code)
  BY DEF Handle
<1>4. UNCHANGED <<route, outer, answer, counter, limited, history>>
  BY DEF Handle, InnerOnly, latencies, Collector!Snapshot
<1>5. CASE Fail(r)
  <2>1. TypeOK'
    BY <1>1, <1>2, <1>4, <1>5, FailMoves DEF TypeOK
  <2>. QED
    BY <1>1, <1>2, <1>4, <1>5, <2>1, FailMoves, NotYetRefused, InnerStep
<1>6. ASSUME NEW code \in {200, 400, 500, 502}, Write(r, code)
      PROVE  FlowInv'
  <2>1. code \in Statuses \ {0, 401, 404, 413, 429, 503}
    BY DEF Statuses
  <2>2. TypeOK'
    BY <1>1, <1>2, <1>4, <1>6, <2>1, WriteMoves DEF TypeOK
  <2>. QED
    BY <1>1, <1>2, <1>4, <1>6, <2>1, <2>2, WriteMoves, InnerStep
<1>. QED
  BY <1>3, <1>5, <1>6

LEMMA NextFlow == FlowInv /\ [Next]_vars => FlowInv'
<1> SUFFICES ASSUME FlowInv, [Next]_vars PROVE FlowInv'
  OBVIOUS
<1>1. CASE UNCHANGED vars
  BY <1>1 DEF vars, flow, latencies, FlowInv, TypeOK, NotReached, RefusedThere, AnswerKnown, Unwritten, Owns
<1>2. CASE Next
  BY <1>2, ReceiveFlow, ReturnFlow, TimeoutFlow, AddLatencyFlow, AddErrorFlow, CheckKeyFlow,
     LimitFlow, CheckIdempotencyFlow, HandleFlow DEF Next
<1>. QED
  BY <1>1, <1>2

\* The order of the layers is the order of their effects, for every number of requests:
\* a request that is refused by one layer has left nothing in the layers within.
THEOREM RefusedLeavesNoTraceCorrect == Spec => []RefusedLeavesNoTrace
BY InitFlow, NextFlow, FlowImpliesNoTrace, PTL DEF Spec

-----------------------------------------------------------------------------
(* Accounting.  Beyond the requests served before, each counter is the size *)
(* of the set of requests that have passed the step which adds to it.       *)

Received == {r \in Requests : outer[r] # "new"}
Timed == {r \in Requests : outer[r] \in {"error", "done"}}
Errors == {r \in Accounted : AnsweredError(r)}
SureErrors == {r \in Errors : answer[r] # 503}

CountInv ==
  /\ counter.requests = Len(Earlier) + Cardinality(Received)
  /\ Len(history) = Len(Earlier) + Cardinality(Timed)
  /\ counter.errors \in Cardinality(SureErrors) .. Cardinality(Errors)

LEMMA CountsAreNaturals ==
  /\ IsFiniteSet(Received) /\ Cardinality(Received) \in Nat
  /\ IsFiniteSet(Timed) /\ Cardinality(Timed) \in Nat
  /\ IsFiniteSet(Errors) /\ Cardinality(Errors) \in Nat
  /\ IsFiniteSet(SureErrors) /\ Cardinality(SureErrors) \in Nat
<1>1. /\ Received \subseteq Requests /\ Timed \subseteq Requests
      /\ Errors \subseteq Requests /\ SureErrors \subseteq Requests
  BY DEF Received, Timed, Errors, SureErrors, Accounted
<1>. QED
  BY <1>1, PipelineAssumption, FS_Subset, FS_CardinalityType

LEMMA EarlierIsCounted == Len(Earlier) \in Nat
BY MetricsAssumption

LEMMA CountImpliesReconcile == TypeOK /\ CountInv => MetricsReconcile
<1> SUFFICES ASSUME TypeOK, CountInv PROVE MetricsReconcile
  OBVIOUS
<1>1. Errors \subseteq Timed /\ Timed \subseteq Received
  BY DEF Errors, Timed, Received, Accounted
<1>2. Cardinality(Errors) <= Cardinality(Timed) /\ Cardinality(Timed) <= Cardinality(Received)
  BY <1>1, CountsAreNaturals, FS_Subset
<1>3. counter.errors <= Len(history) /\ Len(history) <= counter.requests
  BY <1>2, EarlierIsCounted, CountsAreNaturals DEF CountInv
<1>4. counter.errors \in Cardinality(SureErrors) .. Cardinality(Errors)
  BY DEF CountInv
<1>. QED
  BY <1>3, <1>4 DEF MetricsReconcile, Errors, SureErrors

LEMMA InitCount == Init => CountInv
<1> SUFFICES ASSUME Init PROVE CountInv
  OBVIOUS
<1>1. Received = {} /\ Timed = {} /\ Errors = {} /\ SureErrors = {}
  BY DEF Init, Received, Timed, Errors, SureErrors, Accounted
<1>2. /\ counter.requests = Len(Earlier) /\ counter.errors = 0
      /\ Len(history) = Len(Earlier) /\ Len(Earlier) \in Nat
  BY MetricsAssumption DEF Init, Collector!Init
<1>. QED
  BY <1>1, <1>2, FS_EmptySet DEF CountInv

\* What is counted of a request that a step does not move.
LEMMA ErrorsUnmoved ==
  ASSUME UNCHANGED Accounted, \A r \in Accounted : answer'[r] = answer[r]
  PROVE  UNCHANGED <<Errors, SureErrors>>
BY DEF Errors, SureErrors, Accounted, AnsweredError

LEMMA ReceiveCount ==
  ASSUME TypeOK, CountInv, NEW r \in Requests, Receive(r)
  PROVE  CountInv'
<1>1. \E o \in {"inside", "latency"} : outer' = [outer EXCEPT ![r] = o]
  BY DEF Receive
<1>2. r \notin Received /\ Received' = Received \union {r}
  BY <1>1 DEF Receive, Received, TypeOK
<1>3. UNCHANGED <<Timed, Accounted>>
  BY <1>1 DEF Receive, Timed, Accounted, TypeOK
<1>4. \A s \in Accounted : answer'[s] = answer[s]
  BY DEF Receive, Accounted, TypeOK
<1>5. Cardinality(Received') = Cardinality(Received) + 1
  BY <1>2, CountsAreNaturals, FS_AddElement
<1>6. counter'.requests = counter.requests + 1 /\ counter'.errors = counter.errors
  BY DEF Receive, TypeOK
<1>7. history' = history
  BY DEF Receive, latencies
<1>8. counter'.requests = Len(Earlier) + Cardinality(Received')
  BY <1>5, <1>6, EarlierIsCounted, CountsAreNaturals DEF CountInv
<1>9. Len(history') = Len(Earlier) + Cardinality(Timed')
  BY <1>3, <1>7 DEF CountInv
<1>10. UNCHANGED <<Errors, SureErrors>>
  BY <1>3, <1>4, ErrorsUnmoved
<1>11. counter'.errors \in Cardinality(SureErrors') .. Cardinality(Errors')
  BY <1>6, <1>10 DEF CountInv
<1>. QED
  BY <1>8, <1>9, <1>11 DEF CountInv

LEMMA AnswerCount ==
  ASSUME TypeOK, CountInv, NEW r \in Requests, Return(r) \/ Timeout(r)
  PROVE  CountInv'
<1>1. outer[r] = "inside" /\ outer' = [outer EXCEPT ![r] = "latency"]
  BY DEF Return, Timeout
<1>2. UNCHANGED <<Received, Timed, Accounted>>
  BY <1>1 DEF Received, Timed, Accounted, TypeOK
<1>3. \A s \in Accounted : answer'[s] = answer[s]
  BY <1>1 DEF Return, Timeout, Accounted, TypeOK
<1>4. counter' = counter /\ history' = history
  BY DEF Return, Timeout, latencies
<1>. QED
  BY <1>2, <1>3, <1>4, ErrorsUnmoved DEF CountInv

LEMMA AddLatencyCount ==
  ASSUME TypeOK, CountInv, NEW r \in Requests, AddLatency(r)
  PROVE  CountInv'
<1>1. r \notin Timed /\ Timed' = Timed \union {r}
  BY DEF AddLatency, Timed, TypeOK
<1>2. UNCHANGED <<Received, Accounted>>
  BY DEF AddLatency, Received, Accounted, TypeOK
<1>3. UNCHANGED <<Errors, SureErrors>>
  BY <1>2, ErrorsUnmoved DEF AddLatency
<1>4. Cardinality(Timed') = Cardinality(Timed) + 1
  BY <1>1, CountsAreNaturals, FS_AddElement
<1>5. Len(history') = Len(history) + 1
  BY HistoryGrows DEF AddLatency, TypeOK
<1>6. counter' = counter
  BY DEF AddLatency
<1>. QED
  BY <1>2, <1>3, <1>4, <1>5, <1>6, EarlierIsCounted, CountsAreNaturals DEF CountInv

\* The status that observability reads decides as the answer does, but for a timeout.
LEMMA ErrorIsAnswered ==
  ASSUME TypeOK, AnswerKnown, NEW r \in Requests, outer[r] = "error"
  PROVE  /\ AnsweredError(r) /\ answer[r] # 503 => IsError(r)
         /\ IsError(r) => AnsweredError(r)
BY DEF TypeOK, Statuses, AnswerKnown, AnsweredError, IsError

LEMMA AddErrorCount ==
  ASSUME TypeOK, AnswerKnown, CountInv, NEW r \in Requests, AddError(r)
  PROVE  CountInv'
<1>1. UNCHANGED <<Received, Timed>>
  BY DEF AddError, Received, Timed, TypeOK
<1>2. r \notin Accounted /\ Accounted' = Accounted \union {r}
  BY DEF AddError, Accounted, TypeOK
<1>3. answer' = answer /\ history' = history
  BY DEF AddError, latencies
<1>4. /\ r \notin Errors
      /\ Errors' = IF AnsweredError(r) THEN Errors \union {r} ELSE Errors
  BY <1>2, <1>3 DEF Errors, AnsweredError
<1>5. /\ r \notin SureErrors
      /\ SureErrors' = IF AnsweredError(r) /\ answer[r] # 503
                         THEN SureErrors \union {r} ELSE SureErrors
  BY <1>2, <1>3 DEF Errors, SureErrors, AnsweredError
<1>6. /\ Cardinality(Errors') = Cardinality(Errors) + (IF AnsweredError(r) THEN 1 ELSE 0)
      /\ Cardinality(SureErrors') =
           Cardinality(SureErrors) + (IF AnsweredError(r) /\ answer[r] # 503 THEN 1 ELSE 0)
  <2>1. /\ Cardinality(Errors \union {r}) = Cardinality(Errors) + 1
        /\ Cardinality(SureErrors \union {r}) = Cardinality(SureErrors) + 1
    BY <1>4, <1>5, CountsAreNaturals, FS_AddElement
  <2>2. Cardinality(Errors) \in Nat /\ Cardinality(SureErrors) \in Nat
    BY CountsAreNaturals
  <2>. QED
    BY <1>4, <1>5, <2>1, <2>2
<1>7. /\ counter'.requests = counter.requests
      /\ counter'.errors = counter.errors + (IF IsError(r) THEN 1 ELSE 0)
  BY DEF AddError, TypeOK
<1>8. counter.errors \in Nat
  BY DEF TypeOK
<1>9. /\ AnsweredError(r) /\ answer[r] # 503 => IsError(r)
      /\ IsError(r) => AnsweredError(r)
  BY ErrorIsAnswered DEF AddError
<1>10. counter'.errors \in Cardinality(SureErrors') .. Cardinality(Errors')
  BY <1>6, <1>7, <1>8, <1>9, CountsAreNaturals DEF CountInv
<1>. QED
  BY <1>1, <1>3, <1>7, <1>10 DEF CountInv

LEMMA InnerCount ==
  ASSUME TypeOK, CountInv, NEW r \in Requests,
         CheckKey(r) \/ Limit(r) \/ CheckIdempotency(r) \/ Handle(r)
  PROVE  CountInv'
<1>1. UNCHANGED <<outer, answer, history>>
  BY DEF CheckKey, Limit, CheckIdempotency, Handle, InnerOnly, latencies, Collector!Snapshot
<1>2. counter'.requests = counter.requests /\ counter'.errors = counter.errors
  BY DEF CheckKey, Limit, CheckIdempotency, Handle, TypeOK
<1>3. UNCHANGED <<Received, Timed, Errors, SureErrors>>
  BY <1>1 DEF Received, Timed, Errors, SureErrors, Accounted, AnsweredError
<1>. QED
  BY <1>1, <1>2, <1>3 DEF CountInv

LEMMA NextCount == FlowInv /\ CountInv /\ [Next]_vars => CountInv'
<1> SUFFICES ASSUME FlowInv, CountInv, [Next]_vars PROVE CountInv'
  OBVIOUS
<1>1. TypeOK /\ AnswerKnown
  BY DEF FlowInv
<1>2. CASE UNCHANGED vars
  BY <1>2 DEF vars, flow, latencies, CountInv, Received, Timed, Errors, SureErrors, Accounted,
              AnsweredError
<1>3. CASE Next
  BY <1>1, <1>3, ReceiveCount, AnswerCount, AddLatencyCount, AddErrorCount, InnerCount DEF Next
<1>. QED
  BY <1>2, <1>3

\* The metrics reconcile with the answers, for every number of requests and every
\* interleaving of their additions: more requests than latencies than errors, and an
\* error for each error answered, but for timeouts.
THEOREM MetricsReconcileCorrect == Spec => []MetricsReconcile
<1>1. Init => FlowInv /\ CountInv
  BY InitFlow, InitCount
<1>2. FlowInv /\ CountInv /\ [Next]_vars => FlowInv' /\ CountInv'
  BY NextFlow, NextCount
<1>3. FlowInv /\ CountInv => MetricsReconcile
  BY CountImpliesReconcile DEF FlowInv
<1>. QED
  BY <1>1, <1>2, <1>3, PTL DEF Spec

-----------------------------------------------------------------------------
(* The percentile *)

\* The window holds the latest latencies, and a snapshot covers those added by then.
WindowInv ==
  /\ samples = Collector!Last(Window, history)
  /\ shown \in 0 .. Len(history)
  /\ PercentileOfRecent

\* The cardinality that the instance of Metrics knows is that of the theorems.
LEMMA SameCardinality == ASSUME NEW S PROVE Collector!Cardinality(S) = Cardinality(S)
BY DEF Cardinality, Collector!Cardinality

LEMMA RankInRange ==
  ASSUME NEW n \in Nat \ {0}
  PROVE  Collector!Rank(n) \in 0 .. n - 1
<1> DEFINE m == n - 1
           product == m * Percent
<1>1. m \in Nat /\ Percent \in 0 .. 100
  BY MetricsAssumption
<1>2. product \in Nat /\ product <= m * 100
  <2> HIDE DEF m
  <2> QED
    BY <1>1, MetricsAssumption
<1> HIDE DEF m, product
<1>3. product \div 100 \in 0 .. m
  BY <1>1, <1>2
<1> QED
  BY <1>3 DEF Collector!Rank, m, product

LEMMA LastOfAll ==
  ASSUME NEW h \in Seq(Latencies)
  PROVE  /\ Collector!Last(Window, h) \in Seq(Latencies)
         /\ Len(h) <= Window => Collector!Last(Window, h) = h
         /\ Len(h) > Window =>
              /\ Len(Collector!Last(Window, h)) = Window
              /\ \A i \in 1 .. Window :
                   Collector!Last(Window, h)[i] = h[Len(h) - Window + i]
<1> DEFINE n == Len(h)
           tail == SubSeq(h, n - Window + 1, n)
<1>1. n \in Nat /\ Window \in Nat \ {0}
  BY MetricsAssumption
<1>2. CASE n > Window
  <2>1. n - Window + 1 \in 1 .. n
    BY <1>1, <1>2
  <2>2. /\ tail \in Seq(Latencies)
        /\ Len(tail) = Window
        /\ \A i \in 1 .. Window : tail[i] = h[n - Window + i]
    BY <1>1, <1>2, <2>1, SubSeqProperties
  <2> QED
    BY <1>1, <1>2, <2>2 DEF Collector!Last
<1>3. CASE n <= Window
  BY <1>1, <1>3 DEF Collector!Last
<1> QED
  BY <1>1, <1>2, <1>3

\* Dropping what is too old after each addition is dropping it in the end.
LEMMA LastOfMore ==
  ASSUME NEW h \in Seq(Latencies), NEW d \in Latencies
  PROVE  Collector!Last(Window, Append(Collector!Last(Window, h), d))
           = Collector!Last(Window, Append(h, d))
<1> DEFINE old == Collector!Last(Window, h)
           oldMore == Append(old, d)
           more == Append(h, d)
           kept == Collector!Last(Window, oldMore)
           all == Collector!Last(Window, more)
<1>1. Window \in Nat \ {0} /\ Len(h) \in Nat
  BY MetricsAssumption
<1>2. CASE Len(h) <= Window
  BY <1>2, LastOfAll
<1>3. CASE Len(h) > Window
  <2>1. /\ old \in Seq(Latencies) /\ Len(old) = Window
        /\ \A i \in 1 .. Window : old[i] = h[Len(h) - Window + i]
    BY <1>3, LastOfAll
  <2> HIDE DEF old
  <2>2. /\ oldMore \in Seq(Latencies) /\ Len(oldMore) = Window + 1
        /\ \A i \in 1 .. Window : oldMore[i] = old[i]
        /\ oldMore[Window + 1] = d
    BY <1>1, <2>1
  <2>3. /\ more \in Seq(Latencies) /\ Len(more) = Len(h) + 1
        /\ \A i \in 1 .. Len(h) : more[i] = h[i]
        /\ more[Len(h) + 1] = d
    OBVIOUS
  <2> HIDE DEF oldMore, more
  <2>4. /\ kept \in Seq(Latencies) /\ Len(kept) = Window
        /\ \A i \in 1 .. Window : kept[i] = oldMore[i + 1]
    <3>1. /\ oldMore \in Seq(Latencies) /\ Len(oldMore) > Window
          /\ Len(oldMore) - Window = 1
      BY <1>1, <2>2
    <3>2. /\ kept \in Seq(Latencies) /\ Len(kept) = Window
          /\ \A i \in 1 .. Window : kept[i] = oldMore[Len(oldMore) - Window + i]
      BY ONLY <3>1, LastOfAll
    <3>3. \A i \in 1 .. Window : 1 + i = i + 1
      BY <1>1
    <3> QED
      BY ONLY <3>1, <3>2, <3>3
  <2>5. /\ all \in Seq(Latencies) /\ Len(all) = Window
        /\ \A i \in 1 .. Window : all[i] = more[Len(h) + 1 - Window + i]
    <3>1. more \in Seq(Latencies) /\ Len(more) > Window
      BY <1>1, <1>3, <2>3
    <3>2. /\ all \in Seq(Latencies) /\ Len(all) = Window
          /\ \A i \in 1 .. Window : all[i] = more[Len(more) - Window + i]
      BY ONLY <3>1, LastOfAll
    <3>3. Len(more) - Window = Len(h) + 1 - Window
      <4>1. Len(more) = Len(h) + 1
        BY ONLY <2>3
      <4> QED
        BY ONLY <4>1, <1>1
    <3> QED
      BY ONLY <3>2, <3>3
  <2> HIDE DEF kept, all
  <2>6. ASSUME NEW i \in 1 .. Window
        PROVE  kept[i] = all[i]
    <3>1. CASE i = Window
      BY <1>1, <1>3, <2>2, <2>3, <2>4, <2>5, <3>1
    <3>2. CASE i < Window
      <4>1. /\ i + 1 \in 1 .. Window /\ Len(h) + 1 - Window + i \in 1 .. Len(h)
            /\ Len(h) - Window + (i + 1) = Len(h) + 1 - Window + i
        BY <1>1, <1>3, <3>2
      <4>2. kept[i] = old[i + 1]
        BY <2>2, <2>4, <4>1
      <4>3. old[i + 1] = h[Len(h) + 1 - Window + i]
        BY <2>1, <4>1
      <4>4. all[i] = h[Len(h) + 1 - Window + i]
        BY <2>3, <2>5, <4>1
      <4> QED
        BY <4>2, <4>3, <4>4
    <3> QED
      BY <1>1, <3>1, <3>2
  <2>7. kept = all
    BY <2>4, <2>5, <2>6, SeqEqual
  <2> QED
    BY <2>7 DEF kept, all, oldMore, more, old
<1> QED
  BY <1>1, <1>2, <1>3

\* The element at position k of an ordered copy has fewer than k samples below it, and at
\* least k that are not above it.
LEMMA RankOfOrdered ==
  ASSUME samples \in Seq(Latencies), NEW order \in Collector!SortedOrders,
         NEW k \in 1 .. Len(samples)
  PROVE  /\ order[k] \in 1 .. Len(samples)
         /\ Cardinality({i \in DOMAIN samples : samples[i] < samples[order[k]]}) <= k - 1
         /\ Cardinality({i \in DOMAIN samples : samples[i] <= samples[order[k]]}) >= k
<1> DEFINE n == Len(samples)
           N == 1 .. n
           value == samples[order[k]]
           below == {i \in N : samples[i] < value}
           upTo == {i \in N : samples[i] <= value}
<1>1. n \in Nat /\ DOMAIN samples = N
  OBVIOUS
<1>2. \A i \in N : samples[i] \in Int
  <2>1. \A i \in N : samples[i] \in Latencies
    BY ElementOfSeq
  <2>2. Latencies \subseteq Int
    BY PipelineAssumption
  <2> QED
    BY ONLY <2>1, <2>2, Zenon
<1>3. /\ order \in [N -> N]
      /\ \A i, j \in N : order[i] = order[j] => i = j
      /\ \A i \in N : \E j \in N : order[j] = i
  BY <1>1 DEF Collector!SortedOrders, Collector!Bijection, Collector!Injection,
       Collector!Surjection, Collector!IsInjective
<1>4. \A i, j \in N : i < j => samples[order[i]] <= samples[order[j]]
  BY <1>1 DEF Collector!SortedOrders
<1>5. IsFiniteSet(N) /\ IsFiniteSet(below) /\ IsFiniteSet(upTo)
  <2> HIDE DEF n
  <2>1. IsFiniteSet(N)
    BY <1>1, FS_Interval
  <2> HIDE DEF value
  <2> QED
    BY <2>1, FS_Subset
<1>6. k \in N /\ k \in Nat
  OBVIOUS
<1> HIDE DEF n
<1>7. value \in Int
  BY <1>2, <1>3, <1>6
<1>8. Cardinality(below) <= k - 1
  <2> DEFINE S == {j \in N : samples[order[j]] < value}
             f == [j \in S |-> order[j]]
  <2>1. S \subseteq 1 .. k - 1
    <3> SUFFICES ASSUME NEW j \in S PROVE j < k
      BY <1>1
    <3>1. j \in N /\ samples[order[j]] < samples[order[k]]
      OBVIOUS
    <3>2. /\ samples[order[j]] \in Int /\ samples[order[k]] \in Int
          /\ k < j => samples[order[k]] <= samples[order[j]]
      BY <1>2, <1>3, <1>4, <1>6, <3>1
    <3>3. ~(k < j) /\ j # k
      BY ONLY <3>1, <3>2
    <3> QED
      BY <1>1, <1>6, <3>1, <3>3
  <2>2. f \in Surjection(S, below)
    <3>1. f \in [S -> below]
      BY <1>3
    <3>2. \A i \in below : \E j \in S : f[j] = i
      BY <1>3
    <3> QED
      BY ONLY <3>1, <3>2 DEF Surjection
  <2>3. IsFiniteSet(1 .. k - 1) /\ Cardinality(1 .. k - 1) = k - 1
    BY <1>6, FS_Interval
  <2> HIDE DEF S, f, below
  <2>4. IsFiniteSet(S) /\ Cardinality(S) <= k - 1
    BY <2>1, <2>3, FS_Subset
  <2>5. Cardinality(below) <= Cardinality(S)
    BY <2>2, <2>4, FS_Surjection
  <2>6. Cardinality(below) \in Nat /\ Cardinality(S) \in Nat
    BY <1>5, <2>4, FS_CardinalityType
  <2> QED
    BY ONLY <1>6, <2>4, <2>5, <2>6
<1>9. Cardinality(upTo) >= k
  <2> DEFINE f == [j \in 1 .. k |-> order[j]]
  <2>1. 1 .. k \subseteq N
    BY <1>1, <1>6
  <2>2. \A j \in 1 .. k : samples[order[j]] <= value
    <3> SUFFICES ASSUME NEW j \in 1 .. k PROVE samples[order[j]] <= value
      OBVIOUS
    <3>1. CASE j = k
      BY <1>7, <3>1
    <3>2. CASE j < k
      BY <1>4, <1>6, <2>1, <3>2
    <3> QED
      BY <1>6, <3>1, <3>2
  <2>3. f \in Injection(1 .. k, upTo)
    <3>1. f \in [1 .. k -> upTo]
      BY <1>3, <2>1, <2>2
    <3>2. \A i, j \in 1 .. k : f[i] = f[j] => i = j
      BY <1>3, <2>1
    <3> QED
      BY ONLY <3>1, <3>2 DEF Injection, IsInjective
  <2>4. Cardinality(1 .. k) = k
    BY <1>6, FS_Interval
  <2> HIDE DEF f, upTo
  <2>5. Cardinality(1 .. k) <= Cardinality(upTo)
    BY <1>5, <2>3, FS_Injection
  <2>6. Cardinality(upTo) \in Nat
    BY <1>5, FS_CardinalityType
  <2> QED
    BY ONLY <1>6, <2>4, <2>5, <2>6
<1>10. order[k] \in N
  BY <1>3, <1>6
<1> QED
  BY <1>1, <1>8, <1>9, <1>10 DEF n

LEMMA InitWindow == Init => WindowInv
<1> SUFFICES ASSUME Init PROVE WindowInv
  OBVIOUS
<1>1. /\ samples = Collector!Last(Window, history) /\ shown = 0
      /\ history \in Seq(Latencies) /\ Len(history) \in Nat
  BY MetricsAssumption DEF Init, Collector!Init
<1>2. <<>> \in Seq(Latencies) /\ Len(<<>>) = 0 /\ SubSeq(history, 1, 0) = <<>>
  BY <1>1
<1>3. Collector!Last(Window, <<>>) = <<>>
  <2> DEFINE none == <<>>
  <2>1. none \in Seq(Latencies) /\ Len(none) <= Window
    BY <1>2, MetricsAssumption
  <2> HIDE DEF none
  <2>2. Collector!Last(Window, none) = none
    BY <2>1, LastOfAll
  <2> QED
    BY <2>2 DEF none
<1>4. Collector!Last(Window, SubSeq(history, 1, shown)) = <<>>
  BY <1>1, <1>2, <1>3
<1>5. PercentileOfRecent
  BY ONLY <1>4 DEF PercentileOfRecent, Collector!PercentileOfRecent
<1>6. samples = Collector!Last(Window, history) /\ shown \in 0 .. Len(history)
  BY <1>1, <1>2, <1>3
<1> QED
  BY <1>5, <1>6 DEF WindowInv

\* An addition changes neither the percentile nor the latencies that it was taken of.
LEMMA AddLatencyWindow ==
  ASSUME TypeOK, WindowInv, NEW d \in Latencies, Collector!AddLatency(d)
  PROVE  WindowInv'
<1>1. history \in Seq(Latencies) /\ shown \in 0 .. Len(history)
  BY DEF TypeOK, WindowInv
<1>2. history' = Append(history, d) /\ p95' = p95 /\ shown' = shown
  BY DEF Collector!AddLatency
<1>3. samples' = Collector!Last(Window, history')
  BY <1>1, <1>2, LastOfMore DEF Collector!AddLatency, WindowInv
<1>4. SubSeq(history', 1, shown') = SubSeq(history, 1, shown)
  BY <1>1, <1>2
<1>5. shown' \in 0 .. Len(history')
  BY <1>1, <1>2
<1>6. PercentileOfRecent'
  BY <1>2, <1>4 DEF WindowInv, PercentileOfRecent, Collector!PercentileOfRecent, Collector!Last
<1> QED
  BY <1>3, <1>5, <1>6 DEF WindowInv

LEMMA SnapshotWindow ==
  ASSUME TypeOK, WindowInv, Collector!Snapshot
  PROVE  WindowInv'
<1>1. history \in Seq(Latencies) /\ samples = Collector!Last(Window, history)
  BY DEF TypeOK, WindowInv
<1>2. samples \in Seq(Latencies)
  BY <1>1, LastOfAll
<1>3. PICK order \in Collector!SortedOrders :
        p95' = IF samples = <<>> THEN 0 ELSE samples[order[Collector!Rank(Len(samples)) + 1]]
  BY DEF Collector!Snapshot
<1>4. shown' = Len(history) /\ samples' = samples /\ history' = history
  BY DEF Collector!Snapshot
<1>5. SubSeq(history, 1, Len(history)) = history
  BY <1>1
<1>6. Collector!Last(Window, SubSeq(history, 1, shown))' = samples
  BY <1>1, <1>4, <1>5 DEF Collector!Last
<1>7. ASSUME samples # <<>>
      PROVE  /\ Cardinality({i \in DOMAIN samples : samples[i] < p95'})
                  <= Collector!Rank(Len(samples))
             /\ Cardinality({i \in DOMAIN samples : samples[i] <= p95'})
                  > Collector!Rank(Len(samples))
  <2> DEFINE n == Len(samples)
             rank == Collector!Rank(n)
             k == rank + 1
  <2>1. n \in Nat \ {0}
    BY <1>2, <1>7
  <2>2. rank \in 0 .. n - 1
    <3> HIDE DEF n
    <3> QED
      BY <2>1, RankInRange
  <2> HIDE DEF rank
  <2>3. k \in 1 .. n
    BY <2>1, <2>2
  <2>4. p95' = samples[order[k]]
    BY <1>3, <1>7 DEF rank
  <2> DEFINE below == {i \in DOMAIN samples : samples[i] < samples[order[k]]}
             upTo == {i \in DOMAIN samples : samples[i] <= samples[order[k]]}
  <2>5. Cardinality(below) <= k - 1 /\ Cardinality(upTo) >= k
    <3> HIDE DEF k
    <3> QED
      BY <1>2, <2>3, RankOfOrdered
  <2>6. IsFiniteSet(below) /\ IsFiniteSet(upTo)
    <3>1. DOMAIN samples = 1 .. n
      BY <1>2
    <3>2. IsFiniteSet(DOMAIN samples)
      <4> HIDE DEF n
      <4> QED
        BY <2>1, <3>1, FS_Interval
    <3> QED
      BY <3>2, FS_Subset
  <2> HIDE DEF below, upTo
  <2>7. Cardinality(below) \in Nat /\ Cardinality(upTo) \in Nat
    BY <2>6, FS_CardinalityType
  <2>8. Cardinality(below) <= rank /\ Cardinality(upTo) > rank
    <3> HIDE DEF n
    <3> QED
      BY ONLY <2>1, <2>2, <2>5, <2>7
  <2> QED
    BY <2>4, <2>8 DEF below, upTo, rank
<1>8. PercentileOfRecent'
  <2> DEFINE recent == Collector!Last(Window, SubSeq(history, 1, shown))
  <2>1. ASSUME recent' # <<>>
        PROVE  /\ Cardinality({i \in DOMAIN recent' : recent'[i] < p95'})
                    <= Collector!Rank(Len(recent'))
               /\ Cardinality({i \in DOMAIN recent' : recent'[i] <= p95'})
                    > Collector!Rank(Len(recent'))
    BY <1>6, <1>7, <2>1
  <2> HIDE DEF recent
  <2>2. (recent # <<>> =>
           /\ Cardinality({i \in DOMAIN recent : recent[i] < p95}) <= Collector!Rank(Len(recent))
           /\ Cardinality({i \in DOMAIN recent : recent[i] <= p95})
                > Collector!Rank(Len(recent)))'
    BY ONLY <2>1 DEF Collector!Rank
  <2> QED
    BY ONLY <2>2, SameCardinality DEF PercentileOfRecent, Collector!PercentileOfRecent, recent
<1>9. shown' \in 0 .. Len(history')
  BY <1>1, <1>4
<1> QED
  BY <1>1, <1>4, <1>8, <1>9 DEF WindowInv, Collector!Last

LEMMA NextWindow == FlowInv /\ WindowInv /\ [Next]_vars => WindowInv'
<1> SUFFICES ASSUME FlowInv, WindowInv, [Next]_vars PROVE WindowInv'
  OBVIOUS
<1>1. TypeOK
  BY DEF FlowInv
<1>2. CASE UNCHANGED latencies
  BY <1>2 DEF latencies, WindowInv, PercentileOfRecent, Collector!PercentileOfRecent,
       Collector!Last, Collector!Rank
<1>3. ASSUME NEW r \in Requests, AddLatency(r)
      PROVE  WindowInv'
  BY <1>1, <1>3, AddLatencyWindow DEF AddLatency
<1>4. ASSUME NEW r \in Requests, Handle(r)
      PROVE  WindowInv'
  BY <1>1, <1>2, <1>4, SnapshotWindow DEF Handle
<1> QED
  BY <1>2, <1>3, <1>4 DEF Next, vars, Receive, Return, Timeout, AddError, CheckKey, Limit,
       CheckIdempotency

\* Whatever was added before and while it was read, and whatever the size of the window: the
\* percentile of a snapshot has the rank that it should have among the latest latencies.
THEOREM PercentileOfRecentCorrect == Spec => []PercentileOfRecent
<1>1. Init => FlowInv /\ WindowInv
  BY InitFlow, InitWindow
<1>2. FlowInv /\ WindowInv /\ [Next]_vars => FlowInv' /\ WindowInv'
  BY NextFlow, NextWindow
<1>3. WindowInv => PercentileOfRecent
  BY DEF WindowInv
<1>. QED
  BY <1>1, <1>2, <1>3, PTL DEF Spec
=============================================================================
