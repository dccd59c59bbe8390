----------------------------- MODULE Pipeline -----------------------------
(***************************************************************************)
(* The layers around the handlers in the order in which app.go installs    *)
(* them: observability, body limit, timeout, API key, rate limit,          *)
(* idempotency, handler.  The rate limiter and the idempotency middleware  *)
(* are represented by their abstract specifications, TokenBucket and       *)
(* IdempotencyContract, which the detailed modules implement, over a time  *)
(* in which no bucket is refilled and no record expires.                   *)
(*                                                                         *)
(* From the timeout inwards a request runs in a goroutine of its own,      *)
(* which goes on after a timeout.  Both goroutines use one response        *)
(* object: the inner layers set its status, observability reads it; the    *)
(* 503 of a timeout is sent past it (echo, outside src).                   *)
(***************************************************************************)
EXTENDS Integers, Sequences, FiniteSets

CONSTANTS
  Requests,
  Ids,        \* idempotency records: method, path and key
  LostIds,    \* those of them whose path is no route
  Burst,      \* requests that the rate limiter admits in the time considered
  None,
  Latencies,  \* milliseconds that a request may take
  Window, Percent,   \* of Metrics
  Earlier     \* latencies of requests that have been served before, none with an error

ASSUME PipelineAssumption ==
  /\ IsFiniteSet(Requests) /\ None \notin Requests
  /\ LostIds \subseteq Ids
  /\ Burst \in Nat /\ Latencies \subseteq Nat

ASSUME MetricsAssumption ==
  Window \in Nat \ {0} /\ Percent \in 0..100 /\ Earlier \in Seq(Latencies)

VARIABLES
  route,      \* "health", "metrics", "calculate"; "lost" is a POST that no route takes,
              \* "nowhere" another request that none takes
  outer,      \* "new", "inside" the timeout, "latency", "error", "done"
  inner,      \* layer that the inner goroutine is in: "idle", a layer, "done"
  status,     \* status of the response object, 200 until it is written
  failed,     \* the chain returned an error instead of writing
  answer,     \* status that the client is sent, 0 before
  counter,    \* the counters of metrics.Collector that the layers use
  samples, p95, shown, history,   \* of Metrics
  bucket, limited,   \* of TokenBucket
  slot, verdict      \* of IdempotencyContract

flow == <<route, outer, inner, status, failed, answer>>
latencies == <<samples, p95, shown, history>>
vars == <<flow, counter, latencies, bucket, limited, slot, verdict>>

\* One client, whose bucket is not refilled; one payload.
Limiter == INSTANCE TokenBucket WITH
  Clients <- {"client"}, Interval <- 1, Capacity <- Burst, verdict <- limited

Collector == INSTANCE Metrics

Keys == INSTANCE IdempotencyContract WITH RecordIds <- Ids, Hashes <- {"payload"}

Routes == {"health", "metrics", "calculate", "lost", "nowhere"}
Layers == {"key", "limit", "idempotency", "handler"}
Statuses == {200, 400, 401, 404, 409, 413, 429, 500, 502, 503}

TypeOK ==
  /\ route \in [Requests -> Routes]
  /\ outer \in [Requests -> {"new", "inside", "latency", "error", "done"}]
  /\ inner \in [Requests -> Layers \union {"idle", "done"}]
  /\ status \in [Requests -> Statuses]
  /\ failed \in [Requests -> BOOLEAN]
  /\ answer \in [Requests -> Statuses \union {0}]
  /\ counter \in [requests : Nat, errors : Nat, replays : Nat, conflicts : Nat]
  /\ history \in Seq(Latencies)
  /\ limited \in [Requests -> {"none", "admitted", "refused"}]
  /\ slot \in [Ids -> Keys!Slots]

Init ==
  /\ route \in [Requests -> Routes]
  /\ outer = [r \in Requests |-> "new"]
  /\ inner = [r \in Requests |-> "idle"]
  /\ status = [r \in Requests |-> 200]
  /\ failed = [r \in Requests |-> FALSE]
  /\ answer = [r \in Requests |-> 0]
  /\ counter = [requests |-> Len(Earlier), errors |-> 0, replays |-> 0, conflicts |-> 0]
  /\ Collector!Init
  /\ Limiter!Init
  /\ Keys!Init

-----------------------------------------------------------------------------
(* The order of the inner layers. *)

\* Mutant: idempotency is installed before the rate limit.
AfterLimitLast(layer) ==
  CASE layer = "start" -> "key" [] layer = "key" -> "idempotency"
    [] layer = "idempotency" -> "limit" [] OTHER -> "handler"

After(layer) ==
  CASE layer = "start" -> "key" [] layer = "key" -> "limit"
    [] layer = "limit" -> "idempotency" [] OTHER -> "handler"

Proceed(r, layer) ==
  /\ inner' = [inner EXCEPT ![r] = After(layer)]
  /\ UNCHANGED <<status, failed>>

\* The chain returns: a layer or the handler has written a status ...
Write(r, code) ==
  /\ inner' = [inner EXCEPT ![r] = "done"]
  /\ status' = [status EXCEPT ![r] = code]
  /\ UNCHANGED failed

\* ... or the router's error is returned, to be written by echo in the end.
Fail(r) ==
  /\ inner' = [inner EXCEPT ![r] = "done"]
  /\ failed' = [failed EXCEPT ![r] = TRUE]
  /\ UNCHANGED status

\* What the steps of the inner goroutine do not touch.
InnerOnly == UNCHANGED <<route, outer, answer>>

-----------------------------------------------------------------------------
(* Observability, body limit, timeout *)

\* The body limit looks at the declared length of the body, whatever the route.  A longer
\* body without one fails later, when idempotency reads it.
Receive(r) ==
  /\ outer[r] = "new"
  /\ counter' = [counter EXCEPT !.requests = @ + 1]
  /\ \/ /\ outer' = [outer EXCEPT ![r] = "inside"]
        /\ inner' = [inner EXCEPT ![r] = After("start")]
        /\ UNCHANGED <<failed, answer>>
     \/ /\ outer' = [outer EXCEPT ![r] = "latency"]
        /\ failed' = [failed EXCEPT ![r] = TRUE]
        /\ answer' = [answer EXCEPT ![r] = 413]
        /\ UNCHANGED inner
  /\ UNCHANGED <<route, status, latencies, bucket, limited, slot, verdict>>

Return(r) ==
  /\ outer[r] = "inside" /\ inner[r] = "done"
  /\ outer' = [outer EXCEPT ![r] = "latency"]
  /\ answer' = [answer EXCEPT ![r] = IF failed[r] THEN 404 ELSE status[r]]
  /\ UNCHANGED <<route, inner, status, failed, counter, latencies, bucket, limited, slot, verdict>>

Timeout(r) ==
  /\ outer[r] = "inside" /\ inner[r] # "done"
  /\ outer' = [outer EXCEPT ![r] = "latency"]
  /\ answer' = [answer EXCEPT ![r] = 503]
  /\ UNCHANGED <<route, inner, status, failed, counter, latencies, bucket, limited, slot, verdict>>

\* Mutant: an error is counted before its latency.
AddLatencyLast(r) ==
  /\ \/ /\ outer[r] = "latency" /\ (failed[r] \/ status[r] >= 400)
        /\ outer' = [outer EXCEPT ![r] = "error"]
        /\ counter' = [counter EXCEPT !.errors = @ + 1]
        /\ UNCHANGED latencies
     \/ /\ (outer[r] = "error") \/ (outer[r] = "latency" /\ ~failed[r] /\ status[r] < 400)
        /\ outer' = [outer EXCEPT ![r] = "done"]
        /\ \E d \in Latencies : Collector!AddLatency(d)
        /\ UNCHANGED counter
  /\ UNCHANGED <<route, inner, status, failed, answer, bucket, limited, slot, verdict>>

AddLatency(r) ==
  /\ outer[r] = "latency"
  /\ outer' = [outer EXCEPT ![r] = "error"]
  /\ \E d \in Latencies : Collector!AddLatency(d)
  /\ UNCHANGED <<route, inner, status, failed, answer, counter, bucket, limited, slot, verdict>>

\* A timeout returns no error, and the status is what the inner goroutine has set by now.
IsError(r) == (failed[r] /\ answer[r] # 503) \/ status[r] >= 400

AddError(r) ==
  /\ outer[r] = "error"
  /\ outer' = [outer EXCEPT ![r] = "done"]
  /\ counter' = IF IsError(r) THEN [counter EXCEPT !.errors = @ + 1] ELSE counter
  /\ UNCHANGED <<route, inner, status, failed, answer, latencies, bucket, limited, slot, verdict>>

-----------------------------------------------------------------------------
(* API key, rate limit, idempotency, handler *)

\* The paths /healthz and /metrics need no key.
NeedsKey(r) == route[r] \notin {"health", "metrics"}

CheckKey(r) ==
  /\ inner[r] = "key"
  /\ Proceed(r, "key") \/ (NeedsKey(r) /\ Write(r, 401))
  /\ InnerOnly /\ UNCHANGED <<counter, latencies, bucket, limited, slot, verdict>>

Limit(r) ==
  /\ inner[r] = "limit"
  /\ \/ Limiter!Admit(r, "client") /\ Proceed(r, "limit")
     \/ Limiter!Refuse(r, "client") /\ Write(r, 429)
  /\ InnerOnly /\ UNCHANGED <<counter, latencies, slot, verdict>>

Posts(r) == route[r] \in {"calculate", "lost"}
IdsOf(r) == IF route[r] = "lost" THEN LostIds ELSE Ids \ LostIds

\* Every POST is subject to idempotency, also one that no route takes.  Its key may be
\* missing or invalid, and its body unreadable.
CheckIdempotency(r) ==
  /\ inner[r] = "idempotency"
  /\ \/ ~Posts(r) /\ Proceed(r, "idempotency") /\ UNCHANGED <<counter, slot, verdict>>
     \/ Posts(r) /\ Write(r, 400) /\ UNCHANGED <<counter, slot, verdict>>
     \/ /\ Posts(r)
        /\ \E id \in IdsOf(r) :
             \/ Keys!Execute(r, id, "payload", {}) /\ Proceed(r, "idempotency") /\ UNCHANGED counter
             \/ /\ Keys!InProcess(r, id, "payload", {}) /\ Write(r, 409)
                /\ counter' = [counter EXCEPT !.conflicts = @ + 1]
             \/ /\ Keys!Replay(r, id, "payload", {}) /\ Write(r, 200)
                /\ counter' = [counter EXCEPT !.replays = @ + 1]
  /\ InnerOnly /\ UNCHANGED <<latencies, bucket, limited>>

\* The handler of an exposure request ends with a report or an error; its record is
\* completed or deleted on the way out.  The router's error leaves the response unwritten,
\* with the status 200 that completes the record.
Handle(r) ==
  /\ inner[r] = "handler"
  /\ \/ /\ Posts(r)
        /\ \E id \in Ids :
             /\ slot[id].owner = r
             /\ \/ route[r] = "calculate" /\ Keys!Complete(id) /\ Write(r, 200)
                \/ /\ route[r] = "calculate" /\ Keys!Abort(id)
                   /\ \E code \in {400, 500, 502} : Write(r, code)
                \/ route[r] = "lost" /\ Keys!Complete(id) /\ Fail(r)
        /\ UNCHANGED latencies
     \/ /\ route[r] = "metrics" /\ Write(r, 200) /\ Collector!Snapshot
        /\ UNCHANGED <<slot, verdict>>
     \/ /\ route[r] = "health" /\ Write(r, 200)
        /\ UNCHANGED <<latencies, slot, verdict>>
     \/ /\ route[r] = "nowhere" /\ Fail(r)
        /\ UNCHANGED <<latencies, slot, verdict>>
  /\ InnerOnly /\ UNCHANGED <<counter, bucket, limited>>

Next ==
  \E r \in Requests :
    \/ Receive(r) \/ Return(r) \/ Timeout(r) \/ AddLatency(r) \/ AddError(r)
    \/ CheckKey(r) \/ Limit(r) \/ CheckIdempotency(r) \/ Handle(r)

Spec == Init /\ [][Next]_vars

-----------------------------------------------------------------------------
\* A request that is refused leaves no trace in the layers within: one without the
\* API key or that declares too large a body spends none of its client's tokens, and
\* one that is refused or limited takes no idempotency key, so it can be sent again.
RefusedLeavesNoTrace ==
  \A r \in Requests :
    /\ answer[r] \in {401, 413} => limited[r] = "none"
    /\ answer[r] \in {401, 413, 429} => \A id \in Ids : slot[id].owner # r

Accounted == {r \in Requests : outer[r] = "done"}
AnsweredError(r) == answer[r] >= 400

\* The metrics reconcile with what was answered.  Whatever other requests do between
\* two additions, a snapshot never shows more latencies than requests, nor more errors
\* than latencies; and every request that was answered with an error is counted as
\* one, and no other, except that a timed out one may be missing: its 503 is sent
\* past the response object (middleware_security.go:130).
MetricsReconcile ==
  LET errors == {r \in Accounted : AnsweredError(r)}
  IN /\ counter.errors <= Len(history) /\ Len(history) <= counter.requests
     /\ counter.errors \in
          Cardinality({r \in errors : answer[r] # 503}) .. Cardinality(errors)

\* As Metrics states it, with the snapshots taken by requests among the others, whose
\* latencies are added after them.
PercentileOfRecent == Collector!PercentileOfRecent
=============================================================================
