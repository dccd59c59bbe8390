-------------------------- MODULE IdempotencyContract --------------------------
(***************************************************************************)
(* What the idempotency middleware promises to the clients of the service, *)
(* without its clock, its heap of records or its critical sections:        *)
(*                                                                         *)
(*   - a key is free, held by one running request, or completed;           *)
(*   - a request is executed only when its key is free, and holds the key  *)
(*     until it completes or fails;                                        *)
(*   - a completed key is replayed to requests with the same payload and   *)
(*     refused to the others; it may be forgotten, a running one may not.  *)
(*                                                                         *)
(* Sources of the promise: README.md, section Idempotency, and the replies *)
(* of middleware_idempotency.go.                                           *)
(***************************************************************************)
CONSTANTS
    Requests,   \* HTTP requests, each one POST by a client
    RecordIds,  \* record identifiers: method, path and X-Idempotency-Key
    Hashes,     \* hashes of request bodies
    None        \* absence of a value

VARIABLES
    slot,       \* slot[id]: who holds the key, and whether it has completed
    verdict     \* verdict[r]: how r was treated, and whose response it was given

contractVars == <<slot, verdict>>

Free == [state |-> "free", owner |-> None, hash |-> None]

Slots == {Free} \cup [state : {"running", "done"}, owner : Requests, hash : Hashes]

Verdicts ==
    [kind : {"none", "execute", "duplicated", "inProcess"}, owner : {None}]
    \cup [kind : {"replay"}, owner : Requests]

Verdict(kind, owner) == [kind |-> kind, owner |-> owner]

Init ==
    /\ slot = [id \in RecordIds |-> Free]
    /\ verdict = [r \in Requests |-> Verdict("none", None)]

Completed == {id \in RecordIds : slot[id].state = "done"}

\* The keys in E, all of them completed, are forgotten.
Forget(E) == [id \in RecordIds |-> IF id \in E THEN Free ELSE slot[id]]

Execute(r, id, h, E) ==
    /\ Forget(E)[id] = Free
    /\ slot' = [Forget(E) EXCEPT ![id] = [state |-> "running", owner |-> r, hash |-> h]]
    /\ verdict' = [verdict EXCEPT ![r] = Verdict("execute", None)]

Duplicated(r, id, h, E) ==
    /\ Forget(E)[id] # Free
    /\ Forget(E)[id].hash # h
    /\ slot' = Forget(E)
    /\ verdict' = [verdict EXCEPT ![r] = Verdict("duplicated", None)]

InProcess(r, id, h, E) ==
    /\ Forget(E)[id].state = "running"
    /\ Forget(E)[id].hash = h
    /\ slot' = Forget(E)
    /\ verdict' = [verdict EXCEPT ![r] = Verdict("inProcess", None)]

Replay(r, id, h, E) ==
    /\ Forget(E)[id].state = "done"
    /\ Forget(E)[id].hash = h
    /\ slot' = Forget(E)
    /\ verdict' = [verdict EXCEPT ![r] = Verdict("replay", slot[id].owner)]

Admit(r) ==
    /\ verdict[r].kind = "none"
    /\ \E id \in RecordIds, h \in Hashes, E \in SUBSET Completed :
          \/ Execute(r, id, h, E)
          \/ Duplicated(r, id, h, E)
          \/ InProcess(r, id, h, E)
          \/ Replay(r, id, h, E)

\* The request that holds the key ends: its response is kept, or the key is freed.
Complete(id) ==
    /\ slot[id].state = "running"
    /\ slot' = [slot EXCEPT ![id] = [state |-> "done", owner |-> @.owner, hash |-> @.hash]]
    /\ UNCHANGED verdict

Abort(id) ==
    /\ slot[id].state = "running"
    /\ slot' = [slot EXCEPT ![id] = Free]
    /\ UNCHANGED verdict

\* The process restarts with an empty store (README.md, Trade-offs).
Restart ==
    /\ slot' = [id \in RecordIds |-> Free]
    /\ UNCHANGED verdict

Next ==
    \/ \E r \in Requests : Admit(r)
    \/ \E id \in RecordIds : Complete(id) \/ Abort(id)
    \/ Restart

Spec == Init /\ [][Next]_contractVars

================================================================================
