---------------------------- MODULE TokenBucket ----------------------------
(***************************************************************************)
(* What the rate limiter promises to each client: a bucket of its own that *)
(* is full at first, is refilled at a steady rate, and pays for every      *)
(* request that is admitted.  Nothing else changes it: neither a refusal,  *)
(* nor another client, nor the limiter's housekeeping.                     *)
(***************************************************************************)
EXTENDS Integers

CONSTANTS
  Clients,
  Requests,
  Interval,   \* what one request costs; a unit is refilled by every tick
  Capacity    \* what a full bucket holds

VARIABLES
  bucket,     \* what the bucket of a client holds
  verdict     \* the answer to each request, "none" before

vars == <<bucket, verdict>>

Init ==
  /\ bucket = [c \in Clients |-> Capacity]
  /\ verdict = [r \in Requests |-> "none"]

Admit(r, c) ==
  /\ verdict[r] = "none"
  /\ bucket[c] >= Interval
  /\ bucket' = [bucket EXCEPT ![c] = @ - Interval]
  /\ verdict' = [verdict EXCEPT ![r] = "admitted"]

Refuse(r, c) ==
  /\ verdict[r] = "none"
  /\ bucket[c] < Interval
  /\ verdict' = [verdict EXCEPT ![r] = "refused"]
  /\ UNCHANGED bucket

Refill ==
  /\ bucket' = [c \in Clients |-> IF bucket[c] < Capacity THEN bucket[c] + 1 ELSE Capacity]
  /\ UNCHANGED verdict

Next ==
  \/ \E r \in Requests, c \in Clients : Admit(r, c) \/ Refuse(r, c)
  \/ Refill

Spec == Init /\ [][Next]_vars
=============================================================================
