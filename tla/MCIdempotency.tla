----------------------------- MODULE MCIdempotency -----------------------------
(***************************************************************************)
(* Small instances of Idempotency for TLC.  Requests, identifiers and      *)
(* hashes are interchangeable: no action and no property tells them apart. *)
(***************************************************************************)
EXTENDS Idempotency, TLC

CONSTANTS r1, r2, r3, id1, id2, h1, h2

MCRequests2  == {r1, r2}
MCRequests3  == {r1, r2, r3}
MCRecordIds1 == {id1}
MCRecordIds2 == {id1, id2}
MCHashes     == {h1, h2}

Symmetry ==
    Permutations(Requests) \cup Permutations(RecordIds) \cup Permutations(Hashes)
================================================================================
