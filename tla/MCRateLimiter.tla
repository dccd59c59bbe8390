--------------------------- MODULE MCRateLimiter ---------------------------
(* Constants of the instances of RateLimiter. *)
EXTENDS RateLimiter, TLC

Symmetry == Permutations(Requests) \union Permutations(Clients)
=============================================================================
