---------------------------- MODULE MCPipeline ----------------------------
(* Constants of the instances of Pipeline. *)
EXTENDS Pipeline, TLC

\* The window of three fills up with the first latency and drops the oldest with the second.
MCEarlier == <<2, 1>>

Symmetry == Permutations(Requests)
=============================================================================
