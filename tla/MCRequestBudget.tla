-------------------------- MODULE MCRequestBudget --------------------------
(* Settings for TLC: requests that fit into their timeout, and others that do not. *)
EXTENDS RequestBudget

CONSTANTS p, q

MCPairs == {p, q}

Setting(requestTimeout, clientTimeout, maxAttempts, initial, max, pairs, unrated) ==
  [requestTimeout |-> requestTimeout, clientTimeout |-> clientTimeout,
   maxAttempts |-> maxAttempts, initial |-> initial, max |-> max,
   pairs |-> pairs, unrated |-> unrated]

\* config.go, in tenths of a second.
Defaults == Setting(80, 50, 3, 2, 20, <<p>>, {1})

\* Two transactions of one pair take 4 at most, and three of two pairs, of which two have no
\* rate of their own, 36: each once with a timeout that is just enough, and once without.
Fitting == {Setting(time, 1, 1, 1, 2, <<p, p>>, {}) : time \in {4, 5}}
  \union {Setting(time, 2, 2, 2, 2, <<p, q, p>>, {1, 3}) : time \in {36, 37}}

\* Every strategy of a small width, with enough attempts to reach the maximum.
Strategies ==
  {Setting(60, 1, 8, s[1], s[2], <<p>>, {}) : s \in {s \in (1..31) \X (1..31) : s[1] <= s[2]}}

MCSettings == {Defaults} \union Fitting \union Strategies
=============================================================================
