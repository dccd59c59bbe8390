---------------------------- MODULE MCLifecycle ----------------------------
(* Settings for TLC: those that differ from usual ones in at most one place. *)
EXTENDS Lifecycle

Usual ==
  [listenAddr |-> "text", healthPath |-> "text", apiKey |-> "text", baseURL |-> "text",
   historicalURL |-> "text", dataPath |-> "text", maxBodyBytes |-> 3, maxTransactions |-> 2,
   requestTimeout |-> 3, rateLimitMax |-> 2, rateLimitWindow |-> 4, idempotencyTTL |-> 9,
   clientTimeout |-> 5, retryMaxAttempts |-> 3, retryInitial |-> 2, retryMax |-> 4,
   cacheTTL |-> 6, quoteFreshnessSLA |-> 7, spreadBPS |-> 0, markupBPS |-> 0,
   riskThreshold |-> 2, supportedCurrencies |-> <<"USD", "BRL">>]

Texts == {"listenAddr", "healthPath", "apiKey", "baseURL", "historicalURL", "dataPath"}
Floats == {"spreadBPS", "markupBPS", "riskThreshold"}

Values(field) ==
  IF field \in Texts THEN {Blank}
  ELSE IF field = "supportedCurrencies"
       THEN {<<>>, <<Blank>>, <<"USD", Blank, "USD", "MXN">>, <<Blank, "BRL", Blank, "BRL">>}
       ELSE {-1, 0, 1, 5} \union (IF field \in Floats THEN {NaN} ELSE {})

MCEnvironments ==
  UNION {{[Usual EXCEPT ![field] = value] : value \in Values(field)} : field \in DOMAIN Usual}

MCDefaults == <<"USD", "EUR">>

MCCodes == {"USD", "EUR", "BRL", "MXN", Blank}
=============================================================================
