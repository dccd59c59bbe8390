--------------------------- MODULE Configuration ---------------------------
(***************************************************************************)
(* LoadFromEnv, which validates the settings once, and NewApp, which hands *)
(* them to constructors that each have a default of their own, or install  *)
(* nothing, for a value that they do not like.  Between them a setting may *)
(* be refused, used, replaced without a word, or switch a layer off.       *)
(*                                                                         *)
(* Numbers are integers; a setting of type float64 may also be NaN, which  *)
(* strconv.ParseFloat accepts.  Text is blank or not, currency codes stand *)
(* for their upper case.                                                   *)
(***************************************************************************)
EXTENDS Integers, Sequences, SequencesExt

CONSTANTS
  Environments,        \* the settings, as parsed, that are tried
  NaN,                 \* a float that compares false with every number
  Blank,               \* a blank text or currency code
  DefaultCurrencies    \* defaultSupportedCurrencies: some, none of them blank or repeated

VARIABLES
  stage,    \* "parsed", then "refused", or "loaded" and "wired"
  cfg,      \* config.Config
  app       \* what NewApp has built

vars == <<stage, cfg, app>>

Layers == {"bodyLimit", "timeout", "apiKey", "rateLimit", "idempotency"}

NoApp == [layers |-> {}]

Init == stage = "parsed" /\ cfg \in Environments /\ app = NoApp

-----------------------------------------------------------------------------
(* LoadFromEnv *)

\* The list `normalized' after each iteration of the loop: blank codes and repetitions
\* are dropped.
Kept(codes) ==
  LET kept[i \in 0..Len(codes)] ==
        IF i = 0 THEN <<>>
        ELSE IF codes[i] = Blank \/ Contains(kept[i - 1], codes[i]) THEN kept[i - 1]
        ELSE Append(kept[i - 1], codes[i])
  IN kept

\* Nothing left means the default.
Normalized(codes) ==
  LET kept == Kept(codes)[Len(codes)]
  IN IF kept = <<>> THEN DefaultCurrencies ELSE kept

\* Go's x < 0 and x <= 0, which are false for NaN.
Negative(x) == x # NaN /\ x < 0
NotPositive(x) == x # NaN /\ x <= 0

ServerRefused(c) ==
  \/ Blank \in {c.listenAddr, c.healthPath, c.apiKey}
  \/ NotPositive(c.maxBodyBytes) \/ NotPositive(c.maxTransactions)
  \/ NotPositive(c.requestTimeout)
  \/ NotPositive(c.rateLimitMax) \/ NotPositive(c.rateLimitWindow)
  \/ NotPositive(c.idempotencyTTL)

\* Mutant: the durations of the provider are not validated.
FXRefusedUntimed(c) ==
  \/ Blank \in {c.baseURL, c.historicalURL, c.dataPath}
  \/ c.retryMaxAttempts < 1
  \/ NotPositive(c.retryInitial) \/ NotPositive(c.retryMax)
  \/ Negative(c.spreadBPS) \/ Negative(c.markupBPS) \/ Negative(c.riskThreshold)

FXRefused(c) ==
  \/ Blank \in {c.baseURL, c.historicalURL, c.dataPath}
  \/ c.retryMaxAttempts < 1
  \/ NotPositive(c.retryInitial) \/ NotPositive(c.retryMax) \/ c.retryInitial > c.retryMax
  \/ NotPositive(c.cacheTTL) \/ NotPositive(c.quoteFreshnessSLA)
  \/ Negative(c.spreadBPS) \/ Negative(c.markupBPS) \/ Negative(c.riskThreshold)

Load ==
  /\ stage = "parsed"
  /\ stage' = IF ServerRefused(cfg) \/ FXRefused(cfg) THEN "refused" ELSE "loaded"
  /\ cfg' = [cfg EXCEPT !.supportedCurrencies = Normalized(@)]
  /\ UNCHANGED app

-----------------------------------------------------------------------------
(* NewApp *)

OrDefault(x, default) == IF NotPositive(x) THEN default ELSE x

\* The layers that their Use... function installs.
Installed ==
  {layer \in Layers :
     CASE layer = "bodyLimit" -> ~NotPositive(cfg.maxBodyBytes)
       [] layer = "timeout" -> ~NotPositive(cfg.requestTimeout)
       [] layer = "apiKey" -> cfg.apiKey # Blank
       [] layer = "rateLimit" -> ~NotPositive(cfg.rateLimitMax) /\ ~NotPositive(cfg.rateLimitWindow)
       [] OTHER -> TRUE}

IdempotencyTTL == OrDefault(cfg.idempotencyTTL, 86400)

\* NewService: a blank code is dropped, a negative threshold becomes 0.
Service ==
  [threshold |-> IF Negative(cfg.riskThreshold) THEN 0 ELSE cfg.riskThreshold,
   supported |-> ToSet(cfg.supportedCurrencies) \ {Blank},
   maxTransactions |-> OrDefault(cfg.maxTransactions, 500),
   sla |-> OrDefault(cfg.quoteFreshnessSLA, 600)]

\* NewLiveProvider, its connector, backoff and cache: every code is kept.
Provider ==
  [supported |-> ToSet(cfg.supportedCurrencies),
   attempts |-> IF cfg.retryMaxAttempts < 1 THEN 1 ELSE cfg.retryMaxAttempts,
   initial |-> cfg.retryInitial, max |-> cfg.retryMax,
   clientTimeout |-> OrDefault(cfg.clientTimeout, 5),
   cacheTTL |-> OrDefault(cfg.cacheTTL, 300)]

Wire ==
  /\ stage = "loaded"
  /\ stage' = "wired"
  /\ app' = [layers |-> Installed, service |-> Service, provider |-> Provider,
              idempotencyTTL |-> IdempotencyTTL]
  /\ UNCHANGED cfg

Next == Load \/ Wire

Spec == Init /\ [][Next]_vars

-----------------------------------------------------------------------------
Wired == stage = "wired"

\* No setting that was accepted makes a Use... function skip its layer.
NothingSwitchedOff == app.layers = Layers

\* No setting that was accepted is replaced by the default of a constructor, except
\* FX_TIMEOUT, which nobody validates.
NothingReplaced ==
  /\ app.service.threshold = cfg.riskThreshold
  /\ app.service.maxTransactions = cfg.maxTransactions
  /\ app.service.sla = cfg.quoteFreshnessSLA
  /\ app.provider.attempts = cfg.retryMaxAttempts
  /\ app.provider.cacheTTL = cfg.cacheTTL
  /\ app.idempotencyTTL = cfg.idempotencyTTL

\* The backoff, which checks nothing when it is built, gets a positive delay that is
\* not above its maximum: what the module RequestBudget assumes.
BackoffFits == 0 < app.provider.initial /\ app.provider.initial <= app.provider.max

\* The service and the provider, which normalise the list once more and differently,
\* support the same currencies: those that were configured, and at least one.
CurrenciesAgree ==
  /\ app.service.supported = app.provider.supported
  /\ app.service.supported # {}
  /\ IsInjective(cfg.supportedCurrencies)

\* Settings are refused or take effect as they are: validation and constructors, which
\* judge the same values in different places, leave no value between them.
SettingsTakeEffect ==
  Wired => NothingSwitchedOff /\ NothingReplaced /\ BackoffFits /\ CurrenciesAgree
=============================================================================
