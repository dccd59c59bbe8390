----------------------------- MODULE Lifecycle -----------------------------
(***************************************************************************)
(* The process from main.go to its exit: start-up with the settings of     *)
(* Configuration, the goroutine of the listener, the signal context, the   *)
(* select of App.Run, and the shutdown that waits for open requests for a  *)
(* grace period.                                                           *)
(*                                                                         *)
(* Outside src: http.Server, which stops accepting when Shutdown begins    *)
(* and lets it return when no request is open, and the timeout middleware, *)
(* which answers a request within Budget.  The server has no read or write *)
(* timeout of its own: a client that stalls keeps its request open.        *)
(***************************************************************************)
EXTENDS Integers, Sequences

CONSTANTS
  Requests,
  Grace,    \* the 5 seconds of Shutdown, in ticks
  MaxAge,   \* bound on what is counted of the age of a request
  Environments, NaN, Blank, DefaultCurrencies,   \* of Configuration
  Codes     \* the texts that may be listed as currencies, Blank among them

ASSUME LifecycleAssumption == Grace \in Nat \ {0} /\ MaxAge \in Nat /\ Grace <= MaxAge

ASSUME DefaultsAssumption ==
  /\ DefaultCurrencies \in Seq(Codes \ {Blank}) /\ DefaultCurrencies # <<>>
  /\ \A i, j \in DOMAIN DefaultCurrencies :
       DefaultCurrencies[i] = DefaultCurrencies[j] => i = j

\* The fields of config.Config that the models use, and the types that the proofs need.
Fields ==
  {"listenAddr", "healthPath", "apiKey", "baseURL", "historicalURL", "dataPath",
   "maxBodyBytes", "maxTransactions", "requestTimeout", "rateLimitMax", "rateLimitWindow",
   "idempotencyTTL", "clientTimeout", "retryMaxAttempts", "retryInitial", "retryMax",
   "cacheTTL", "quoteFreshnessSLA", "spreadBPS", "markupBPS", "riskThreshold",
   "supportedCurrencies"}

ASSUME EnvironmentsAssumption ==
  /\ NaN \notin Int
  /\ \A c \in Environments :
       /\ c = [field \in Fields |-> c[field]]
       /\ c.retryInitial \in Int /\ c.retryMax \in Int
       /\ c.supportedCurrencies \in Seq(Codes)

VARIABLES
  stage, cfg, app,   \* of Configuration
  phase,      \* "boot", "running" (in the select), "draining" or "exited"
  status,     \* "none", "clean" (0), "unstarted" (1), "failed" (1) or "killed" by a signal
  signal,     \* a SIGINT or SIGTERM has arrived
  listener,   \* "off", "open", "broken" (its error is in errCh) or "closed"
  request,    \* "new", "open", "stalled", "answered" or "cut"
  age,        \* ticks since a request was accepted, up to MaxAge
  left        \* ticks that Shutdown still waits

settings == <<stage, cfg, app>>
vars == <<settings, phase, status, signal, listener, request, age, left>>

Settings == INSTANCE Configuration

\* What the timeout middleware gives a request.
Budget == cfg.requestTimeout

Open == {r \in Requests : request[r] \in {"open", "stalled"}}

Init ==
  /\ Settings!Init
  /\ phase = "boot" /\ status = "none" /\ signal = FALSE /\ listener = "off"
  /\ request = [r \in Requests |-> "new"]
  /\ age = [r \in Requests |-> 0]
  /\ left = Grace

\* The process is gone, and with it every request that is still open.
Exit(how) ==
  /\ phase' = "exited"
  /\ status' = how
  /\ listener' = IF listener = "open" THEN "closed" ELSE listener
  /\ request' = [r \in Requests |-> IF r \in Open THEN "cut" ELSE request[r]]

-----------------------------------------------------------------------------
\* LoadFromEnv; the settings are refused and the process exits, or it goes on.
Load ==
  /\ phase = "boot"
  /\ Settings!Load
  /\ IF stage' = "refused" THEN Exit("unstarted")
     ELSE UNCHANGED <<phase, status, listener, request>>
  /\ UNCHANGED <<signal, age, left>>

\* The logger cannot be built.
BootFails ==
  /\ phase = "boot" /\ stage = "loaded"
  /\ Exit("unstarted")
  /\ UNCHANGED <<settings, signal, age, left>>

Boot ==
  /\ phase = "boot"
  /\ Settings!Wire
  /\ phase' = "running"
  /\ UNCHANGED <<status, signal, listener, request, age, left>>

\* Signals are caught only after start-up; before, the default action applies.
Signal ==
  /\ phase # "exited" /\ ~signal
  /\ signal' = TRUE
  /\ IF phase = "boot" THEN Exit("killed") ELSE UNCHANGED <<phase, status, listener, request>>
  /\ UNCHANGED <<settings, age, left>>

\* The goroutine of StartAsync.  Once Shutdown has begun, ListenAndServe returns
\* ErrServerClosed without listening.
Listen ==
  /\ listener = "off"
  /\ \/ phase = "running" /\ listener' \in {"open", "broken"}
     \/ phase = "draining" /\ listener' = "closed"
  /\ UNCHANGED <<settings, phase, status, signal, request, age, left>>

ListenerBreaks ==
  /\ phase = "running" /\ listener = "open"
  /\ listener' = "broken"
  /\ UNCHANGED <<settings, phase, status, signal, request, age, left>>

Accept(r) ==
  /\ listener = "open"
  /\ request[r] = "new"
  /\ \E kind \in {"open", "stalled"} : request' = [request EXCEPT ![r] = kind]
  /\ UNCHANGED <<settings, phase, status, signal, listener, age, left>>

Answer(r) ==
  /\ request[r] = "open"
  /\ request' = [request EXCEPT ![r] = "answered"]
  /\ UNCHANGED <<settings, phase, status, signal, listener, age, left>>

-----------------------------------------------------------------------------
\* The select takes ctx.Done, whether or not the listener is broken as well.
SeeSignal ==
  /\ phase = "running" /\ signal
  /\ phase' = "draining"
  /\ listener' = IF listener = "open" THEN "closed" ELSE listener
  /\ left' = Grace
  /\ UNCHANGED <<settings, status, signal, request, age>>

\* The select takes the error: log.Fatalf, no shutdown.
SeeFailure ==
  /\ phase = "running" /\ listener = "broken"
  /\ Exit("failed")
  /\ UNCHANGED <<settings, signal, age, left>>

\* Mutant: Shutdown does not wait for requests whose client stalls.
DrainedOfOpen ==
  /\ phase = "draining"
  /\ \A r \in Requests : request[r] # "open"
  /\ Exit("clean")
  /\ UNCHANGED <<settings, signal, age, left>>

Drained ==
  /\ phase = "draining"
  /\ Open = {}
  /\ Exit("clean")
  /\ UNCHANGED <<settings, signal, age, left>>

\* Mutant: Shutdown is called with a context that never expires.
GraceNeverOver ==
  /\ phase = "draining" /\ left = 0 /\ Open = {}
  /\ Exit("failed")
  /\ UNCHANGED <<settings, signal, age, left>>

\* Mutant: the grace period ends early.
GraceOverEarly ==
  /\ phase = "draining" /\ left <= 1
  /\ Exit("failed")
  /\ UNCHANGED <<settings, signal, age, left>>

\* The context of Shutdown expires: the error ends in log.Fatalf.  The requests that
\* the last look found open may have been answered since.
GraceOver ==
  /\ phase = "draining" /\ left = 0
  /\ Exit("failed")
  /\ UNCHANGED <<settings, signal, age, left>>

\* Time passes, but not beyond the budget of a request that is served, nor beyond
\* the grace period.  Shutdown looks for open requests at every tick.
Tick ==
  /\ phase \in {"running", "draining"}
  /\ \A r \in Requests : request[r] = "open" => age[r] < Budget
  /\ phase = "draining" => left > 0 /\ Open # {}
  /\ age' = [r \in Requests |-> IF r \in Open /\ age[r] < MaxAge THEN age[r] + 1 ELSE age[r]]
  /\ left' = IF phase = "draining" THEN left - 1 ELSE left
  /\ UNCHANGED <<settings, phase, status, signal, listener, request>>

Done == phase = "exited" /\ UNCHANGED vars

Next ==
  \/ Load \/ BootFails \/ Boot \/ Signal \/ Listen \/ ListenerBreaks
  \/ \E r \in Requests : Accept(r) \/ Answer(r)
  \/ SeeSignal \/ SeeFailure \/ Drained \/ GraceOver
  \/ Tick \/ Done

\* The main goroutine and the timers go on; clients, the listener and the
\* signal need not do anything, and a request may take its whole budget.
Fairness ==
  /\ WF_vars(SeeSignal \/ SeeFailure)
  /\ WF_vars(Drained) /\ WF_vars(GraceOver)
  /\ WF_vars(\E r \in Requests : age[r] = Budget /\ Answer(r))
  /\ WF_vars(Tick)

Spec == Init /\ [][Next]_vars /\ Fairness

-----------------------------------------------------------------------------
\* A clean exit has followed a signal and has cut no request off, also one that was
\* accepted while the signal arrived.
CleanExitServedAll ==
  status = "clean" => signal /\ \A r \in Requests : request[r] # "cut"

\* Once started, the process exits with an error only if the listener broke, or if
\* a request was open during the whole grace period; and no younger request is cut off
\* by a shutdown.  (By default a request that is served in time can be cut off: it has
\* 8 s, the grace period is 5 s.)
FailureHasCause ==
  status = "failed" /\ listener # "broken" =>
    /\ signal
    /\ \E r \in Requests : request[r] \in {"answered", "cut"} /\ age[r] >= Grace
    /\ \A r \in Requests : request[r] = "cut" => age[r] >= Grace

\* Whatever the clients do, a signal ends the process.
SignalEndsProcess == signal ~> (phase = "exited")

\* As Configuration states it.
SettingsTakeEffect == Settings!SettingsTakeEffect
=============================================================================
