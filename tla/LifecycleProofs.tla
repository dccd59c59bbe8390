-------------------------- MODULE LifecycleProofs --------------------------
(***************************************************************************)
(* Proofs about Lifecycle, for every number of requests, every grace       *)
(* period and whatever settings were loaded.  The inductive invariant      *)
(* relates the age of the requests to what is left of the grace period:    *)
(* after Shutdown began no request is accepted, so that one which is still *)
(* open has been so ever since.  The settings are refused or take effect   *)
(* (SettingsInv), by induction over the list of currencies for the part    *)
(* that the constructors do not repeat.                                    *)
(***************************************************************************)
EXTENDS Lifecycle, SumTheorems, TLAPS

TypeOK ==
  /\ phase \in {"boot", "running", "draining", "exited"}
  /\ status \in {"none", "clean", "unstarted", "failed", "killed"}
  /\ signal \in BOOLEAN
  /\ listener \in {"off", "open", "broken", "closed"}
  /\ request \in [Requests -> {"new", "open", "stalled", "answered", "cut"}]
  /\ age \in [Requests -> 0..MaxAge]
  /\ left \in 0..Grace

\* The process ends with a status, and only then are requests cut off.
EndsWithStatus ==
  /\ phase = "exited" <=> status # "none"
  /\ phase # "exited" => \A r \in Requests : request[r] # "cut"

\* Only the running process accepts requests, and the ended one serves none.
ServesWhileUp ==
  /\ listener = "open" => phase = "running"
  /\ phase = "exited" => Open = {}

\* Who is open was open when the shutdown began, and somebody was as long as it waited.
OpenAllAlong ==
  phase = "draining" =>
    /\ signal
    /\ \A r \in Open : age[r] >= Grace - left
    /\ left < Grace =>
         \E r \in Requests : request[r] \in {"open", "stalled", "answered"} /\ age[r] >= Grace - left

IInv ==
  /\ TypeOK
  /\ EndsWithStatus
  /\ ServesWhileUp
  /\ OpenAllAlong
  /\ CleanExitServedAll
  /\ FailureHasCause

-----------------------------------------------------------------------------
LEMMA InitInv == Init => IInv
<1> SUFFICES ASSUME Init PROVE IInv
  OBVIOUS
<1>1. /\ phase = "boot" /\ status = "none" /\ signal = FALSE /\ listener = "off" /\ left = Grace
      /\ request = [r \in Requests |-> "new"]
      /\ age = [r \in Requests |-> 0]
  BY DEF Init
<1>2. TypeOK
  <2>1. left \in 0..Grace /\ age \in [Requests -> 0..MaxAge]
    BY <1>1, LifecycleAssumption
  <2>. QED
    BY <1>1, <2>1 DEF TypeOK
<1>. QED
  BY <1>1, <1>2 DEF IInv, EndsWithStatus, ServesWhileUp, OpenAllAlong, CleanExitServedAll,
       FailureHasCause

\* Steps before the server runs, and those that end it there.
LEMMA BootInv ==
  ASSUME IInv, Load \/ BootFails \/ Boot \/ (Signal /\ phase = "boot")
  PROVE  IInv'
<1>1. CASE UNCHANGED <<phase, status, signal, listener, request, age, left>>
  BY <1>1 DEF IInv, TypeOK, EndsWithStatus, ServesWhileUp, OpenAllAlong,
       CleanExitServedAll, FailureHasCause, Open
<1>2. CASE phase = "boot" /\ Boot
  BY <1>2 DEF Boot, IInv, TypeOK, EndsWithStatus, ServesWhileUp, OpenAllAlong,
       CleanExitServedAll, FailureHasCause, Open
<1>3. ASSUME phase = "boot", NEW how \in {"unstarted", "killed"}, Exit(how),
             signal' \in BOOLEAN, UNCHANGED <<age, left>>
      PROVE  IInv'
  BY <1>3 DEF Exit, IInv, TypeOK, EndsWithStatus, ServesWhileUp, OpenAllAlong,
       CleanExitServedAll, FailureHasCause, Open
<1>. QED
  BY <1>1, <1>2, <1>3 DEF Load, BootFails, Boot, Signal, IInv, TypeOK

\* A signal that is caught, and what the listener does.
LEMMA ListenerInv ==
  ASSUME IInv, (Signal /\ phase # "boot") \/ Listen \/ ListenerBreaks
  PROVE  IInv'
<1>1. CASE Signal /\ phase # "boot"
  BY <1>1 DEF Signal, IInv, TypeOK, EndsWithStatus, ServesWhileUp, OpenAllAlong,
       CleanExitServedAll, FailureHasCause, Open
<1>2. CASE Listen \/ ListenerBreaks
  BY <1>2 DEF Listen, ListenerBreaks, IInv, TypeOK, EndsWithStatus, ServesWhileUp, OpenAllAlong,
       CleanExitServedAll, FailureHasCause, Open
<1>. QED
  BY <1>1, <1>2

LEMMA RequestInv ==
  ASSUME IInv, NEW r \in Requests, Accept(r) \/ Answer(r)
  PROVE  IInv'
<1>1. CASE Accept(r)
  BY <1>1 DEF Accept, IInv, TypeOK, EndsWithStatus, ServesWhileUp, OpenAllAlong,
       CleanExitServedAll, FailureHasCause, Open
<1>2. CASE Answer(r)
  <2>1. phase # "exited"
    BY <1>2 DEF Answer, IInv, ServesWhileUp, Open
  <2>2. TypeOK' /\ EndsWithStatus' /\ ServesWhileUp' /\ CleanExitServedAll' /\ FailureHasCause'
    BY <1>2, <2>1 DEF Answer, IInv, TypeOK, EndsWithStatus, ServesWhileUp,
         CleanExitServedAll, FailureHasCause, Open
  <2>3. OpenAllAlong'
    BY <1>2 DEF Answer, IInv, TypeOK, OpenAllAlong, Open
  <2>. QED
    BY <2>2, <2>3 DEF IInv
<1>. QED
  BY <1>1, <1>2

\* The select.
LEMMA SelectInv ==
  ASSUME IInv, SeeSignal \/ SeeFailure
  PROVE  IInv'
<1>1. CASE SeeSignal
  BY <1>1, LifecycleAssumption DEF SeeSignal, IInv, TypeOK, EndsWithStatus, ServesWhileUp, OpenAllAlong,
       CleanExitServedAll, FailureHasCause, Open
<1>2. CASE SeeFailure
  BY <1>2 DEF SeeFailure, Exit, IInv, TypeOK, EndsWithStatus, ServesWhileUp, OpenAllAlong,
       CleanExitServedAll, FailureHasCause, Open
<1>. QED
  BY <1>1, <1>2

\* Shutdown returns.
LEMMA ShutdownInv ==
  ASSUME IInv, Drained \/ GraceOver
  PROVE  IInv'
<1>1. CASE Drained
  BY <1>1 DEF Drained, Exit, IInv, TypeOK, EndsWithStatus, ServesWhileUp, OpenAllAlong,
       CleanExitServedAll, FailureHasCause, Open
<1>2. CASE GraceOver
  <2>1. TypeOK' /\ EndsWithStatus' /\ ServesWhileUp' /\ OpenAllAlong' /\ CleanExitServedAll'
    BY <1>2 DEF GraceOver, Exit, IInv, TypeOK, EndsWithStatus, ServesWhileUp, OpenAllAlong,
         CleanExitServedAll, Open
  <2>2. FailureHasCause'
    <3>1. /\ signal
          /\ \A r \in Open : age[r] >= Grace
          /\ \E r \in Requests : request[r] \in {"open", "stalled", "answered"} /\ age[r] >= Grace
      BY <1>2, LifecycleAssumption DEF GraceOver, IInv, TypeOK, OpenAllAlong
    <3>2. \A r \in Requests : request[r] # "cut"
      BY <1>2 DEF GraceOver, IInv, EndsWithStatus
    <3>. QED
      BY <1>2, <3>1, <3>2 DEF GraceOver, Exit, FailureHasCause, Open
  <2>. QED
    BY <2>1, <2>2 DEF IInv
<1>. QED
  BY <1>1, <1>2

LEMMA TickInv ==
  ASSUME IInv, Tick
  PROVE  IInv'
<1>1. /\ phase \in {"running", "draining"}
      /\ age' = [r \in Requests |-> IF r \in Open /\ age[r] < MaxAge THEN age[r] + 1 ELSE age[r]]
      /\ left' = IF phase = "draining" THEN left - 1 ELSE left
      /\ phase = "draining" => left > 0 /\ Open # {}
      /\ UNCHANGED <<phase, status, signal, listener, request>>
  BY DEF Tick
<1>2. TypeOK'
  BY <1>1, LifecycleAssumption DEF IInv, TypeOK
<1>3. EndsWithStatus' /\ ServesWhileUp' /\ CleanExitServedAll' /\ FailureHasCause'
  BY <1>1 DEF IInv, EndsWithStatus, ServesWhileUp, CleanExitServedAll, FailureHasCause, Open
<1>4. OpenAllAlong'
  <2> SUFFICES ASSUME phase = "draining"
               PROVE  /\ \A r \in Open : age'[r] >= Grace - left'
                      /\ \E r \in Requests : r \in Open /\ age'[r] >= Grace - left'
    BY <1>1 DEF OpenAllAlong, Open, IInv
  <2>1. \A r \in Open : age'[r] >= Grace - left'
    <3> SUFFICES ASSUME NEW r \in Open PROVE age'[r] >= Grace - left'
      OBVIOUS
    <3>1. r \in Requests /\ age[r] \in 0..MaxAge /\ left \in 0..Grace /\ age[r] >= Grace - left
      BY DEF IInv, TypeOK, OpenAllAlong, Open
    <3>2. age'[r] = IF age[r] < MaxAge THEN age[r] + 1 ELSE age[r]
      BY <1>1, <3>1
    <3>. QED
      BY <1>1, <3>1, <3>2, LifecycleAssumption
  <2>2. \E r \in Requests : r \in Open
    BY <1>1 DEF Open
  <2>. QED
    BY <2>1, <2>2
<1>. QED
  BY <1>2, <1>3, <1>4 DEF IInv

LEMMA NextInv == IInv /\ [Next]_vars => IInv'
<1>1. ASSUME IInv, UNCHANGED vars PROVE IInv'
  BY <1>1 DEF vars, IInv, TypeOK, EndsWithStatus, ServesWhileUp, OpenAllAlong,
       CleanExitServedAll, FailureHasCause, Open
<1>2. ASSUME IInv, Next PROVE IInv'
  BY <1>1, <1>2, BootInv, ListenerInv, RequestInv, SelectInv, ShutdownInv, TickInv DEF Next, Done
<1>. QED
  BY <1>1, <1>2

LEMMA InvariantHolds == Spec => []IInv
BY InitInv, NextInv, PTL DEF Spec

\* A clean exit follows a signal and cuts nobody off, however many requests there are.
THEOREM CleanExitServedAllCorrect == Spec => []CleanExitServedAll
BY InvariantHolds, PTL DEF IInv

\* A failed shutdown had a request that was open for the whole grace period, and cuts off
\* only such requests, however long the grace period is.
THEOREM FailureHasCauseCorrect == Spec => []FailureHasCause
BY InvariantHolds, PTL DEF IInv

-----------------------------------------------------------------------------
(* The list of currencies *)

\* The equation that defines the function Settings!Kept(codes) on 0..n.
IsKept(codes, n, kept) ==
  kept = [i \in 0 .. n |->
            IF i = 0 THEN <<>>
            ELSE IF codes[i] = Blank \/ Settings!Contains(kept[i - 1], codes[i]) THEN kept[i - 1]
            ELSE Append(kept[i - 1], codes[i])]

LEMMA KeptExists ==
  ASSUME NEW codes, NEW n \in Nat
  PROVE  \E kept : IsKept(codes, n, kept)
<1> DEFINE Good(k) == \E kept : IsKept(codes, k, kept)
           P == {k \in Nat : Good(k)}
<1>1. 0 \in P
  <2> DEFINE kept == [i \in 0 .. 0 |-> <<>>]
  <2>1. IsKept(codes, 0, kept)
    BY DEF IsKept
  <2> QED
    BY <2>1
<1>2. ASSUME NEW k \in Nat, k \in P
      PROVE  k + 1 \in P
  <2>1. PICK old : IsKept(codes, k, old)
    BY <1>2
  <2> DEFINE Step(f, i) ==
               IF i = 0 THEN <<>>
               ELSE IF codes[i] = Blank \/ Settings!Contains(f[i - 1], codes[i]) THEN f[i - 1]
               ELSE Append(f[i - 1], codes[i])
             new == [i \in 0 .. k + 1 |-> Step(old, i)]
  <2>2. old = [i \in 0 .. k |-> Step(old, i)]
    BY <2>1 DEF IsKept
  <2>3. \A i \in 0 .. k : new[i] = old[i]
    <3> HIDE DEF Step
    <3> QED
      BY <2>2
  <2>4. \A i \in 0 .. k + 1 : i # 0 => new[i - 1] = old[i - 1]
    <3> HIDE DEF new
    <3>1. \A i \in 0 .. k + 1 : i # 0 => i - 1 \in 0 .. k
      OBVIOUS
    <3> QED
      BY <2>3, <3>1
  <2>5. \A i \in 0 .. k + 1 : Step(old, i) = Step(new, i)
    <3> HIDE DEF new
    <3> QED
      BY <2>4
  <2>6. new = [i \in 0 .. k + 1 |-> Step(new, i)]
    <3>1. new = [i \in 0 .. k + 1 |-> Step(old, i)]
      OBVIOUS
    <3> HIDE DEF new, Step
    <3> QED
      BY <2>5, <3>1
  <2> HIDE DEF new
  <2>7. Good(k + 1)
    BY <2>6 DEF IsKept
  <2> HIDE DEF Good
  <2> QED
    BY <2>7
<1>3. \A k \in Nat : k \in P => k + 1 \in P
  BY <1>2
<1> HIDE DEF P
<1>4. Nat \subseteq P
  BY <1>1, <1>3, NumbersByInduction
<1> QED
  BY <1>4 DEF P

LEMMA KeptIsRecursive ==
  ASSUME NEW S, NEW codes \in Seq(S)
  PROVE  IsKept(codes, Len(codes), Settings!Kept(codes))
<1> DEFINE kept == Settings!Kept(codes)
<1>1. kept = CHOOSE f : IsKept(codes, Len(codes), f)
  BY DEF Settings!Kept, IsKept
<1>2. \E f : IsKept(codes, Len(codes), f)
  BY KeptExists
<1> HIDE DEF kept
<1>3. IsKept(codes, Len(codes), kept)
  BY <1>1, <1>2
<1> QED
  BY <1>3 DEF kept

\* A list of currencies as the service and the provider both take it.
Clean(list) ==
  /\ list \in Seq(Codes \ {Blank})
  /\ \A i, j \in DOMAIN list : list[i] = list[j] => i = j

LEMMA CleanStep ==
  ASSUME NEW list, Clean(list), NEW code \in Codes, code # Blank,
         ~Settings!Contains(list, code)
  PROVE  Clean(Append(list, code))
<1>1. list \in Seq(Codes \ {Blank}) /\ code \in Codes \ {Blank}
  BY DEF Clean
<1> DEFINE n == Len(list)
           more == Append(list, code)
<1>2. /\ n \in Nat
      /\ more \in Seq(Codes \ {Blank})
      /\ DOMAIN more = 1 .. n + 1
      /\ \A i \in 1 .. n : more[i] = list[i]
      /\ more[n + 1] = code
  BY <1>1
<1>3. \A i \in 1 .. n : list[i] # code
  BY DEF Settings!Contains
<1>4. \A i, j \in 1 .. n : list[i] = list[j] => i = j
  BY <1>1 DEF Clean
<1> HIDE DEF n, more
<1>5. \A i \in 1 .. n + 1 : i \in 1 .. n \/ i = n + 1
  BY <1>2
<1>6. \A i, j \in DOMAIN more : more[i] = more[j] => i = j
  BY <1>2, <1>3, <1>4, <1>5
<1>7. Clean(more)
  BY <1>2, <1>6 DEF Clean
<1> QED
  BY <1>7 DEF more

LEMMA KeptIsClean ==
  ASSUME NEW codes \in Seq(Codes)
  PROVE  \A n \in 0 .. Len(codes) : Clean(Settings!Kept(codes)[n])
<1> DEFINE kept == Settings!Kept(codes)
           P == {n \in Nat : n <= Len(codes) => Clean(kept[n])}
<1>1. /\ Len(codes) \in Nat
      /\ kept[0] = <<>>
      /\ \A i \in 1 .. Len(codes) :
           kept[i] = IF codes[i] = Blank \/ Settings!Contains(kept[i - 1], codes[i])
                     THEN kept[i - 1] ELSE Append(kept[i - 1], codes[i])
  <2>1. IsKept(codes, Len(codes), kept)
    BY KeptIsRecursive
  <2> DEFINE n == Len(codes)
             longer == [i \in 0 .. n |->
                          IF codes[i] = Blank \/ Settings!Contains(kept[i - 1], codes[i])
                          THEN kept[i - 1] ELSE Append(kept[i - 1], codes[i])]
  <2>2. n \in Nat
    OBVIOUS
  <2>3. kept = [i \in 0 .. n |-> IF i = 0 THEN <<>> ELSE longer[i]]
    BY <2>1 DEF IsKept
  <2>4. \A i \in 1 .. n :
          longer[i] = IF codes[i] = Blank \/ Settings!Contains(kept[i - 1], codes[i])
                      THEN kept[i - 1] ELSE Append(kept[i - 1], codes[i])
    <3> HIDE DEF kept
    <3>1. \A i \in 1 .. n : i \in 0 .. n
      BY <2>2
    <3> QED
      BY ONLY <3>1
  <2> HIDE DEF kept, n, longer
  <2>5. kept[0] = <<>> /\ \A i \in 1 .. n : kept[i] = longer[i]
    BY <2>2, <2>3
  <2> QED
    BY <2>2, <2>4, <2>5 DEF n
<1>2. 0 \in P
  <2>1. Clean(<<>>)
    BY DEF Clean
  <2> QED
    BY <1>1, <2>1
<1>3. ASSUME NEW n \in Nat, n \in P
      PROVE  n + 1 \in P
  <2> SUFFICES ASSUME n + 1 <= Len(codes) PROVE Clean(kept[n + 1])
    OBVIOUS
  <2>1. n + 1 \in 1 .. Len(codes) /\ (n + 1) - 1 = n /\ n <= Len(codes)
    BY <1>1
  <2>2. Clean(kept[n])
    BY <1>3, <2>1
  <2>3. codes[n + 1] \in Codes
    BY <2>1
  <2>4. kept[n + 1] = IF codes[n + 1] = Blank \/ Settings!Contains(kept[n], codes[n + 1])
                      THEN kept[n] ELSE Append(kept[n], codes[n + 1])
    BY <1>1, <2>1
  <2> HIDE DEF kept
  <2>5. CASE codes[n + 1] = Blank \/ Settings!Contains(kept[n], codes[n + 1])
    BY <2>2, <2>4, <2>5
  <2>6. CASE ~(codes[n + 1] = Blank \/ Settings!Contains(kept[n], codes[n + 1]))
    BY <2>2, <2>3, <2>4, <2>6, CleanStep
  <2> QED
    BY <2>5, <2>6
<1>4. \A n \in Nat : n \in P => n + 1 \in P
  BY <1>3
<1> HIDE DEF P
<1>5. Nat \subseteq P
  BY <1>2, <1>4, NumbersByInduction
<1> QED
  BY <1>1, <1>5 DEF P

LEMMA NormalizedIsClean ==
  ASSUME NEW codes \in Seq(Codes)
  PROVE  Clean(Settings!Normalized(codes)) /\ Settings!Normalized(codes) # <<>>
<1>1. Len(codes) \in 0 .. Len(codes)
  OBVIOUS
<1>2. Clean(Settings!Kept(codes)[Len(codes)])
  BY <1>1, KeptIsClean
<1>3. Clean(DefaultCurrencies) /\ DefaultCurrencies # <<>>
  BY DefaultsAssumption DEF Clean
<1> QED
  BY <1>2, <1>3 DEF Settings!Normalized

-----------------------------------------------------------------------------
(* The settings *)

\* What is accepted, and is in effect while the process runs.
Accepted ==
  /\ ~Settings!ServerRefused(cfg) /\ ~Settings!FXRefused(cfg)
  /\ cfg.retryInitial \in Int /\ cfg.retryMax \in Int
  /\ Clean(cfg.supportedCurrencies) /\ cfg.supportedCurrencies # <<>>

SettingsInv ==
  /\ stage = "parsed" => cfg \in Environments
  /\ stage \in {"loaded", "wired"} => Accepted
  /\ SettingsTakeEffect

LEMMA LoadSettings ==
  ASSUME SettingsInv, Settings!Load
  PROVE  SettingsInv'
<1> DEFINE list == Settings!Normalized(cfg.supportedCurrencies)
<1>1. /\ cfg = [field \in Fields |-> cfg[field]]
      /\ cfg.retryInitial \in Int /\ cfg.retryMax \in Int
      /\ cfg.supportedCurrencies \in Seq(Codes)
  BY EnvironmentsAssumption DEF Settings!Load, SettingsInv
<1>2. Clean(list) /\ list # <<>>
  BY <1>1, NormalizedIsClean
<1>3. cfg' = [cfg EXCEPT !.supportedCurrencies = list]
  BY DEF Settings!Load
<1> HIDE DEF list
<1>4. /\ cfg'.supportedCurrencies = list
      /\ \A field \in Fields : field # "supportedCurrencies" => cfg'[field] = cfg[field]
  BY <1>1, <1>3 DEF Fields
<1>5. stage' \in {"refused", "loaded"}
      /\ (stage' = "loaded" => ~Settings!ServerRefused(cfg) /\ ~Settings!FXRefused(cfg))
  BY DEF Settings!Load
<1>6. /\ Settings!ServerRefused(cfg)' <=> Settings!ServerRefused(cfg)
      /\ Settings!FXRefused(cfg)' <=> Settings!FXRefused(cfg)
  <2>1. /\ cfg'.listenAddr = cfg.listenAddr /\ cfg'.healthPath = cfg.healthPath
        /\ cfg'.apiKey = cfg.apiKey /\ cfg'.maxBodyBytes = cfg.maxBodyBytes
        /\ cfg'.maxTransactions = cfg.maxTransactions
        /\ cfg'.requestTimeout = cfg.requestTimeout
        /\ cfg'.rateLimitMax = cfg.rateLimitMax /\ cfg'.rateLimitWindow = cfg.rateLimitWindow
        /\ cfg'.idempotencyTTL = cfg.idempotencyTTL
    BY <1>4 DEF Fields
  <2>2. /\ cfg'.baseURL = cfg.baseURL /\ cfg'.historicalURL = cfg.historicalURL
        /\ cfg'.dataPath = cfg.dataPath /\ cfg'.retryMaxAttempts = cfg.retryMaxAttempts
        /\ cfg'.retryInitial = cfg.retryInitial /\ cfg'.retryMax = cfg.retryMax
        /\ cfg'.cacheTTL = cfg.cacheTTL /\ cfg'.quoteFreshnessSLA = cfg.quoteFreshnessSLA
        /\ cfg'.spreadBPS = cfg.spreadBPS /\ cfg'.markupBPS = cfg.markupBPS
        /\ cfg'.riskThreshold = cfg.riskThreshold
    BY <1>4 DEF Fields
  <2> QED
    BY <2>1, <2>2 DEF Settings!ServerRefused, Settings!FXRefused
<1>7. cfg'.retryInitial = cfg.retryInitial /\ cfg'.retryMax = cfg.retryMax
  BY <1>4 DEF Fields
<1>8. stage' = "loaded" => Accepted'
  BY <1>1, <1>2, <1>4, <1>5, <1>6, <1>7 DEF Accepted, Clean
<1>9. SettingsTakeEffect'
  BY <1>5 DEF SettingsTakeEffect, Settings!SettingsTakeEffect, Settings!Wired
<1> QED
  BY <1>5, <1>8, <1>9 DEF SettingsInv

\* Each test of a constructor is one of the validation, or is never met after it.
LEMMA WireSettings ==
  ASSUME SettingsInv, Settings!Wire
  PROVE  SettingsInv'
<1>1. Accepted
  BY DEF Settings!Wire, SettingsInv
<1>2. /\ stage' = "wired" /\ cfg' = cfg
      /\ app' = [layers |-> Settings!Installed, service |-> Settings!Service,
                 provider |-> Settings!Provider, idempotencyTTL |-> Settings!IdempotencyTTL]
  BY DEF Settings!Wire
<1>3. /\ ~Settings!NotPositive(cfg.maxBodyBytes) /\ ~Settings!NotPositive(cfg.maxTransactions)
      /\ ~Settings!NotPositive(cfg.requestTimeout) /\ cfg.apiKey # Blank
      /\ ~Settings!NotPositive(cfg.rateLimitMax) /\ ~Settings!NotPositive(cfg.rateLimitWindow)
      /\ ~Settings!NotPositive(cfg.idempotencyTTL)
  BY <1>1 DEF Accepted, Settings!ServerRefused
<1>4. /\ ~(cfg.retryMaxAttempts < 1)
      /\ ~Settings!NotPositive(cfg.retryInitial) /\ ~(cfg.retryInitial > cfg.retryMax)
      /\ ~Settings!NotPositive(cfg.cacheTTL) /\ ~Settings!NotPositive(cfg.quoteFreshnessSLA)
      /\ ~Settings!Negative(cfg.riskThreshold)
  BY <1>1 DEF Accepted, Settings!FXRefused
<1>5. Settings!Installed = Settings!Layers
  BY <1>3 DEF Settings!Installed, Settings!Layers
<1>6. /\ Settings!Service.threshold = cfg.riskThreshold
      /\ Settings!Service.maxTransactions = cfg.maxTransactions
      /\ Settings!Service.sla = cfg.quoteFreshnessSLA
      /\ Settings!Provider.attempts = cfg.retryMaxAttempts
      /\ Settings!Provider.cacheTTL = cfg.cacheTTL
      /\ Settings!IdempotencyTTL = cfg.idempotencyTTL
  BY <1>3, <1>4 DEF Settings!Service, Settings!Provider, Settings!IdempotencyTTL,
       Settings!OrDefault
<1>7. 0 < cfg.retryInitial /\ cfg.retryInitial <= cfg.retryMax
  <2>1. cfg.retryInitial \in Int /\ cfg.retryMax \in Int /\ cfg.retryInitial # NaN
    BY <1>1, EnvironmentsAssumption DEF Accepted
  <2>2. ~(cfg.retryInitial <= 0) /\ ~(cfg.retryInitial > cfg.retryMax)
    BY <1>4, <2>1 DEF Settings!NotPositive
  <2> QED
    BY <2>1, <2>2
<1>8. Settings!Provider.initial = cfg.retryInitial /\ Settings!Provider.max = cfg.retryMax
  BY DEF Settings!Provider
<1>9. /\ Settings!Service.supported = Settings!Provider.supported
      /\ Settings!Service.supported # {}
      /\ Settings!IsInjective(cfg.supportedCurrencies)
  <2> DEFINE list == cfg.supportedCurrencies
  <2>1. Clean(list) /\ list # <<>>
    BY <1>1 DEF Accepted
  <2> HIDE DEF list
  <2>2. Blank \notin Settings!ToSet(list) /\ Settings!ToSet(list) # {}
    BY <2>1 DEF Clean, Settings!ToSet
  <2>3. Settings!IsInjective(list)
    BY <2>1 DEF Clean, Settings!IsInjective
  <2>4. Settings!Service.supported = Settings!ToSet(list) \ {Blank}
        /\ Settings!Provider.supported = Settings!ToSet(list)
    BY DEF Settings!Service, Settings!Provider, list
  <2> QED
    BY <2>2, <2>3, <2>4 DEF list
<1>10. SettingsTakeEffect'
  <2>1. /\ app'.layers = Settings!Installed /\ app'.service = Settings!Service
        /\ app'.provider = Settings!Provider /\ app'.idempotencyTTL = Settings!IdempotencyTTL
    BY <1>2
  <2>2. Settings!NothingSwitchedOff'
    BY <1>5, <2>1 DEF Settings!NothingSwitchedOff, Settings!Layers
  <2>3. Settings!NothingReplaced'
    BY <1>2, <1>6, <2>1 DEF Settings!NothingReplaced
  <2>4. Settings!BackoffFits'
    BY <1>7, <1>8, <2>1 DEF Settings!BackoffFits
  <2>5. Settings!CurrenciesAgree'
    BY <1>2, <1>9, <2>1 DEF Settings!CurrenciesAgree, Settings!IsInjective
  <2> QED
    BY <2>2, <2>3, <2>4, <2>5 DEF SettingsTakeEffect, Settings!SettingsTakeEffect
<1>11. Accepted'
  BY <1>1, <1>2 DEF Accepted, Settings!ServerRefused, Settings!FXRefused, Clean,
       Settings!NotPositive, Settings!Negative
<1> QED
  BY <1>2, <1>10, <1>11 DEF SettingsInv

LEMMA SameSettings ==
  ASSUME SettingsInv, UNCHANGED settings
  PROVE  SettingsInv'
<1>1. stage' = stage /\ cfg' = cfg /\ app' = app
  BY DEF settings
<1>2. Accepted' <=> Accepted
  BY <1>1 DEF Accepted, Settings!ServerRefused, Settings!FXRefused, Clean,
       Settings!NotPositive, Settings!Negative
<1>3. SettingsTakeEffect' <=> SettingsTakeEffect
  BY <1>1 DEF SettingsTakeEffect, Settings!SettingsTakeEffect, Settings!Wired,
       Settings!NothingSwitchedOff, Settings!NothingReplaced, Settings!BackoffFits,
       Settings!CurrenciesAgree, Settings!Layers, Settings!IsInjective
<1> QED
  BY <1>1, <1>2, <1>3 DEF SettingsInv

\* Whatever is in the environment, the process refuses to start, or runs with every layer
\* installed, no setting replaced, a backoff as RequestBudget assumes it, and the service and
\* the provider supporting the same currencies.
THEOREM SettingsTakeEffectCorrect == Spec => []SettingsTakeEffect
<1>1. Init => SettingsInv
  BY DEF Init, Settings!Init, SettingsInv, SettingsTakeEffect, Settings!SettingsTakeEffect,
       Settings!Wired
<1>2. SettingsInv /\ [Next]_vars => SettingsInv'
  <2> SUFFICES ASSUME SettingsInv, [Next]_vars PROVE SettingsInv'
    OBVIOUS
  <2>1. CASE UNCHANGED settings
    BY <2>1, SameSettings
  <2>2. CASE Load
    BY <2>2, LoadSettings DEF Load
  <2>3. CASE Boot
    BY <2>3, WireSettings DEF Boot
  <2> QED
    BY <2>1, <2>2, <2>3 DEF Next, vars, BootFails, Signal, Listen, ListenerBreaks, Accept,
         Answer, SeeSignal, SeeFailure, Drained, GraceOver, Tick, Done
<1>3. SettingsInv => SettingsTakeEffect
  BY DEF SettingsInv
<1>. QED
  BY <1>1, <1>2, <1>3, PTL DEF Spec
=============================================================================
