SPECIFICATION Spec
CONSTANTS
  Requests = {r1, r2}
  Grace = 2
  MaxAge = 5
  Environments <- MCEnvironments
  DefaultCurrencies <- MCDefaults
  Codes <- MCCodes
  NaN = NaN
  Blank = Blank
INVARIANTS
  CleanExitServedAll
  FailureHasCause
  SettingsTakeEffect
PROPERTIES
  SignalEndsProcess
