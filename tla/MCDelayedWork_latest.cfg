SPECIFICATION Spec
CONSTANTS
  NoKey = NoKey
  k1 = k1
  Keys = {k1}
  BestEffortMax = 2
  CriticalReserved = 1
  MaxDefer = 2
  Delays = {0, 1}
  RetryDelay = 1
  GuardPeriod = 2
  WaitMax = 3
  CallerKinds = {"keyed"}
  MaxMsgs = 2
  MaxTime = 3
PROPERTIES LatestKept
