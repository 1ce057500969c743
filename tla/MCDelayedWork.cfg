SPECIFICATION Spec
CONSTANTS
  NoKey = NoKey
  k1 = k1
  Keys = {k1}
  BestEffortMax = 2
  CriticalReserved = 1
  MaxDefer = 2
  Delays = {1}
  RetryDelay = 1
  GuardPeriod = 1
  WaitMax = 3
  CallerKinds = {"system", "keyed", "user", "plain"}
  MaxMsgs = 4
  MaxTime = 3
INVARIANTS TypeOK OneJobPerKey DeferralBounded LateByAtMostAPeriod ClosureInOnePlace LossExplained
