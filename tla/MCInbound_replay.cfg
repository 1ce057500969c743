SPECIFICATION Spec
CONSTANTS
  NoMsg = NoMsg
  Empty = Empty
  u1 = u1
  u2 = u2
  u3 = u3
  s1 = s1
  s2 = s2
  kUser = kUser
  kOther = kOther
  UserMsgs = {u1, u2, u3}
  SystemMsgs = {}
  LaneMsgs = {}
  LowPriorityMsgs = {}
  GatewayMsgs = {u1, u2}
  PassiveMsgs = {u1}
  Keys = {kUser, kOther}
  KeyOf <- Key
  TriesOf <- Tries
  UserCap = 1
  SystemCap = 1
  MaxReplay = 3
  MaxConsecutive = 2
  MaxDefer = 2
  MaxFailures = 2
  MaxFaults = 0
  MaxCrashes = 1
INVARIANT DiscardedAfterReplays
