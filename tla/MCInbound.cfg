SPECIFICATION Spec
CONSTANTS
  NoMsg = NoMsg
  Empty = Empty
  u1 = u1
  u2 = u2
  u3 = u3
  s1 = s1
  s2 = s2
  kUser = kUser
  kOther = kOther
  UserMsgs = {u1, u2}
  SystemMsgs = {s1, s2}
  LaneMsgs = {s1}
  LowPriorityMsgs = {s2}
  GatewayMsgs = {u1, u2}
  PassiveMsgs = {u1}
  Keys = {kUser, kOther}
  KeyOf <- Key
  TriesOf <- Tries
  UserCap = 1
  SystemCap = 1
  MaxReplay = 2
  MaxConsecutive = 1
  MaxDefer = 2
  MaxFailures = 1
  MaxFaults = 1
  MaxCrashes = 1
INVARIANTS TypeOK MessageInOnePlace MirrorMatchesFile SystemOvertakenBounded
PROPERTIES UserLossExplained SystemServed
