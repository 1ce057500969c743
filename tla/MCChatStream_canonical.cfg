SPECIFICATION Spec
CONSTANTS
  first = first
  second = second
  hello = hello
  Requests = {first}
  Capacity = 8
  MaxActive = 1
  InboxCapacity = 1
  Contents = {hello}
  ContentOf <- SayHello
  MaxFailures = 2
  MaxTexts <- Two
  MaxPieces = 2
  NoRequest = NoRequest
INVARIANTS CanonicalReplyShown
CHECK_DEADLOCK FALSE
