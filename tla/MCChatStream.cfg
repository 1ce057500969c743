SPECIFICATION Spec
CONSTANTS
  first = first
  second = second
  hello = hello
  Requests = {first, second}
  Capacity = 2
  MaxActive = 1
  InboxCapacity = 1
  Contents = {hello}
  ContentOf <- SayHello
  MaxFailures = 2
  MaxTexts <- TwoAndNone
  MaxPieces = 1
  NoRequest = NoRequest
INVARIANTS TypeOK EveryStreamIsAnswered EndsOnce WholeReply
PROPERTIES StreamEnds
CHECK_DEADLOCK FALSE
