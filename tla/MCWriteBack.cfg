SPECIFICATION FairSpec
CONSTANTS
  NoWrite = NoWrite
  NoLabel = NoLabel
  Agent = agent
  Callers = {agent}
  Timer = timer
  Workers = {w1, w2}
  Session = session
  MapStores = {ledger}
  Gc = gc
  Labels = {session, ledger, gc}
  Maintenance = {gc}
  Coalescible = {session, gc}
  QueueMax = 2
  BatchMax = 2
  Chats = {c}
  MaxOps = 2
  MaxMishaps = 1
  MaxAsked = 1
INVARIANTS TypeOK OneWorker PendingHasFlush
PROPERTIES WritesAreFlushed ImplementsWriteBehind
