SPECIFICATION Spec
CONSTANTS
  NoWrite = NoWrite
  NoLabel = NoLabel
  Agent = agent
  Callers = {agent, handler}
  Timer = timer
  Workers = {w1, w2}
  Session = session
  MapStores = {ledger}
  Gc = gc
  Labels = {session, ledger, gc}
  Maintenance = {gc}
  Coalescible = {session, gc}
  QueueMax = 3
  BatchMax = 2
  Chats = {c}
  MaxOps = 2
  MaxMishaps = 0
  MaxAsked = 1
INVARIANT NoWriteForgotten
