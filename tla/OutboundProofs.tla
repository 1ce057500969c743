--------------------------- MODULE OutboundProofs ---------------------------
(***************************************************************************)
(* Theorems about the outbound threads.  WorkInv is about the worker: only *)
(* primaries are in its buffer or held for it, and while a replay sends a  *)
(* message there is room for it to come back.  PartsInv gives the types of *)
(* what the threads share.  FlowInv and HandedInv say where a message can  *)
(* be, for the reasons why one is lost; SpreadInv adds where it goes from  *)
(* there, so that it is in one place.  The last part is about order.       *)
(***************************************************************************)
EXTENDS Outbound, SequenceTheorems, FiniteSetTheorems, WellFoundedInduction, TLAPS

Prims == {m \in Msgs : Primary(m)}

LEMMA ConstantTypes ==
  /\ FailThreshold \in Nat /\ FailThreshold > 0
  /\ CooldownSecs \in Nat /\ CooldownSecs > 0
  /\ SenderTries \in Nat /\ SenderTries > 0
  /\ SendTries \in Nat /\ SendTries > 0
  /\ MaxModeChanges \in Nat
  /\ BufferMax \in Nat
  /\ RecordingChannels \subseteq QueueChannels
  /\ QueueChannels \subseteq TrackedChannels
  /\ NoMsg \notin Msgs
<1>1. /\ FailThreshold \in Nat \ {0} /\ CooldownSecs \in Nat \ {0}
      /\ SenderTries \in Nat \ {0} /\ SendTries \in Nat \ {0}
  BY ChannelAssumption, SenderAssumption, WorkerAssumption
  DEF ChannelAssumption, SenderAssumption, WorkerAssumption
<1> QED
  BY <1>1, ChannelAssumption, SenderAssumption, WorkerAssumption, BufferAssumption
  DEF ChannelAssumption, SenderAssumption, WorkerAssumption, BufferAssumption

-----------------------------------------------------------------------------
(* The deferred buffer, for messages of any set S.                         *)

LEMMA RemoveAtFacts ==
  ASSUME NEW S, NEW s \in Seq(S), NEW i \in 1..Len(s)
  PROVE  RemoveAt(s, i) \in Seq(S) /\ Len(RemoveAt(s, i)) = Len(s) - 1
<1> DEFINE a == SubSeq(s, 1, i - 1)
           b == SubSeq(s, i + 1, Len(s))
<1>1. i \in Nat /\ Len(s) \in Nat /\ i <= Len(s) /\ 1 <= i
  BY LenProperties
<1>2. a \in Seq(S) /\ Len(a) = i - 1
  BY <1>1, SubSeqProperties
<1>3. b \in Seq(S) /\ Len(b) = Len(s) - i
  BY <1>1, SubSeqProperties
<1>4. a \o b \in Seq(S) /\ Len(a \o b) = Len(a) + Len(b)
  BY <1>2, <1>3, ConcatProperties
<1>5. RemoveAt(s, i) = a \o b
  BY DEF RemoveAt
<1>6. Len(a \o b) = Len(s) - 1
  <2> HIDE DEF a, b
  <2> QED BY <1>1, <1>2, <1>3, <1>4
<1> QED BY <1>4, <1>5, <1>6, Zenon

LEMMA InsertAtFacts ==
  ASSUME NEW S, NEW s \in Seq(S), NEW e \in S, NEW i \in 1..Len(s) + 1
  PROVE  InsertAt(s, i, e) \in Seq(S) /\ Len(InsertAt(s, i, e)) = Len(s) + 1
<1> DEFINE a == SubSeq(s, 1, i - 1)
           b == SubSeq(s, i, Len(s))
<1>1. i \in Nat /\ Len(s) \in Nat /\ i <= Len(s) + 1 /\ 1 <= i
  BY LenProperties
<1>2. a \in Seq(S) /\ Len(a) = i - 1
  BY <1>1, SubSeqProperties
<1>3. b \in Seq(S) /\ Len(b) = Len(s) + 1 - i
  BY <1>1, SubSeqProperties
<1>4. <<e>> \in Seq(S) /\ Len(<<e>>) = 1
  OBVIOUS
<1>5. a \o <<e>> \in Seq(S) /\ Len(a \o <<e>>) = i
  BY <1>1, <1>2, <1>4, ConcatProperties
<1>6. a \o <<e>> \o b \in Seq(S) /\ Len(a \o <<e>> \o b) = Len(s) + 1
  <2>1. /\ a \o <<e>> \o b \in Seq(S)
        /\ Len(a \o <<e>> \o b) = Len(a \o <<e>>) + Len(b)
    <3> HIDE DEF a, b
    <3> QED BY <1>3, <1>5, ConcatProperties
  <2>2. \A j, k \in Nat : j <= k + 1 => j + (k + 1 - j) = k + 1
    OBVIOUS
  <2>3. Len(a \o <<e>> \o b) = i + (Len(s) + 1 - i)
    <3> HIDE DEF a, b
    <3> QED BY <1>3, <1>5, <2>1
  <2> QED BY <1>1, <2>1, <2>2, <2>3
<1>7. InsertAt(s, i, e) = a \o <<e>> \o b
  BY DEF InsertAt
<1> QED BY <1>6, <1>7, Zenon

LEMMA FirstExists ==
  ASSUME NEW S, S \subseteq Nat, S # {}
  PROVE  First(S) \in S
<1>1. PICK i \in S : \A j \in S : ~(<<j, i>> \in OpToRel(<, Nat))
  BY NatLessThanWellFounded, WFMin
<1>2. \A j \in S : i <= j
  <2>1. \A j \in S : j \in Nat /\ ~(j < i) BY <1>1 DEF OpToRel
  <2>2. \A a, b \in Nat : ~(a < b) => b <= a OBVIOUS
  <2> QED BY <2>1, <2>2
<1> QED BY <1>2 DEF First

\* What try_push_buffered_msg does with a primary: the buffer keeps to its
\* limit and to primaries.
LEMMA PushFacts ==
  ASSUME NEW s \in Seq(Prims), Len(s) <= BufferMax, NEW m \in Prims
  PROVE  /\ TryPush(s, m).buffer \in Seq(Prims)
         /\ Len(TryPush(s, m).buffer) <= BufferMax
         /\ TryPush(s, m).out \subseteq Prims
<1> DEFINE same == SameReply(s, m)
           weak == {i \in DOMAIN s : Supplemental(s[i])}
<1>1. Len(s) \in Nat /\ BufferMax \in Nat /\ DOMAIN s = 1..Len(s)
      /\ \A i \in DOMAIN s : s[i] \in Prims
  BY LenProperties, ElementOfSeq, ConstantTypes
<1>2. weak = {} BY <1>1 DEF Prims, Primary, Supplemental
<1>3. CASE same # {}
  <2>0. same \subseteq DOMAIN s /\ same \subseteq Nat
    BY <1>1 DEF SameReply
  <2>1. First(same) \in DOMAIN s
    <3> HIDE DEF same
    <3>1. First(same) \in same BY <1>3, <2>0, FirstExists
    <3> QED BY <2>0, <3>1
  <2>2. /\ TryPush(s, m).buffer = [s EXCEPT ![First(same)] = m]
        /\ TryPush(s, m).out = {s[First(same)]}
    BY <1>3 DEF TryPush, ReplaceAt
  <2>3. [s EXCEPT ![First(same)] = m] \in Seq(Prims)
        /\ Len([s EXCEPT ![First(same)] = m]) = Len(s)
    BY <1>1, <2>1, ExceptSeq
  <2> QED BY <1>1, <2>1, <2>2, <2>3
<1>4. CASE same = {} /\ Len(s) < BufferMax
  <2>1. TryPush(s, m) = [buffer |-> Append(s, m), out |-> {}]
    BY <1>1, <1>4 DEF TryPush
  <2>2. Append(s, m) \in Seq(Prims) /\ Len(Append(s, m)) = Len(s) + 1
    BY AppendProperties
  <2> QED BY <1>1, <1>4, <2>1, <2>2
<1>5. CASE same = {} /\ ~(Len(s) < BufferMax)
  BY <1>1, <1>2, <1>5 DEF TryPush
<1> QED BY <1>3, <1>4, <1>5

-----------------------------------------------------------------------------
(* The worker.                                                             *)

\* The buffer keeps to its limit and to primaries.
BufferInv == buffer \in Seq(Prims) /\ Len(buffer) <= BufferMax

\* Where the worker can be: the cursor is set exactly while it replays, and
\* a message is held only during the replay that a full buffer started.
PlaceInv ==
  /\ pc \in {"tick", "scan", "scanned", "recv", "send"}
  /\ cursor \in Nat
  /\ cursor <= Len(buffer) + 1
  /\ pc \in {"tick", "recv"} => cursor = 0
  /\ pc \in {"scan", "scanned"} => cursor > 0
  /\ held \in Prims \cup {NoMsg}
  /\ held # NoMsg => cursor > 0

\* What it has in its hands; a replayed message left room behind.
HandInv ==
  /\ pc = "send" => msg \in Msgs
  /\ pc # "send" => msg = NoMsg
  /\ pc = "send" /\ cursor > 0 => msg \in Prims /\ Len(buffer) < BufferMax
  /\ attempt \in Nat
  /\ pc = "send" => attempt < AttemptsFor(msg)
  /\ pc # "send" => attempt = 0

WorkInv == BufferInv /\ PlaceInv /\ HandInv

workerVars == <<buffer, pc, workVars, held>>

Losses == [msg : Msgs, why : {"full", "replaced", "failed", "unwanted", "sender"}]

LEMMA AttemptsPositive ==
  \A m : AttemptsFor(m) \in Nat /\ 0 < AttemptsFor(m)
BY ConstantTypes DEF AttemptsFor

LEMMA WorkInit == Init => WorkInv
<1> SUFFICES ASSUME Init PROVE WorkInv
  OBVIOUS
<1>1. buffer = <<>> /\ pc = "tick" /\ msg = NoMsg /\ cursor = 0 /\ attempt = 0
      /\ held = NoMsg
  BY DEF Init
<1>2. BufferInv
  BY <1>1, ConstantTypes DEF BufferInv
<1> QED BY <1>1, <1>2 DEF WorkInv, PlaceInv, HandInv

\* What the other threads do is nothing to the worker's own state.
LEMMA WorkUntouched == WorkInv /\ UNCHANGED workerVars => WorkInv'
BY DEF WorkInv, BufferInv, PlaceInv, HandInv, workerVars, workVars, AttemptsFor,
       ByDriver

\* A deferred primary: in the buffer, or held while the buffer is replayed.
LEMMA DeferFacts ==
  ASSUME BufferInv, NEW m \in Prims, held = NoMsg, Defer(m)
  PROVE  /\ BufferInv'
         /\ \/ pc' = "scan" /\ cursor' = 1 /\ held' = m
            \/ pc' = "tick" /\ cursor' = 0 /\ held' = NoMsg
         /\ lost \subseteq Losses => lost' \subseteq Losses
         /\ gateOpen' \in BOOLEAN
<1>1. gateOpen' \in BOOLEAN
  BY DEF Defer
<1>2. CASE Refused(buffer, m) /\ WaitsWhenFull(m)
  <2>1. held' = m /\ pc' = "scan" /\ cursor' = 1 /\ buffer' = buffer /\ lost' = lost
    BY <1>2 DEF Defer, StartScan
  <2> QED BY <1>1, <2>1 DEF BufferInv
<1>3. CASE ~(Refused(buffer, m) /\ WaitsWhenFull(m))
  <2>1. /\ buffer' = TryPush(buffer, m).buffer
        /\ lost' = lost \cup {[msg |-> b, why |-> IF b = m THEN "full" ELSE "replaced"] :
                                b \in TryPush(buffer, m).out}
        /\ pc' = "tick" /\ cursor' = 0 /\ held' = held
    BY <1>3 DEF Defer
  <2>2. /\ TryPush(buffer, m).buffer \in Seq(Prims)
        /\ Len(TryPush(buffer, m).buffer) <= BufferMax
        /\ TryPush(buffer, m).out \subseteq Msgs
    BY PushFacts DEF BufferInv, Prims
  <2>3. \A b \in Msgs :
          [msg |-> b, why |-> IF b = m THEN "full" ELSE "replaced"] \in Losses
    BY DEF Losses
  <2>4. lost \subseteq Losses => lost' \subseteq Losses
    BY <2>1, <2>2, <2>3
  <2> QED BY <1>1, <2>1, <2>2, <2>4 DEF BufferInv
<1> QED BY <1>2, <1>3

\* A replayed message that was not sent fits where it was.
LEMMA PutBackFacts ==
  ASSUME WorkInv, pc = "send", cursor > 0, PutBack
  PROVE  /\ BufferInv'
         /\ Len(buffer') = Len(buffer) + 1
         /\ pc' = "scanned" /\ msg' = NoMsg
         /\ UNCHANGED <<cursor, held, gateOpen, lost>>
<1>1. buffer \in Seq(Prims) /\ msg \in Prims /\ Len(buffer) < BufferMax
      /\ cursor \in 1..Len(buffer) + 1 /\ Len(buffer) \in Nat
  BY LenProperties DEF WorkInv, BufferInv, PlaceInv, HandInv
<1>2. buffer' = InsertAt(buffer, cursor, msg)
  BY DEF PutBack
<1>3. buffer' \in Seq(Prims) /\ Len(buffer') = Len(buffer) + 1
  BY <1>1, <1>2, InsertAtFacts
<1> QED BY <1>1, <1>3, ConstantTypes DEF PutBack, BufferInv

\* The outcomes of a primary that was not sent: deferred or put back.
LEMMA DeferredKeeps ==
  ASSUME WorkInv, pc = "send", msg \in Prims, DeferredOutcome, attempt' = 0
  PROVE  WorkInv'
<1>1. CASE cursor = 0
  <2>1. held = NoMsg BY <1>1 DEF WorkInv, PlaceInv
  <2>2. Defer(msg) /\ msg' = NoMsg BY <1>1 DEF DeferredOutcome, Live
  <2>3. /\ BufferInv'
        /\ \/ pc' = "scan" /\ cursor' = 1 /\ held' = msg
           \/ pc' = "tick" /\ cursor' = 0 /\ held' = NoMsg
    BY <2>1, <2>2, DeferFacts DEF WorkInv
  <2>4. Len(buffer') \in Nat BY <2>3, LenProperties DEF BufferInv
  <2> QED BY <2>2, <2>3, <2>4 DEF WorkInv, PlaceInv, HandInv
<1>2. CASE cursor # 0
  <2>1. cursor > 0 /\ PutBack
    BY <1>2 DEF DeferredOutcome, Live, WorkInv, PlaceInv
  <2>2. Len(buffer) \in Nat BY LenProperties DEF WorkInv, BufferInv
  <2> QED BY <2>1, <2>2, PutBackFacts DEF WorkInv, PlaceInv, HandInv
<1> QED BY <1>1, <1>2

LEMMA FailedKeeps ==
  ASSUME WorkInv, pc = "send", FailedOutcome, attempt' = 0
  PROVE  WorkInv'
<1>0. Len(buffer) \in Nat BY LenProperties DEF WorkInv, BufferInv
<1>1. CASE cursor = 0
  BY <1>0, <1>1 DEF FailedOutcome, Live, WorkInv, BufferInv, PlaceInv, HandInv
<1>2. CASE cursor # 0
  <2>1. cursor > 0 /\ PutBack
    BY <1>2 DEF FailedOutcome, Live, WorkInv, PlaceInv
  <2> QED BY <1>0, <2>1, PutBackFacts DEF WorkInv, PlaceInv, HandInv
<1> QED BY <1>1, <1>2

LEMMA SentKeeps ==
  ASSUME WorkInv, pc = "send", Sent, attempt' = 0
  PROVE  WorkInv'
<1>1. Len(buffer) \in Nat BY LenProperties DEF WorkInv, BufferInv
<1> QED BY <1>1 DEF Sent, Live, WorkInv, BufferInv, PlaceInv, HandInv

\* A replayed message leaves the buffer, which makes the room for it to come
\* back.
LEMMA TakeKeeps == WorkInv /\ ScanTakes => WorkInv'
<1> SUFFICES ASSUME WorkInv, ScanTakes PROVE WorkInv'
  OBVIOUS
<1>1. pc = "scan" /\ cursor \in 1..Len(buffer) /\ Len(buffer) \in Nat
  BY LenProperties DEF ScanTakes, WorkInv, BufferInv, PlaceInv
<1>2. /\ buffer' = RemoveAt(buffer, cursor)
      /\ msg' = buffer[cursor] /\ pc' = "send" /\ attempt' = 0
      /\ cursor' = cursor /\ held' = held
  BY DEF ScanTakes
<1>3. buffer' \in Seq(Prims) /\ Len(buffer') = Len(buffer) - 1
  BY <1>1, <1>2, RemoveAtFacts DEF WorkInv, BufferInv
<1>4. msg' \in Prims
  BY <1>1, <1>2, ElementOfSeq DEF WorkInv, BufferInv
<1>5. msg' \in Msgs /\ NoMsg \notin Prims
  BY <1>4, ConstantTypes DEF Prims
<1>6. BufferInv'
  BY <1>1, <1>3, ConstantTypes DEF WorkInv, BufferInv
<1>7. PlaceInv'
  BY <1>1, <1>2, <1>3 DEF WorkInv, PlaceInv
<1>8. HandInv'
  <2>1. 0 < AttemptsFor(msg)'
    BY <1>2, ConstantTypes DEF AttemptsFor
  <2>2. Len(buffer') < BufferMax
    BY <1>1, <1>3, ConstantTypes DEF WorkInv, BufferInv
  <2> QED BY <1>2, <1>4, <1>5, <2>1, <2>2 DEF HandInv
<1> QED BY <1>6, <1>7, <1>8 DEF WorkInv

LEMMA WorkerKeeps == WorkInv /\ WorkerNext => WorkInv'
<1> SUFFICES ASSUME WorkInv, WorkerNext PROVE WorkInv'
  OBVIOUS
<1>0. Len(buffer) \in Nat BY LenProperties DEF WorkInv, BufferInv
<1> USE DEF WorkInv, BufferInv, PlaceInv, HandInv
<1>1. CASE BeginTick
  BY <1>0, <1>1 DEF BeginTick, StartScan, workVars
<1>2. CASE ScanSkips
  BY <1>0, <1>2 DEF ScanSkips, workVars
<1>3. CASE ScanTakes
  BY <1>3, TakeKeeps
<1>4. CASE ScanStops
  BY <1>0, <1>4 DEF ScanStops, workVars
<1>5. CASE EndTickReplay
  BY <1>0, <1>5 DEF EndTickReplay, workVars
<1>6. CASE EndFullReplay
  <2>1. held \in Prims BY <1>6 DEF EndFullReplay
  <2>2. /\ buffer' = TryPush(buffer, held).buffer
        /\ pc' = "tick" /\ cursor' = 0 /\ held' = NoMsg /\ msg' = msg
        /\ attempt' = attempt /\ pc = "scanned"
    BY <1>6 DEF EndFullReplay
  <2>3. BufferInv' BY <2>1, <2>2, PushFacts
  <2>4. Len(buffer') \in Nat BY <2>3, LenProperties
  <2> QED BY <2>2, <2>3, <2>4
<1>7. CASE ReceiveNothing
  BY <1>0, <1>7 DEF ReceiveNothing, workVars
<1>8. CASE ReceiveDropped
  BY <1>0, <1>8 DEF ReceiveDropped, Arrival, workVars
<1>9. CASE ReceiveDeferred
  <2>1. PICK m \in Msgs : Arrival(m) /\ Primary(m) /\ Defer(m)
    BY <1>9 DEF ReceiveDeferred
  <2>2. m \in Prims BY <2>1 DEF Prims
  <2>3. pc = "recv" /\ held = NoMsg BY <2>1 DEF Arrival
  <2>4. /\ BufferInv'
        /\ \/ pc' = "scan" /\ cursor' = 1 /\ held' = m
           \/ pc' = "tick" /\ cursor' = 0 /\ held' = NoMsg
    BY <2>1, <2>2, <2>3, DeferFacts
  <2>5. Len(buffer') \in Nat BY <2>4, LenProperties
  <2>6. msg' = msg /\ attempt' = attempt BY <1>9 DEF ReceiveDeferred
  <2> QED BY <2>2, <2>3, <2>4, <2>5, <2>6
<1>10. CASE ReceiveSends
  <2>1. PICK m \in Msgs : Arrival(m) /\ msg' = m
    BY <1>10 DEF ReceiveSends
  <2>2. pc = "recv" /\ held = NoMsg BY <2>1 DEF Arrival
  <2>3. pc' = "send" /\ cursor' = 0 /\ attempt' = 0 /\ held' = held
        /\ buffer' = buffer
    BY <1>10 DEF ReceiveSends
  <2>4. 0 < AttemptsFor(msg)'
    BY <2>3, ConstantTypes DEF AttemptsFor
  <2> QED BY <1>0, <2>1, <2>2, <2>3, <2>4
<1>11. CASE SendNoSink
  BY <1>11, FailedKeeps DEF SendNoSink
<1>12. CASE SendRejected
  BY <1>12, DeferredKeeps DEF SendRejected, Prims
<1>13. CASE SendOk
  BY <1>13, SentKeeps DEF SendOk, MayAttempt
<1>14. CASE SendRetries
  <2>1. pc = "send" /\ attempt' = attempt + 1 /\ attempt + 1 < AttemptsFor(msg)
    BY <1>14, AttemptsPositive DEF SendRetries, MayAttempt, LastError
  <2>2. UNCHANGED <<buffer, pc, msg, cursor, held>>
    BY <1>14 DEF SendRetries
  <2>3. AttemptsFor(msg)' = AttemptsFor(msg)
    BY <2>2 DEF AttemptsFor, ByDriver
  <2> QED BY <1>0, <2>1, <2>2, <2>3
<1>15. CASE SendDeferred
  BY <1>15, DeferredKeeps DEF SendDeferred, MayAttempt, Prims
<1>16. CASE SendFails
  BY <1>16, FailedKeeps DEF SendFails, MayAttempt
<1> QED
  BY <1>1, <1>2, <1>3, <1>4, <1>5, <1>6, <1>7, <1>8, <1>9, <1>10, <1>11, <1>12,
     <1>13, <1>14, <1>15, <1>16 DEF WorkerNext

LEMMA WorkStep == WorkInv /\ [Next]_vars => WorkInv'
<1> SUFFICES ASSUME WorkInv, [Next]_vars PROVE WorkInv'
  OBVIOUS
<1>1. CASE WorkerNext
  BY <1>1, WorkerKeeps
<1>2. (\E c \in QueueChannels : Senders(c)) => UNCHANGED workerVars
  BY DEF Senders, workerVars
<1>3. (\E m \in Msgs : Produce(m)) => UNCHANGED workerVars
  BY DEF Produce, workerVars
<1>4. CloseMode \/ OpenMode \/ GateExpires \/ Second => UNCHANGED workerVars
  BY DEF CloseMode, OpenMode, GateExpires, Second, workerVars
<1>5. UNCHANGED vars => UNCHANGED workerVars
  BY DEF vars, workerVars
<1>6. UNCHANGED workerVars => WorkInv'
  BY WorkUntouched
<1> QED BY <1>1, <1>2, <1>3, <1>4, <1>5, <1>6 DEF Next

-----------------------------------------------------------------------------
(* What the threads share.                                                 *)

HealthInv ==
  /\ failures \in [TrackedChannels -> 0..FailThreshold]
  /\ age \in [TrackedChannels -> 0..CooldownSecs]

SendersInv ==
  /\ senderQ \in [QueueChannels -> Seq(Msgs)]
  /\ slot \in [QueueChannels -> Msgs \cup {NoMsg}]
  /\ tries \in [QueueChannels -> Nat]
  /\ \A c \in QueueChannels :
       tries[c] < IF slot[c] = NoMsg THEN 1 ELSE TriesFor(slot[c])
  /\ unstamped \subseteq RecordingChannels

FateInv == delivered \in Seq(Msgs) /\ lost \subseteq Losses

EnvInv ==
  /\ unsent \subseteq Msgs
  /\ outbound \in Seq(Msgs)
  /\ gateOpen \in BOOLEAN
  /\ closed \in BOOLEAN
  /\ modeChanges \in 0..MaxModeChanges

PartsInv == HealthInv /\ SendersInv /\ FateInv /\ EnvInv

LEMMA PartsInit == Init => PartsInv
<1> SUFFICES ASSUME Init PROVE PartsInv
  OBVIOUS
<1>1. HealthInv
  BY ConstantTypes DEF Init, InitOutboundState, HealthInv
<1>2. SendersInv
  BY ConstantTypes DEF Init, InitOutboundState, InitSenders, SendersInv
<1>3. FateInv
  BY DEF Init, InitOutboundState, FateInv
<1>4. EnvInv
  <2>1. gateOpen \in BOOLEAN /\ closed \in BOOLEAN
    BY Zenon DEF Init
  <2>2. unsent \subseteq Msgs /\ outbound \in Seq(Msgs)
    BY DEF Init
  <2>3. modeChanges \in 0..MaxModeChanges
    BY ConstantTypes DEF Init
  <2> QED BY <2>1, <2>2, <2>3, Zenon DEF EnvInv
<1> QED BY <1>1, <1>2, <1>3, <1>4 DEF PartsInv

LEMMA SaturatedIn ==
  \A n, max \in Nat : /\ Saturated(n, max) \in 0..max
                      /\ n >= max => Saturated(n, max) = max
                      /\ n < max => Saturated(n, max) = n
BY DEF Saturated

\* A recorded success or failure keeps the health in its range.
LEMMA RecordKeeps ==
  ASSUME HealthInv, NEW c
  PROVE  /\ RecordOk(c) => HealthInv'
         /\ RecordFail(c) => HealthInv'
         /\ c \in TrackedChannels => /\ CountFailure(c) /\ age' = age => HealthInv'
                                     /\ StampFailure(c) /\ failures' = failures => HealthInv'
<1>1. RecordOk(c) => HealthInv'
  BY ConstantTypes DEF RecordOk, HealthInv, healthVars
<1>2. c \in TrackedChannels => Saturated(failures[c] + 1, FailThreshold) \in 0..FailThreshold
  <2>1. c \in TrackedChannels => failures[c] + 1 \in Nat
    BY ConstantTypes DEF HealthInv
  <2> QED BY <2>1, SaturatedIn, ConstantTypes
<1>3. c \in TrackedChannels /\ CountFailure(c)
        => failures' \in [TrackedChannels -> 0..FailThreshold]
  BY <1>2 DEF CountFailure, HealthInv
<1>4. StampFailure(c) => age' \in [TrackedChannels -> 0..CooldownSecs]
  <2>1. 0 \in 0..CooldownSecs BY ConstantTypes
  <2> QED BY <2>1 DEF StampFailure, HealthInv
<1> QED BY <1>1, <1>3, <1>4 DEF RecordFail, HealthInv, healthVars

LEMMA SecondKeeps == HealthInv /\ ASecond => HealthInv'
<1> SUFFICES ASSUME HealthInv, ASecond PROVE HealthInv'
  OBVIOUS
<1>1. \A c \in TrackedChannels : Saturated(age[c] + 1, CooldownSecs) \in 0..CooldownSecs
  <2>1. \A c \in TrackedChannels : age[c] + 1 \in Nat
    BY ConstantTypes DEF HealthInv
  <2> QED BY <2>1, SaturatedIn, ConstantTypes
<1> QED BY <1>1 DEF ASecond, HealthInv

\* The steps of the worker that are not an attempt leave the health alone.
LEMMA HealthStep == WorkInv /\ PartsInv /\ [Next]_vars => HealthInv'
<1> SUFFICES ASSUME WorkInv, PartsInv, [Next]_vars PROVE HealthInv'
  OBVIOUS
<1>0. HealthInv BY DEF PartsInv
<1>u. UNCHANGED healthVars => HealthInv'
  BY <1>0 DEF HealthInv, healthVars
<1>1. CASE SendOk
  BY <1>0, <1>1, <1>u, RecordKeeps DEF SendOk
<1>2. CASE SendFails
  BY <1>0, <1>2, <1>u, RecordKeeps DEF SendFails
<1>3. WorkerNext => SendOk \/ SendFails \/ UNCHANGED healthVars
  BY DEF WorkerNext, BeginTick, ScanSkips, ScanTakes, ScanStops, EndTickReplay,
         EndFullReplay, ReceiveNothing, ReceiveDropped, ReceiveDeferred,
         ReceiveSends, SendNoSink, SendRejected, SendRetries, SendDeferred
<1>4. ASSUME NEW c \in QueueChannels, SenderNext(c) PROVE HealthInv'
  <2>1. c \in TrackedChannels BY ConstantTypes
  <2>2. TakeFromQueue(c) => UNCHANGED healthVars
    BY DEF TakeFromQueue
  <2>3. AttemptDelivers(c) => RecordOk(c) \/ UNCHANGED healthVars
    BY DEF AttemptDelivers
  <2>4. ASSUME NEW error \in Errors, NEW recorded \in BOOLEAN,
               AttemptFails(c, error, recorded)
        PROVE  (CountFailure(c) /\ age' = age) \/ UNCHANGED healthVars
    BY <2>4 DEF AttemptFails, healthVars
  <2>5. FinishRecording(c) => StampFailure(c) /\ failures' = failures
    BY DEF FinishRecording
  <2> QED BY <1>0, <1>u, <1>4, <2>1, <2>2, <2>3, <2>4, <2>5, RecordKeeps DEF SenderNext
<1>5. (\E m \in Msgs : Produce(m)) \/ CloseMode \/ OpenMode \/ GateExpires
        => UNCHANGED healthVars
  BY DEF Produce, CloseMode, OpenMode, GateExpires
<1>6. CASE Second
  BY <1>0, <1>6, SecondKeeps DEF Second
<1>7. UNCHANGED vars => UNCHANGED healthVars
  BY DEF vars
<1> QED BY <1>u, <1>1, <1>2, <1>3, <1>4, <1>5, <1>6, <1>7 DEF Next, Senders

LEMMA TriesPositive == \A m : TriesFor(m) \in Nat /\ 0 < TriesFor(m)
BY ConstantTypes DEF TriesFor

\* A sender's attempts stay below its limit, over retries and passes.
LEMMA SenderKeeps ==
  ASSUME SendersInv, NEW c \in QueueChannels, SenderNext(c)
  PROVE  SendersInv'
<1> USE DEF SendersInv
<1>1. CASE TakeFromQueue(c)
  <2>1. /\ slot[c] = NoMsg /\ senderQ[c] # <<>> /\ senderQ[c] \in Seq(Msgs)
        /\ slot' = [slot EXCEPT ![c] = Head(senderQ[c])]
        /\ senderQ' = [senderQ EXCEPT ![c] = Tail(@)]
        /\ UNCHANGED <<tries, unstamped>>
    BY <1>1 DEF TakeFromQueue, Idle
  <2>2. Head(senderQ[c]) \in Msgs /\ Tail(senderQ[c]) \in Seq(Msgs)
    BY <2>1, HeadTailProperties
  <2>3. tries[c] = 0 BY <2>1
  <2>4. 0 < TriesFor(Head(senderQ[c])) BY TriesPositive
  <2>5. \A d \in QueueChannels :
          tries'[d] < IF slot'[d] = NoMsg THEN 1 ELSE TriesFor(slot'[d])
    BY <2>1, <2>2, <2>3, <2>4
  <2> QED BY <2>1, <2>2, <2>5
<1>2. CASE AttemptDelivers(c)
  BY <1>2, ConstantTypes DEF AttemptDelivers
<1>3. ASSUME NEW error \in Errors, NEW recorded \in BOOLEAN,
             AttemptFails(c, error, recorded)
      PROVE  SendersInv'
  <2>1. slot[c] # NoMsg /\ slot[c] \in Msgs /\ senderQ' = senderQ
    BY <1>3 DEF AttemptFails, GiveUp
  <2>2. unstamped' \subseteq RecordingChannels
    BY <1>3 DEF AttemptFails
  <2>3. slot' \in [QueueChannels -> Msgs \cup {NoMsg}]
    BY <1>3 DEF AttemptFails, GiveUp
  <2>4. CASE LastTry(c, error)
    <3>1. tries' = [tries EXCEPT ![c] = 0]
          /\ (slot' = slot \/ slot' = [slot EXCEPT ![c] = NoMsg])
      BY <1>3, <2>4 DEF AttemptFails, GiveUp
    <3>2. \A m : TriesFor(m) \in Nat /\ 0 < TriesFor(m) BY TriesPositive
    <3>3. \A d \in QueueChannels :
            tries'[d] < IF slot'[d] = NoMsg THEN 1 ELSE TriesFor(slot'[d])
      BY <3>1, <3>2
    <3> QED BY <2>1, <2>2, <2>3, <3>1, <3>3
  <2>5. CASE ~LastTry(c, error)
    <3>1. tries' = [tries EXCEPT ![c] = @ + 1] /\ slot' = slot
      BY <1>3, <2>5 DEF AttemptFails
    <3>2. tries[c] + 1 < TriesFor(slot[c])
      BY <2>5, TriesPositive DEF LastTry
    <3>3. \A d \in QueueChannels :
            tries'[d] < IF slot'[d] = NoMsg THEN 1 ELSE TriesFor(slot'[d])
      BY <2>1, <3>1, <3>2
    <3> QED BY <2>1, <2>2, <3>1, <3>3
  <2> QED BY <2>4, <2>5
<1>4. CASE FinishRecording(c)
  BY <1>4 DEF FinishRecording
<1> QED BY <1>1, <1>2, <1>3, <1>4 DEF SenderNext

LEMMA SendersStep == WorkInv /\ PartsInv /\ [Next]_vars => SendersInv'
<1> SUFFICES ASSUME WorkInv, PartsInv, [Next]_vars PROVE SendersInv'
  OBVIOUS
<1>0. SendersInv BY DEF PartsInv
<1>u. UNCHANGED <<senderQ, senderVars>> => SendersInv'
  BY <1>0 DEF SendersInv, senderVars
<1>1. CASE SendOk
  <2>1. msg \in Msgs BY <1>1 DEF SendOk, MayAttempt, WorkInv, HandInv
  <2>2. UNCHANGED senderVars BY <1>1 DEF SendOk
  <2>3. CASE UNCHANGED senderQ BY <1>u, <2>2, <2>3
  <2>4. CASE /\ msg.channel \in QueueChannels
             /\ senderQ' = [senderQ EXCEPT ![msg.channel] = Append(@, msg)]
    <3>1. Append(senderQ[msg.channel], msg) \in Seq(Msgs)
      BY <1>0, <2>1, <2>4, AppendProperties DEF SendersInv
    <3> QED BY <1>0, <2>2, <2>4, <3>1 DEF SendersInv, senderVars
  <2> QED BY <1>1, <2>3, <2>4 DEF SendOk
<1>2. WorkerNext => SendOk \/ UNCHANGED <<senderQ, senderVars>>
  BY DEF WorkerNext, BeginTick, ScanSkips, ScanTakes, ScanStops, EndTickReplay,
         EndFullReplay, ReceiveNothing, ReceiveDropped, ReceiveDeferred,
         ReceiveSends, SendNoSink, SendRejected, SendRetries, SendDeferred,
         SendFails
<1>3. ASSUME NEW c \in QueueChannels, Senders(c) PROVE SendersInv'
  BY <1>0, <1>3, SenderKeeps DEF Senders
<1>4. (\E m \in Msgs : Produce(m)) \/ CloseMode \/ OpenMode \/ GateExpires \/ Second
        => UNCHANGED <<senderQ, senderVars>>
  BY DEF Produce, CloseMode, OpenMode, GateExpires, Second, ASecond
<1>5. UNCHANGED vars => UNCHANGED <<senderQ, senderVars>>
  BY DEF vars
<1> QED BY <1>u, <1>1, <1>2, <1>3, <1>4, <1>5 DEF Next

\* What the outcomes of a send do to the losses and to the gate.
LEMMA OutcomeFate ==
  ASSUME WorkInv, pc = "send", FateInv
  PROVE  /\ DeferredOutcome /\ msg \in Prims
              => lost' \subseteq Losses /\ (gateOpen' \in BOOLEAN \/ gateOpen' = gateOpen)
         /\ FailedOutcome => lost' \subseteq Losses /\ gateOpen' = gateOpen
<1>1. msg \in Msgs /\ lost \subseteq Losses
  BY DEF WorkInv, HandInv, FateInv
<1>2. ASSUME DeferredOutcome, msg \in Prims
      PROVE  lost' \subseteq Losses /\ (gateOpen' \in BOOLEAN \/ gateOpen' = gateOpen)
  <2>1. CASE cursor = 0
    BY <1>1, <1>2, <2>1, DeferFacts DEF DeferredOutcome, Live, WorkInv, PlaceInv
  <2>2. CASE cursor # 0
    <3>1. lost' = lost /\ gateOpen' = gateOpen
      BY <1>2, <2>2 DEF DeferredOutcome, Live, PutBack
    <3> QED BY <1>1, <3>1
  <2> QED BY <2>1, <2>2
<1>3. ASSUME FailedOutcome PROVE lost' \subseteq Losses /\ gateOpen' = gateOpen
  <2>1. [msg |-> msg, why |-> "failed"] \in Losses BY <1>1 DEF Losses
  <2> QED BY <1>1, <1>3, <2>1 DEF FailedOutcome, PutBack
<1> QED BY <1>2, <1>3

LEMMA FateStep == WorkInv /\ PartsInv /\ [Next]_vars => FateInv'
<1> SUFFICES ASSUME WorkInv, PartsInv, [Next]_vars PROVE FateInv'
  OBVIOUS
<1>0. delivered \in Seq(Msgs) /\ lost \subseteq Losses /\ FateInv
  BY DEF PartsInv, FateInv
<1>u. UNCHANGED <<delivered, lost>> => FateInv'
  BY <1>0 DEF FateInv
<1>1. CASE ReceiveDropped
  <2>1. PICK m \in Msgs : lost' = lost \cup {[msg |-> m, why |-> "unwanted"]}
    BY <1>1 DEF ReceiveDropped
  <2>2. [msg |-> m, why |-> "unwanted"] \in Losses BY DEF Losses
  <2>3. delivered' = delivered BY <1>1 DEF ReceiveDropped
  <2> QED BY <1>0, <2>1, <2>2, <2>3 DEF FateInv
<1>2. CASE ReceiveDeferred
  <2>1. PICK m \in Msgs : Arrival(m) /\ Primary(m) /\ Defer(m)
    BY <1>2 DEF ReceiveDeferred
  <2>2. m \in Prims /\ held = NoMsg /\ BufferInv
    BY <2>1 DEF Prims, Arrival, WorkInv, PlaceInv
  <2>3. lost' \subseteq Losses BY <1>0, <2>1, <2>2, DeferFacts
  <2>4. delivered' = delivered BY <1>2 DEF ReceiveDeferred
  <2> QED BY <1>0, <2>3, <2>4 DEF FateInv
<1>3. CASE EndFullReplay
  <2>1. held \in Prims /\ BufferInv
    BY <1>3 DEF EndFullReplay, WorkInv, PlaceInv
  <2>2. TryPush(buffer, held).out \subseteq Msgs
    BY <2>1, PushFacts DEF BufferInv, Prims
  <2>3. lost' = lost \cup {[msg |-> m, why |-> IF m = held THEN "full" ELSE "replaced"] :
                             m \in TryPush(buffer, held).out}
    BY <1>3 DEF EndFullReplay
  <2>4. \A m \in Msgs :
          [msg |-> m, why |-> IF m = held THEN "full" ELSE "replaced"] \in Losses
    BY DEF Losses
  <2>5. lost' \subseteq Losses BY <1>0, <2>2, <2>3, <2>4
  <2>6. delivered' = delivered BY <1>3 DEF EndFullReplay
  <2> QED BY <1>0, <2>5, <2>6 DEF FateInv
<1>4. CASE SendRejected \/ SendDeferred
  <2>1. pc = "send" /\ msg \in Prims /\ DeferredOutcome /\ delivered' = delivered
    BY <1>4 DEF SendRejected, SendDeferred, MayAttempt, Prims, WorkInv, HandInv
  <2> QED BY <1>0, <2>1, OutcomeFate DEF FateInv
<1>5. CASE SendNoSink \/ SendFails
  <2>1. pc = "send" /\ FailedOutcome /\ delivered' = delivered
    BY <1>5 DEF SendNoSink, SendFails, MayAttempt
  <2> QED BY <1>0, <2>1, OutcomeFate DEF FateInv
<1>6. CASE SendOk
  <2>1. msg \in Msgs /\ lost' = lost
    BY <1>6 DEF SendOk, MayAttempt, WorkInv, HandInv
  <2>2. Append(delivered, msg) \in Seq(Msgs) BY <1>0, <2>1, AppendProperties
  <2> QED BY <1>0, <1>6, <2>1, <2>2 DEF SendOk, FateInv
<1>7. WorkerNext => \/ ReceiveDropped \/ ReceiveDeferred \/ EndFullReplay
                    \/ SendRejected \/ SendDeferred \/ SendNoSink \/ SendFails \/ SendOk
                    \/ UNCHANGED <<delivered, lost>>
  BY DEF WorkerNext, BeginTick, ScanSkips, ScanTakes, ScanStops, EndTickReplay,
         ReceiveNothing, ReceiveSends, SendRetries
<1>8. ASSUME NEW c \in QueueChannels, SenderNext(c) PROVE FateInv'
  <2>0. slot[c] \in Msgs \cup {NoMsg} BY DEF PartsInv, SendersInv
  <2>1. TakeFromQueue(c) \/ FinishRecording(c) => UNCHANGED <<delivered, lost>>
    BY DEF TakeFromQueue, FinishRecording
  <2>2. CASE AttemptDelivers(c)
    <3>1. slot[c] \in Msgs /\ delivered' = Append(delivered, slot[c]) /\ lost' = lost
      BY <2>0, <2>2 DEF AttemptDelivers
    <3>2. Append(delivered, slot[c]) \in Seq(Msgs) BY <1>0, <3>1, AppendProperties
    <3> QED BY <1>0, <3>1, <3>2 DEF FateInv
  <2>3. ASSUME NEW error \in Errors, NEW recorded \in BOOLEAN,
               AttemptFails(c, error, recorded)
        PROVE  FateInv'
    <3>1. slot[c] \in Msgs /\ delivered' = delivered
      BY <2>0, <2>3 DEF AttemptFails
    <3>2. [msg |-> slot[c], why |-> "sender"] \in Losses BY <3>1 DEF Losses
    <3>3. lost' = lost \/ lost' = lost \cup {[msg |-> slot[c], why |-> "sender"]}
      BY <2>3 DEF AttemptFails, GiveUp
    <3> QED BY <1>0, <3>1, <3>2, <3>3 DEF FateInv
  <2> QED BY <1>u, <1>8, <2>1, <2>2, <2>3 DEF SenderNext
<1>9. (\E m \in Msgs : Produce(m)) \/ CloseMode \/ OpenMode \/ GateExpires \/ Second
        => UNCHANGED <<delivered, lost>>
  BY DEF Produce, CloseMode, OpenMode, GateExpires, Second, ASecond
<1>10. UNCHANGED vars => UNCHANGED <<delivered, lost>>
  BY DEF vars
<1> QED
  BY <1>u, <1>1, <1>2, <1>3, <1>4, <1>5, <1>6, <1>7, <1>8, <1>9, <1>10
  DEF Next, Senders

LEMMA EnvStep == WorkInv /\ PartsInv /\ [Next]_vars => EnvInv'
<1> SUFFICES ASSUME WorkInv, PartsInv, [Next]_vars PROVE EnvInv'
  OBVIOUS
<1>0. unsent \subseteq Msgs /\ outbound \in Seq(Msgs) /\ modeChanges \in 0..MaxModeChanges
      /\ gateOpen \in BOOLEAN /\ closed \in BOOLEAN
  BY DEF PartsInv, EnvInv
<1>1. unsent' \subseteq Msgs /\ outbound' \in Seq(Msgs)
  <2>1. \A m : Arrival(m) => outbound' \in Seq(Msgs) /\ unsent' = unsent
    BY <1>0, HeadTailProperties DEF Arrival
  <2>2. \A m \in Msgs : Produce(m) => outbound' \in Seq(Msgs) /\ unsent' \subseteq Msgs
    BY <1>0, AppendProperties DEF Produce
  <2>3. WorkerNext => UNCHANGED envVars \/ \E m : Arrival(m)
    BY DEF WorkerNext, BeginTick, ScanSkips, ScanTakes, ScanStops, EndTickReplay,
           EndFullReplay, ReceiveNothing, ReceiveDropped, ReceiveDeferred,
           ReceiveSends, SendNoSink, SendRejected, SendOk, SendRetries,
           SendDeferred, SendFails
  <2>4. CloseMode \/ OpenMode \/ GateExpires \/ Second \/ UNCHANGED vars
          \/ (\E c \in QueueChannels : Senders(c)) => UNCHANGED envVars
    BY DEF CloseMode, OpenMode, GateExpires, Second, vars, Senders
  <2>5. UNCHANGED envVars => outbound' = outbound /\ unsent' = unsent
    BY DEF envVars
  <2> QED BY <1>0, <2>1, <2>2, <2>3, <2>4, <2>5 DEF Next
<1>2. UNCHANGED modeVars \/ CloseMode \/ OpenMode
  BY DEF Next, WorkerNext, BeginTick, ScanSkips, ScanTakes, ScanStops, EndTickReplay,
         EndFullReplay, ReceiveNothing, ReceiveDropped, ReceiveDeferred,
         ReceiveSends, SendNoSink, SendRejected, SendOk, SendRetries,
         SendDeferred, SendFails, Senders, Produce, GateExpires, Second, vars
<1>3. modeChanges' \in 0..MaxModeChanges
  BY <1>0, <1>2, ConstantTypes DEF CloseMode, OpenMode, modeVars
<1>4. closed' \in BOOLEAN
  BY <1>0, <1>2, Zenon DEF CloseMode, OpenMode, modeVars
<1>5. gateOpen' \in BOOLEAN
  <2>1. CASE ReceiveDeferred
    <3>1. PICK m \in Msgs : Defer(m) BY <2>1 DEF ReceiveDeferred
    <3> QED BY <3>1 DEF Defer
  <2>2. CASE SendRejected \/ SendDeferred
    <3>1. pc = "send" /\ msg \in Prims /\ DeferredOutcome
      BY <2>2 DEF SendRejected, SendDeferred, MayAttempt, Prims, WorkInv, HandInv
    <3>2. gateOpen' \in BOOLEAN \/ gateOpen' = gateOpen
      BY <3>1, OutcomeFate DEF PartsInv
    <3> QED BY <1>0, <3>2, Zenon
  <2>3. CASE SendNoSink \/ SendFails
    <3>1. pc = "send" /\ FailedOutcome
      BY <2>3 DEF SendNoSink, SendFails, MayAttempt
    <3>2. gateOpen' = gateOpen BY <3>1, OutcomeFate DEF PartsInv
    <3> QED BY <1>0, <3>2, Zenon
  <2>4. CASE EndTickReplay
    BY <2>4 DEF EndTickReplay
  <2>5. CASE GateExpires
    BY <2>5, Zenon DEF GateExpires
  <2>6. \/ ReceiveDeferred \/ SendRejected \/ SendDeferred \/ SendNoSink \/ SendFails
        \/ EndTickReplay \/ GateExpires \/ UNCHANGED gateOpen
    BY DEF Next, WorkerNext, BeginTick, ScanSkips, ScanTakes, ScanStops,
           EndFullReplay, ReceiveNothing, ReceiveDropped, ReceiveSends, SendOk, Sent,
           SendRetries, Senders, Produce, CloseMode, OpenMode, Second, vars
  <2> QED BY <1>0, <2>1, <2>2, <2>3, <2>4, <2>5, <2>6, Zenon
<1> QED BY <1>1, <1>3, <1>4, <1>5, Zenon DEF EnvInv

LEMMA PartsStep == WorkInv /\ PartsInv /\ [Next]_vars => PartsInv'
BY HealthStep, SendersStep, FateStep, EnvStep DEF PartsInv

-----------------------------------------------------------------------------
(* The theorems.                                                           *)

LEMMA InvCorrect == Spec => [](WorkInv /\ PartsInv)
<1>1. Init => WorkInv /\ PartsInv
  BY WorkInit, PartsInit
<1>2. WorkInv /\ PartsInv /\ [Next]_vars => (WorkInv /\ PartsInv)'
  BY WorkStep, PartsStep
<1> QED BY <1>1, <1>2, PTL DEF Spec

LEMMA InvType == WorkInv /\ PartsInv => TypeOK
<1> SUFFICES ASSUME WorkInv, PartsInv PROVE TypeOK
  OBVIOUS
<1>1. Prims \subseteq Msgs /\ Len(buffer) \in Nat
  BY LenProperties DEF Prims, WorkInv, BufferInv
<1>2. buffer \in Seq(Msgs)
  BY <1>1 DEF WorkInv, BufferInv
<1>3. /\ (pc = "send") <=> (msg \in Msgs)
      /\ pc # "send" => msg = NoMsg
      /\ cursor \in 0..BufferMax + 1
      /\ held \in Msgs \cup {NoMsg}
      /\ pc \in {"tick", "scan", "scanned", "recv", "send"}
  BY <1>1, ConstantTypes DEF WorkInv, BufferInv, PlaceInv, HandInv
<1>4. attempt \in 0..(IF pc = "send" THEN AttemptsFor(msg) - 1 ELSE 0)
  BY AttemptsPositive DEF WorkInv, HandInv
<1>5. /\ failures \in [TrackedChannels -> 0..FailThreshold]
      /\ age \in [TrackedChannels -> 0..CooldownSecs]
      /\ slot \in [QueueChannels -> Msgs \cup {NoMsg}]
      /\ \A c \in QueueChannels : tries[c] < IF slot[c] = NoMsg THEN 1 ELSE TriesFor(slot[c])
      /\ senderQ \in [QueueChannels -> Seq(Msgs)]
      /\ unstamped \subseteq RecordingChannels
  BY DEF PartsInv, HealthInv, SendersInv
<1>6. /\ delivered \in Seq(Msgs)
      /\ lost \subseteq [msg : Msgs, why : {"full", "replaced", "failed", "unwanted", "sender"}]
      /\ unsent \subseteq Msgs
      /\ outbound \in Seq(Msgs)
      /\ modeChanges \in 0..MaxModeChanges
  BY DEF PartsInv, FateInv, Losses, EnvInv
<1>7. gateOpen \in BOOLEAN /\ closed \in BOOLEAN
  BY DEF PartsInv, EnvInv
<1> QED BY <1>2, <1>3, <1>4, <1>5, <1>6, <1>7, Zenon DEF TypeOK

\* The states of the worker and of the sender threads are the ones their
\* loops pass through (run_dispatch, run_os_outbound_worker and
\* run_buffered_sender_loop), for any channels and any limits.
THEOREM TypeCorrect == Spec => []TypeOK
BY InvCorrect, InvType, PTL

LEMMA DeferredFacts ==
  WorkInv => Deferred \in Seq(Prims) /\ Len(Deferred) <= BufferMax
<1> SUFFICES ASSUME WorkInv
             PROVE  Deferred \in Seq(Prims) /\ Len(Deferred) <= BufferMax
  OBVIOUS
<1>1. CASE pc = "send" /\ cursor > 0
  <2>1. /\ buffer \in Seq(Prims) /\ msg \in Prims /\ Len(buffer) < BufferMax
        /\ cursor \in 1..Len(buffer) + 1 /\ Len(buffer) \in Nat
    BY <1>1, LenProperties DEF WorkInv, BufferInv, PlaceInv, HandInv
  <2>2. Deferred = InsertAt(buffer, cursor, msg) BY <1>1 DEF Deferred
  <2> QED BY <2>1, <2>2, InsertAtFacts, ConstantTypes
<1>2. CASE ~(pc = "send" /\ cursor > 0)
  BY <1>2 DEF Deferred, WorkInv, BufferInv
<1> QED BY <1>1, <1>2

\* The deferred messages, the one being replayed included, never exceed
\* COOLDOWN_BUFFER_MAX: a replay that fails finds room for its message,
\* although the worker defers others between replays.
THEOREM LimitCorrect == Spec => []DeferredWithinLimit
<1>1. WorkInv => DeferredWithinLimit
  BY DeferredFacts DEF DeferredWithinLimit
<1> QED BY <1>1, InvCorrect, PTL

LEMMA Primaries == WorkInv => OnlyPrimariesWait
BY DeferredFacts, ElementOfSeq, LenProperties DEF OnlyPrimariesWait, Prims

\* No path defers a supplemental, so try_push_buffered_msg never meets one in
\* the buffer to evict.
THEOREM PrimariesCorrect == Spec => []OnlyPrimariesWait
BY Primaries, InvCorrect, PTL

\* While the breaker of a channel is open the worker does not try it, for any
\* threshold, cooldown and number of attempts: the failures of the channels
\* that it sends to itself are recorded by nobody else between its look at
\* the health and its last attempt.
THEOREM BreakerRespected == Spec => []NoAttemptInCooldown
<1>1. Init => NoAttemptInCooldown
  BY DEF Init, NoAttemptInCooldown
<1>2. WorkInv /\ PartsInv /\ NoAttemptInCooldown /\ [Next]_vars => NoAttemptInCooldown'
  <2> SUFFICES ASSUME WorkInv, PartsInv, NoAttemptInCooldown, [Next]_vars,
                      pc' = "send", msg'.channel \notin QueueChannels
               PROVE  Healthy(msg.channel)'
    BY DEF NoAttemptInCooldown
  <2>1. CASE ScanTakes
    BY <2>1 DEF ScanTakes, Healthy, healthVars
  <2>2. CASE ReceiveSends
    BY <2>2 DEF ReceiveSends, Healthy, healthVars
  <2>3. CASE pc = "send" /\ UNCHANGED <<msg, healthVars>>
    BY <2>3 DEF NoAttemptInCooldown, Healthy, healthVars
  <2>4. WorkerNext => \/ ScanTakes \/ ReceiveSends
                      \/ pc = "send" /\ UNCHANGED <<msg, healthVars>>
    <3>1. BeginTick \/ ScanSkips \/ ScanStops \/ EndTickReplay \/ EndFullReplay
            \/ ReceiveNothing \/ ReceiveDropped => pc' # "send"
      BY DEF BeginTick, ScanSkips, ScanStops, EndTickReplay, EndFullReplay,
             ReceiveNothing, ReceiveDropped, StartScan
    <3>2. \A m : Defer(m) => pc' # "send"
      BY DEF Defer, StartScan
    <3>3. (DeferredOutcome => pc' # "send") /\ (FailedOutcome => pc' # "send")
            /\ (Sent => pc' # "send")
      BY <3>2 DEF DeferredOutcome, FailedOutcome, PutBack, Sent
    <3>4. SendRetries => pc = "send" /\ UNCHANGED <<msg, healthVars>>
      BY DEF SendRetries, MayAttempt
    <3> QED BY <3>1, <3>2, <3>3, <3>4
            DEF WorkerNext, ReceiveDeferred, SendNoSink, SendRejected, SendOk,
                SendDeferred, SendFails
  <2>5. ASSUME NEW c \in QueueChannels, Senders(c) PROVE Healthy(msg.channel)'
    <3>1. pc = "send" /\ msg' = msg /\ msg.channel # c /\ Healthy(msg.channel)
      BY <2>5 DEF Senders, workVars, NoAttemptInCooldown
    <3>2. /\ failures \in [TrackedChannels -> 0..FailThreshold]
          /\ age \in [TrackedChannels -> 0..CooldownSecs]
      BY DEF PartsInv, HealthInv
    <3>3. \A d \in TrackedChannels : d # c => failures'[d] = failures[d] /\ age'[d] = age[d]
      BY <2>5, <3>2 DEF Senders, SenderNext, TakeFromQueue, AttemptDelivers,
         AttemptFails, FinishRecording, RecordOk, CountFailure, StampFailure, healthVars
    <3> QED BY <3>1, <3>3 DEF Healthy
  <2>6. CASE Second
    <3>1. pc = "send" /\ msg' = msg /\ Healthy(msg.channel) /\ failures' = failures
      BY <2>6 DEF Second, ASecond, workVars, NoAttemptInCooldown
    <3>2. \A d \in TrackedChannels : age[d] >= CooldownSecs => age'[d] >= CooldownSecs
      <4>1. \A d \in TrackedChannels : age[d] \in Nat
        BY ConstantTypes DEF PartsInv, HealthInv
      <4>2. \A d \in TrackedChannels : age'[d] = Saturated(age[d] + 1, CooldownSecs)
        BY <2>6 DEF Second, ASecond
      <4>3. \A n \in Nat : n >= CooldownSecs => Saturated(n + 1, CooldownSecs) >= CooldownSecs
        BY ConstantTypes DEF Saturated
      <4> QED BY <4>1, <4>2, <4>3
    <3> QED BY <3>1, <3>2 DEF Healthy
  <2>7. (\E m \in Msgs : Produce(m)) \/ CloseMode \/ OpenMode \/ GateExpires
          \/ UNCHANGED vars => pc = "send" /\ UNCHANGED <<msg, healthVars>>
    BY DEF Produce, CloseMode, OpenMode, GateExpires, vars, workVars
  <2> QED BY <2>1, <2>2, <2>3, <2>4, <2>5, <2>6, <2>7 DEF Next
<1> QED BY <1>1, <1>2, InvCorrect, PTL DEF Spec

-----------------------------------------------------------------------------
(* Why a primary is lost.  The worker tells a refused message from a       *)
(* replaced one by what try_push_buffered_msg gives back, which is only    *)
(* right while no message is in two of the places that lead to the buffer: *)
(* FlowInv.                                                                *)

LEMMA RemoveAtElements ==
  ASSUME NEW S, NEW s \in Seq(S), NEW i \in 1..Len(s), NEW k \in 1..Len(s) - 1
  PROVE  RemoveAt(s, i)[k] = IF k < i THEN s[k] ELSE s[k + 1]
<1> DEFINE a == SubSeq(s, 1, i - 1)
           b == SubSeq(s, i + 1, Len(s))
<1>1. i \in Nat /\ k \in Nat /\ Len(s) \in Nat /\ i <= Len(s) /\ 1 <= i /\ 1 <= k
      /\ k <= Len(s) - 1
  BY LenProperties
<1>2. a \in Seq(S) /\ Len(a) = i - 1 /\ \A j \in 1..i - 1 : a[j] = s[j]
  BY <1>1, SubSeqProperties
<1>3. b \in Seq(S) /\ Len(b) = Len(s) - i /\ \A j \in 1..Len(s) - i : b[j] = s[i + j]
  BY <1>1, SubSeqProperties
<1>4. RemoveAt(s, i) = a \o b
  BY DEF RemoveAt
<1>5. (a \o b)[k] = IF k <= i - 1 THEN a[k] ELSE b[k - (i - 1)]
  <2> HIDE DEF a, b
  <2>1. \A j \in 1..Len(a) + Len(b) : (a \o b)[j] = IF j <= Len(a) THEN a[j] ELSE b[j - Len(a)]
    BY <1>2, <1>3, ConcatProperties
  <2>2. k \in 1..Len(a) + Len(b) BY <1>1, <1>2, <1>3
  <2> QED BY <1>2, <2>1, <2>2
<1>6. CASE k < i
  <2> HIDE DEF a, b
  <2> QED BY <1>1, <1>2, <1>4, <1>5, <1>6
<1>7. CASE ~(k < i)
  <2> HIDE DEF a, b
  <2>1. k - (i - 1) \in 1..Len(s) - i /\ i + (k - (i - 1)) = k + 1
    BY <1>1, <1>7
  <2>2. b[k - (i - 1)] = s[k + 1] BY <1>3, <2>1
  <2>3. ~(k <= i - 1) BY <1>1, <1>7
  <2> QED BY <1>4, <1>5, <1>7, <2>2, <2>3
<1> QED BY <1>6, <1>7

LEMMA InsertAtElements ==
  ASSUME NEW S, NEW s \in Seq(S), NEW e \in S, NEW i \in 1..Len(s) + 1,
         NEW k \in 1..Len(s) + 1
  PROVE  InsertAt(s, i, e)[k] =
           IF k < i THEN s[k] ELSE IF k = i THEN e ELSE s[k - 1]
<1> DEFINE a == SubSeq(s, 1, i - 1)
           b == SubSeq(s, i, Len(s))
           ae == a \o <<e>>
<1>1. i \in Nat /\ k \in Nat /\ Len(s) \in Nat /\ i <= Len(s) + 1 /\ 1 <= i /\ 1 <= k
      /\ k <= Len(s) + 1
  BY LenProperties
<1>2. a \in Seq(S) /\ Len(a) = i - 1 /\ \A j \in 1..i - 1 : a[j] = s[j]
  BY <1>1, SubSeqProperties
<1>3. b \in Seq(S) /\ Len(b) = Len(s) + 1 - i
      /\ \A j \in 1..Len(s) + 1 - i : b[j] = s[i + j - 1]
  BY <1>1, SubSeqProperties
<1>4. <<e>> \in Seq(S) /\ Len(<<e>>) = 1 /\ <<e>>[1] = e
  OBVIOUS
<1>5. ae \in Seq(S) /\ Len(ae) = i /\ \A j \in 1..i : ae[j] = IF j < i THEN s[j] ELSE e
  <2> HIDE DEF a
  <2>1. /\ ae \in Seq(S) /\ Len(ae) = Len(a) + 1
        /\ \A j \in 1..Len(a) + 1 : ae[j] = IF j <= Len(a) THEN a[j] ELSE <<e>>[j - Len(a)]
    BY <1>2, <1>4, ConcatProperties
  <2>2. \A j \in 1..i : j <= i - 1 => ae[j] = s[j]
    BY <1>1, <1>2, <2>1
  <2>3. ae[i] = e
    <3>1. i \in 1..Len(a) + 1 /\ ~(i <= Len(a)) /\ i - Len(a) = 1 BY <1>1, <1>2
    <3> HIDE DEF ae
    <3> QED BY <1>4, <2>1, <3>1
  <2> HIDE DEF ae
  <2> QED BY <1>1, <1>2, <2>1, <2>2, <2>3
<1>6. InsertAt(s, i, e) = ae \o b
  BY DEF InsertAt
<1> HIDE DEF a, b, ae
<1>7. (ae \o b)[k] = IF k <= i THEN ae[k] ELSE b[k - i]
  <2>1. \A j \in 1..Len(ae) + Len(b) :
          (ae \o b)[j] = IF j <= Len(ae) THEN ae[j] ELSE b[j - Len(ae)]
    BY <1>3, <1>5, ConcatProperties
  <2>2. k \in 1..Len(ae) + Len(b) BY <1>1, <1>3, <1>5
  <2> QED BY <1>5, <2>1, <2>2
<1>8. CASE k <= i
  BY <1>1, <1>5, <1>6, <1>7, <1>8
<1>9. CASE ~(k <= i)
  <2>1. k - i \in 1..Len(s) + 1 - i /\ i + (k - i) - 1 = k - 1 BY <1>1, <1>9
  <2>2. b[k - i] = s[k - 1] BY <1>3, <2>1
  <2> QED BY <1>1, <1>6, <1>7, <1>9, <2>2
<1> QED BY <1>8, <1>9

\* A sequence without repetitions keeps that when an element leaves it ...
LEMMA RemoveAtDistinct ==
  ASSUME NEW S, NEW s \in Seq(S), IsInjective(s), NEW i \in 1..Len(s)
  PROVE  /\ IsInjective(RemoveAt(s, i))
         /\ Range(RemoveAt(s, i)) = Range(s) \ {s[i]}
<1> DEFINE t == RemoveAt(s, i)
<1>1. DOMAIN s = 1..Len(s) /\ Len(s) \in Nat /\ i \in Nat /\ 1 <= i /\ i <= Len(s)
  BY LenProperties
<1>2. t \in Seq(S) /\ Len(t) = Len(s) - 1
  BY RemoveAtFacts
<1>3. DOMAIN t = 1..Len(s) - 1
  BY <1>2, LenProperties
<1>4. \A k \in 1..Len(s) - 1 : t[k] = IF k < i THEN s[k] ELSE s[k + 1]
  BY RemoveAtElements
<1>5. \A a, b \in 1..Len(s) : s[a] = s[b] => a = b
  BY <1>1 DEF IsInjective
<1> HIDE DEF t
<1>6. IsInjective(t)
  BY <1>1, <1>3, <1>4, <1>5 DEF IsInjective
<1>7. ASSUME NEW k \in 1..Len(s) - 1
      PROVE  \E j \in 1..Len(s) : j # i /\ t[k] = s[j]
  BY <1>1, <1>4, <1>7
<1>8. \A x \in Range(t) : x \in Range(s) /\ x # s[i]
  BY <1>1, <1>3, <1>5, <1>7 DEF Range
<1>9. ASSUME NEW j \in 1..Len(s), j # i
      PROVE  \E k \in 1..Len(s) - 1 : t[k] = s[j]
  <2>1. CASE j < i BY <1>1, <1>4, <2>1
  <2>2. CASE j > i
    <3>1. j - 1 \in 1..Len(s) - 1 /\ ~(j - 1 < i) /\ (j - 1) + 1 = j BY <1>1, <2>2
    <3> QED BY <1>4, <3>1
  <2> QED BY <1>1, <1>9, <2>1, <2>2
<1>10. \A x \in Range(s) \ {s[i]} : x \in Range(t)
  BY <1>1, <1>3, <1>9 DEF Range
<1> QED BY <1>6, <1>8, <1>10 DEF t

\* ... or a new one comes in.
LEMMA InsertAtDistinct ==
  ASSUME NEW S, NEW s \in Seq(S), IsInjective(s), NEW i \in 1..Len(s) + 1,
         NEW e \in S \ Range(s)
  PROVE  /\ IsInjective(InsertAt(s, i, e))
         /\ Range(InsertAt(s, i, e)) = Range(s) \cup {e}
<1> DEFINE t == InsertAt(s, i, e)
<1>1. DOMAIN s = 1..Len(s) /\ Len(s) \in Nat /\ i \in Nat /\ 1 <= i /\ i <= Len(s) + 1
  BY LenProperties
<1>2. t \in Seq(S) /\ Len(t) = Len(s) + 1
  BY InsertAtFacts
<1>3. DOMAIN t = 1..Len(s) + 1
  BY <1>2, LenProperties
<1>4. \A k \in 1..Len(s) + 1 :
        t[k] = IF k < i THEN s[k] ELSE IF k = i THEN e ELSE s[k - 1]
  BY InsertAtElements
<1>5. \A a, b \in 1..Len(s) : s[a] = s[b] => a = b
  BY <1>1 DEF IsInjective
<1>6. \A a \in 1..Len(s) : s[a] # e /\ s[a] \in Range(s)
  BY <1>1 DEF Range
<1> HIDE DEF t
<1>7. IsInjective(t)
  BY <1>1, <1>3, <1>4, <1>5, <1>6 DEF IsInjective
<1>8. \A k \in 1..Len(s) + 1 : t[k] \in Range(s) \cup {e}
  BY <1>1, <1>4, <1>6
<1>9. Range(t) \subseteq Range(s) \cup {e}
  BY <1>3, <1>8 DEF Range
<1>10. ASSUME NEW j \in 1..Len(s) PROVE \E k \in 1..Len(s) + 1 : t[k] = s[j]
  <2>1. CASE j < i BY <1>1, <1>4, <2>1
  <2>2. CASE ~(j < i)
    <3>1. j + 1 \in 1..Len(s) + 1 /\ ~(j + 1 < i) /\ j + 1 # i /\ (j + 1) - 1 = j BY <1>1, <2>2
    <3> QED BY <1>4, <3>1
  <2> QED BY <2>1, <2>2
<1>11. t[i] = e /\ i \in 1..Len(s) + 1 BY <1>1, <1>4
<1>12. Range(s) \cup {e} \subseteq Range(t)
  BY <1>1, <1>3, <1>10, <1>11 DEF Range
<1> QED BY <1>7, <1>9, <1>12 DEF t

LEMMA AppendDistinct ==
  ASSUME NEW S, NEW s \in Seq(S), IsInjective(s), NEW e \in S \ Range(s)
  PROVE  /\ IsInjective(Append(s, e))
         /\ Range(Append(s, e)) = Range(s) \cup {e}
<1> DEFINE t == Append(s, e)
<1>1. DOMAIN s = 1..Len(s) /\ Len(s) \in Nat
  BY LenProperties
<1>2. /\ t \in Seq(S) /\ Len(t) = Len(s) + 1
      /\ \A i \in 1..Len(s) : t[i] = s[i]
      /\ t[Len(s) + 1] = e
  BY AppendProperties
<1>3. DOMAIN t = 1..Len(s) + 1
  BY <1>2, LenProperties
<1>4. \A a \in 1..Len(s) : s[a] # e /\ s[a] \in Range(s)
  BY <1>1 DEF Range
<1> HIDE DEF t
<1>5. \A k \in 1..Len(s) + 1 : (k \in 1..Len(s) /\ t[k] = s[k]) \/ (k = Len(s) + 1 /\ t[k] = e)
  BY <1>1, <1>2
<1>6. IsInjective(t)
  BY <1>1, <1>3, <1>4, <1>5 DEF IsInjective
<1>7. Range(t) \subseteq Range(s) \cup {e}
  BY <1>3, <1>4, <1>5 DEF Range
<1>8. /\ \A k \in 1..Len(s) : k \in 1..Len(s) + 1 /\ t[k] = s[k]
      /\ Len(s) + 1 \in 1..Len(s) + 1 /\ t[Len(s) + 1] = e
  BY <1>1, <1>2
<1>9. Range(s) \cup {e} \subseteq Range(t)
  BY <1>1, <1>3, <1>8 DEF Range
<1> QED BY <1>6, <1>7, <1>9 DEF t

LEMMA TailDistinct ==
  ASSUME NEW S, NEW s \in Seq(S), IsInjective(s), s # <<>>
  PROVE  /\ IsInjective(Tail(s))
         /\ Range(Tail(s)) = Range(s) \ {Head(s)}
         /\ Head(s) \in Range(s)
<1> DEFINE t == Tail(s)
<1>1. DOMAIN s = 1..Len(s) /\ Len(s) \in Nat /\ Len(s) > 0
  BY LenProperties, EmptySeq
<1>2. t \in Seq(S) /\ Len(t) = Len(s) - 1 /\ \A k \in 1..Len(t) : t[k] = s[k + 1]
  BY HeadTailProperties
<1>3. DOMAIN t = 1..Len(s) - 1
  BY <1>2, LenProperties
<1>4. Head(s) = s[1]
  OBVIOUS
<1> HIDE DEF t
<1>5. IsInjective(t)
  BY <1>1, <1>2, <1>3 DEF IsInjective
<1>6. \A k \in 1..Len(s) - 1 : t[k] = s[k + 1] /\ k + 1 \in DOMAIN s /\ k + 1 # 1 /\ 1 \in DOMAIN s
  BY <1>1, <1>2
<1>7. \A x \in Range(t) : x \in Range(s) /\ x # s[1]
  BY <1>3, <1>6 DEF Range, IsInjective
<1>8. s[1] \in Range(s)
  BY <1>1 DEF Range
<1>9. ASSUME NEW j \in 1..Len(s), s[j] # s[1] PROVE \E k \in 1..Len(s) - 1 : t[k] = s[j]
  <2>1. j - 1 \in 1..Len(s) - 1 /\ (j - 1) + 1 = j BY <1>1, <1>9
  <2> QED BY <1>6, <2>1
<1>10. \A x \in Range(s) \ {s[1]} : x \in Range(t)
  BY <1>1, <1>3, <1>9 DEF Range
<1> QED BY <1>4, <1>5, <1>7, <1>8, <1>10 DEF t

\* A push brings in one message, duplicates none, and gives back the ones that
\* are not in the buffer any more.
LEMMA PushDistinct ==
  ASSUME NEW s \in Seq(Prims), Len(s) <= BufferMax, IsInjective(s),
         NEW m \in Prims \ Range(s)
  PROVE  /\ IsInjective(TryPush(s, m).buffer)
         /\ Range(TryPush(s, m).buffer) = (Range(s) \cup {m}) \ TryPush(s, m).out
         /\ TryPush(s, m).out \subseteq Range(s) \cup {m}
<1> DEFINE same == SameReply(s, m)
           weak == {i \in DOMAIN s : Supplemental(s[i])}
<1>1. Len(s) \in Nat /\ BufferMax \in Nat /\ DOMAIN s = 1..Len(s)
      /\ \A i \in DOMAIN s : s[i] \in Prims
  BY LenProperties, ElementOfSeq, ConstantTypes
<1>2. weak = {} BY <1>1 DEF Prims, Primary, Supplemental
<1>3. CASE same # {}
  <2>1. same \subseteq DOMAIN s /\ same \subseteq Nat
    BY <1>1 DEF SameReply
  <2>2. First(same) \in DOMAIN s
    <3> HIDE DEF same
    <3>1. First(same) \in same BY <1>3, <2>1, FirstExists
    <3> QED BY <2>1, <3>1
  <2>3. /\ TryPush(s, m).buffer = [s EXCEPT ![First(same)] = m]
        /\ TryPush(s, m).out = {s[First(same)]}
    BY <1>3 DEF TryPush, ReplaceAt
  <2> DEFINE k == First(same)
             t == [s EXCEPT ![k] = m]
  <2>4. DOMAIN t = DOMAIN s /\ \A i \in DOMAIN s : t[i] = IF i = k THEN m ELSE s[i]
    <3> HIDE DEF k
    <3> QED BY <2>2
  <2> HIDE DEF t
  <2>5. \A i \in DOMAIN s : s[i] # m /\ s[i] \in Range(s)
    BY DEF Range
  <2>6. IsInjective(t)
    BY <2>4, <2>5 DEF IsInjective
  <2> HIDE DEF k
  <2>7. k \in DOMAIN s BY <2>2 DEF k
  <2>8. Range(t) \subseteq (Range(s) \cup {m}) \ {s[k]}
    BY <2>4, <2>5, <2>7 DEF Range, IsInjective
  <2>9. ASSUME NEW y \in (Range(s) \cup {m}) \ {s[k]} PROVE y \in Range(t)
    <3>1. CASE y = m BY <2>4, <2>7, <3>1 DEF Range
    <3>2. CASE y # m
      <4>1. PICK j \in DOMAIN s : s[j] = y BY <3>2 DEF Range
      <4>2. j # k BY <4>1
      <4> QED BY <2>4, <4>1, <4>2 DEF Range
    <3> QED BY <3>1, <3>2
  <2>10. s[k] \in Range(s) BY <2>5, <2>7
  <2> QED BY <2>3, <2>6, <2>8, <2>9, <2>10 DEF t, k
<1>4. CASE same = {} /\ Len(s) < BufferMax
  <2>1. TryPush(s, m) = [buffer |-> Append(s, m), out |-> {}]
    BY <1>1, <1>4 DEF TryPush
  <2>2. TryPush(s, m).buffer = Append(s, m) /\ TryPush(s, m).out = {}
    BY <2>1
  <2> QED BY <2>2, AppendDistinct
<1>5. CASE same = {} /\ ~(Len(s) < BufferMax)
  <2>1. TryPush(s, m).buffer = s /\ TryPush(s, m).out = {m}
    BY <1>1, <1>2, <1>5 DEF TryPush
  <2> QED BY <2>1
<1> QED BY <1>3, <1>4, <1>5

\* Where a message can be before it is sent, handed over or lost.
FlowInv ==
  /\ IsInjective(outbound) /\ IsInjective(buffer)
  /\ Range(outbound) \cap unsent = {}
  /\ Range(buffer) \cap (unsent \cup Range(outbound)) = {}
  /\ msg # NoMsg => msg \notin unsent \cup Range(outbound) \cup Range(buffer)
  /\ held # NoMsg => held \notin unsent \cup Range(outbound) \cup Range(buffer)
  /\ held # NoMsg => msg # held

flowVars == <<unsent, outbound, buffer, msg, held>>

LEMMA FlowInit == Init => FlowInv
<1> SUFFICES ASSUME Init PROVE FlowInv
  OBVIOUS
<1>1. outbound = <<>> /\ buffer = <<>> /\ msg = NoMsg /\ held = NoMsg
  BY DEF Init
<1> QED BY <1>1 DEF FlowInv, IsInjective, Range

\* A message x that is nowhere upstream of the buffer is deferred: it is in
\* the buffer, held or lost.
LEMMA DeferFlow ==
  ASSUME BufferInv, NEW x \in Prims, held = NoMsg, Defer(x),
         IsInjective(buffer), x \notin Range(buffer)
  PROVE  /\ IsInjective(buffer')
         /\ Range(buffer') \subseteq Range(buffer) \cup {x}
         /\ \/ held' = NoMsg
            \/ held' = x /\ buffer' = buffer
<1>1. CASE Refused(buffer, x) /\ WaitsWhenFull(x)
  BY <1>1 DEF Defer
<1>2. CASE ~(Refused(buffer, x) /\ WaitsWhenFull(x))
  <2>1. buffer' = TryPush(buffer, x).buffer /\ held' = held
    BY <1>2 DEF Defer
  <2> QED BY <2>1, PushDistinct DEF BufferInv
<1> QED BY <1>1, <1>2

\* The message in the worker's hands leaves them for the buffer, for "held",
\* or for good.
LEMMA OutcomeFlow ==
  ASSUME WorkInv, FlowInv, pc = "send", UNCHANGED envVars,
         \/ DeferredOutcome /\ msg \in Prims
         \/ FailedOutcome
         \/ Sent
  PROVE  FlowInv'
<1>1. msg \in Msgs /\ msg # NoMsg /\ unsent' = unsent /\ outbound' = outbound
      /\ BufferInv
  BY ConstantTypes DEF WorkInv, HandInv, envVars
<1>2. CASE msg' = NoMsg /\ buffer' = buffer /\ held' = held
  BY <1>1, <1>2 DEF FlowInv
<1>3. CASE cursor = 0 /\ DeferredOutcome /\ msg \in Prims
  <2>1. held = NoMsg /\ Defer(msg) /\ msg' = NoMsg
    BY <1>3 DEF DeferredOutcome, Live, WorkInv, PlaceInv
  <2>2. /\ IsInjective(buffer')
        /\ Range(buffer') \subseteq Range(buffer) \cup {msg}
        /\ \/ held' = NoMsg
           \/ held' = msg /\ buffer' = buffer
    BY <1>1, <1>3, <2>1, DeferFlow DEF FlowInv
  <2> QED BY <1>1, <2>1, <2>2 DEF FlowInv
<1>4. CASE cursor # 0 /\ PutBack
  <2>1. /\ buffer \in Seq(Prims) /\ msg \in Prims /\ cursor \in 1..Len(buffer) + 1
        /\ buffer' = InsertAt(buffer, cursor, msg) /\ msg' = NoMsg /\ held' = held
    BY <1>4, LenProperties DEF PutBack, WorkInv, BufferInv, PlaceInv, HandInv
  <2>2. IsInjective(buffer') /\ Range(buffer') \subseteq Range(buffer) \cup {msg}
    BY <1>1, <2>1, InsertAtDistinct DEF FlowInv
  <2> QED BY <1>1, <2>1, <2>2 DEF FlowInv
<1> QED
  BY <1>2, <1>3, <1>4 DEF DeferredOutcome, FailedOutcome, Sent, Live

LEMMA ArrivalFlow ==
  ASSUME PartsInv, FlowInv, NEW m \in Msgs, Arrival(m)
  PROVE  /\ unsent' = unsent /\ pc = "recv"
         /\ IsInjective(outbound')
         /\ Range(outbound') \subseteq Range(outbound) \ {m}
         /\ m \in Range(outbound)
BY TailDistinct DEF Arrival, FlowInv, PartsInv, EnvInv

LEMMA WorkerFlow == WorkInv /\ PartsInv /\ FlowInv /\ WorkerNext => FlowInv'
<1> SUFFICES ASSUME WorkInv, PartsInv, FlowInv, WorkerNext PROVE FlowInv'
  OBVIOUS
<1>u. UNCHANGED flowVars => FlowInv'
  BY DEF flowVars, FlowInv
<1>1. BeginTick \/ ScanSkips \/ ScanStops \/ EndTickReplay \/ ReceiveNothing \/ SendRetries
        => UNCHANGED flowVars
  BY DEF BeginTick, ScanSkips, ScanStops, EndTickReplay, ReceiveNothing,
         SendRetries, flowVars, envVars, workVars
<1>2. CASE ScanTakes
  <2>1. /\ buffer \in Seq(Prims) /\ cursor \in 1..Len(buffer)
        /\ buffer' = RemoveAt(buffer, cursor) /\ msg' = buffer[cursor]
        /\ UNCHANGED <<unsent, outbound, held>> /\ DOMAIN buffer = 1..Len(buffer)
    BY <1>2, LenProperties DEF ScanTakes, envVars, WorkInv, BufferInv, PlaceInv
  <2>2. IsInjective(buffer') /\ Range(buffer') \subseteq Range(buffer) \ {buffer[cursor]}
    BY <2>1, RemoveAtDistinct DEF FlowInv
  <2>3. msg' \in Range(buffer) BY <2>1 DEF Range
  <2> QED BY <2>1, <2>2, <2>3 DEF FlowInv
<1>3. CASE EndFullReplay
  <2>1. /\ held \in Prims /\ held # NoMsg /\ buffer \in Seq(Prims) /\ Len(buffer) <= BufferMax
        /\ buffer' = TryPush(buffer, held).buffer /\ held' = NoMsg
        /\ UNCHANGED <<unsent, outbound, msg>> /\ msg = NoMsg
    BY <1>3 DEF EndFullReplay, envVars, WorkInv, BufferInv, PlaceInv, HandInv
  <2>2. IsInjective(buffer') /\ Range(buffer') \subseteq Range(buffer) \cup {held}
    BY <2>1, PushDistinct DEF FlowInv
  <2> QED BY <2>1, <2>2 DEF FlowInv
<1>4. CASE ReceiveDropped
  <2>1. PICK m \in Msgs : Arrival(m) BY <1>4 DEF ReceiveDropped
  <2>2. UNCHANGED <<buffer, msg, held>> BY <1>4 DEF ReceiveDropped, workVars
  <2> QED BY <2>1, <2>2, ArrivalFlow DEF FlowInv
<1>5. CASE ReceiveDeferred
  <2>1. PICK m \in Msgs : Arrival(m) /\ Primary(m) /\ Defer(m)
    BY <1>5 DEF ReceiveDeferred
  <2>2. m \in Prims /\ BufferInv /\ msg' = msg /\ m # NoMsg
    BY <1>5, <2>1, ConstantTypes DEF ReceiveDeferred, Prims, WorkInv
  <2>3. /\ unsent' = unsent /\ pc = "recv" /\ IsInjective(outbound')
        /\ Range(outbound') \subseteq Range(outbound) \ {m}
        /\ m \in Range(outbound)
    BY <2>1, ArrivalFlow
  <2>4. held = NoMsg /\ msg = NoMsg
    BY <2>3 DEF WorkInv, PlaceInv, HandInv
  <2>5. m \notin Range(buffer) BY <2>3 DEF FlowInv
  <2>6. /\ IsInjective(buffer') /\ Range(buffer') \subseteq Range(buffer) \cup {m}
        /\ held' = NoMsg \/ (held' = m /\ buffer' = buffer)
    BY <2>1, <2>2, <2>4, <2>5, DeferFlow DEF FlowInv
  <2> QED BY <2>2, <2>3, <2>4, <2>5, <2>6 DEF FlowInv
<1>6. CASE ReceiveSends
  <2>1. PICK m \in Msgs : Arrival(m) /\ msg' = m BY <1>6 DEF ReceiveSends
  <2>2. UNCHANGED <<buffer, held>> BY <1>6 DEF ReceiveSends
  <2>3. held = NoMsg BY <2>1, ArrivalFlow DEF WorkInv, PlaceInv
  <2> QED BY <2>1, <2>2, <2>3, ArrivalFlow DEF FlowInv
<1>7. CASE SendRejected \/ SendDeferred
  BY <1>7, OutcomeFlow
  DEF SendRejected, SendDeferred, MayAttempt, Prims, WorkInv, HandInv
<1>8. CASE SendNoSink \/ SendFails \/ SendOk
  BY <1>8, OutcomeFlow DEF SendNoSink, SendFails, SendOk, MayAttempt
<1> QED BY <1>u, <1>1, <1>2, <1>3, <1>4, <1>5, <1>6, <1>7, <1>8 DEF WorkerNext

LEMMA FlowStep == WorkInv /\ PartsInv /\ FlowInv /\ [Next]_vars => FlowInv'
<1> SUFFICES ASSUME WorkInv, PartsInv, FlowInv, [Next]_vars PROVE FlowInv'
  OBVIOUS
<1>1. CASE WorkerNext
  BY <1>1, WorkerFlow
<1>2. ASSUME NEW m \in Msgs, Produce(m) PROVE FlowInv'
  <2>1. /\ outbound \in Seq(Msgs) /\ m \in unsent
        /\ outbound' = Append(outbound, m) /\ unsent' = unsent \ {m}
        /\ UNCHANGED <<buffer, msg, held>>
    BY <1>2 DEF Produce, PartsInv, EnvInv, workVars
  <2>2. IsInjective(outbound') /\ Range(outbound') \subseteq Range(outbound) \cup {m}
    BY <2>1, AppendDistinct DEF FlowInv
  <2> QED BY <2>1, <2>2 DEF FlowInv
<1>3. (\E c \in QueueChannels : Senders(c)) \/ CloseMode \/ OpenMode \/ GateExpires
        \/ Second \/ UNCHANGED vars => UNCHANGED flowVars
  BY DEF Senders, CloseMode, OpenMode, GateExpires, Second, vars, flowVars,
         envVars, workVars
<1>4. UNCHANGED flowVars => FlowInv'
  BY DEF flowVars, FlowInv
<1> QED BY <1>1, <1>2, <1>3, <1>4 DEF Next

\* A sender thread only has messages of its own channel.
HandedInv ==
  \A c \in QueueChannels :
    /\ slot[c] # NoMsg => slot[c].channel = c
    /\ \A i \in 1..Len(senderQ[c]) : senderQ[c][i].channel = c

LEMMA HandedInit == Init => HandedInv
BY DEF Init, InitOutboundState, InitSenders, HandedInv

LEMMA HandedStep == WorkInv /\ PartsInv /\ HandedInv /\ [Next]_vars => HandedInv'
<1> SUFFICES ASSUME WorkInv, PartsInv, HandedInv, [Next]_vars PROVE HandedInv'
  OBVIOUS
<1>0. /\ senderQ \in [QueueChannels -> Seq(Msgs)]
      /\ slot \in [QueueChannels -> Msgs \cup {NoMsg}]
  BY DEF PartsInv, SendersInv
<1>u. UNCHANGED <<senderQ, slot>> => HandedInv'
  BY DEF HandedInv
<1>1. CASE SendOk
  <2>1. slot' = slot /\ msg \in Msgs
    BY <1>1 DEF SendOk, MayAttempt, senderVars, WorkInv, HandInv
  <2>2. CASE /\ msg.channel \in QueueChannels
             /\ senderQ' = [senderQ EXCEPT ![msg.channel] = Append(@, msg)]
    <3> DEFINE d == msg.channel
               q == senderQ[d]
    <3>1. /\ Len(Append(q, msg)) = Len(q) + 1 /\ Len(q) \in Nat
          /\ \A i \in 1..Len(q) : Append(q, msg)[i] = q[i]
          /\ Append(q, msg)[Len(q) + 1] = msg
      BY <1>0, <2>1, <2>2, AppendProperties, LenProperties
    <3>2. \A i \in 1..Len(q) : q[i].channel = d
      BY <2>2 DEF HandedInv
    <3>3. \A i \in 1..Len(Append(q, msg)) : Append(q, msg)[i].channel = d
      <4> HIDE DEF q
      <4>1. \A i \in 1..Len(Append(q, msg)) : i \in 1..Len(q) \/ i = Len(q) + 1
        BY <3>1
      <4> QED BY <3>1, <3>2, <4>1
    <3>4. \A c \in QueueChannels :
            senderQ'[c] = IF c = d THEN Append(q, msg) ELSE senderQ[c]
      BY <1>0, <2>2
    <3> HIDE DEF d, q
    <3>5. ASSUME NEW c \in QueueChannels
          PROVE  /\ slot'[c] # NoMsg => slot'[c].channel = c
                 /\ \A i \in 1..Len(senderQ'[c]) : senderQ'[c][i].channel = c
      <4>1. slot'[c] # NoMsg => slot'[c].channel = c
        BY <2>1 DEF HandedInv
      <4>2. CASE c = d BY <3>3, <3>4, <4>1, <4>2
      <4>3. CASE c # d BY <3>4, <4>1, <4>3 DEF HandedInv
      <4> QED BY <4>2, <4>3
    <3> QED BY <3>5 DEF HandedInv
  <2> QED BY <1>1, <1>u, <2>1, <2>2 DEF SendOk
<1>2. WorkerNext => SendOk \/ UNCHANGED <<senderQ, slot>>
  BY DEF WorkerNext, BeginTick, ScanSkips, ScanTakes, ScanStops, EndTickReplay,
         EndFullReplay, ReceiveNothing, ReceiveDropped, ReceiveDeferred,
         ReceiveSends, SendNoSink, SendRejected, SendRetries, SendDeferred,
         SendFails, senderVars
<1>3. ASSUME NEW c \in QueueChannels, SenderNext(c) PROVE HandedInv'
  <2>1. CASE TakeFromQueue(c)
    <3> DEFINE q == senderQ[c]
    <3>1. q # <<>> /\ q \in Seq(Msgs)
          /\ slot' = [slot EXCEPT ![c] = Head(q)]
          /\ senderQ' = [senderQ EXCEPT ![c] = Tail(q)]
      BY <1>0, <2>1 DEF TakeFromQueue
    <3>2. /\ \A i \in 1..Len(Tail(q)) : Tail(q)[i] = q[i + 1] /\ i + 1 \in 1..Len(q)
          /\ Head(q) = q[1] /\ 1 \in 1..Len(q)
      BY <3>1, HeadTailProperties, LenProperties, EmptySeq
    <3>3. \A i \in 1..Len(q) : q[i].channel = c
      BY DEF HandedInv
    <3>4. Head(q).channel = c /\ \A i \in 1..Len(Tail(q)) : Tail(q)[i].channel = c
      BY <3>2, <3>3
    <3>5. \A e \in QueueChannels :
            /\ slot'[e] = IF e = c THEN Head(q) ELSE slot[e]
            /\ senderQ'[e] = IF e = c THEN Tail(q) ELSE senderQ[e]
      BY <1>0, <3>1
    <3> HIDE DEF q
    <3>6. ASSUME NEW e \in QueueChannels
          PROVE  /\ slot'[e] # NoMsg => slot'[e].channel = e
                 /\ \A i \in 1..Len(senderQ'[e]) : senderQ'[e][i].channel = e
      <4>1. CASE e = c BY <3>4, <3>5, <4>1
      <4>2. CASE e # c BY <3>5, <4>2 DEF HandedInv
      <4> QED BY <4>1, <4>2
    <3> QED BY <3>6 DEF HandedInv
  <2>2. CASE AttemptDelivers(c)
    BY <1>0, <2>2 DEF AttemptDelivers, HandedInv
  <2>3. ASSUME NEW error \in Errors, NEW recorded \in BOOLEAN,
               AttemptFails(c, error, recorded)
        PROVE  HandedInv'
    <3>1. senderQ' = senderQ /\ (slot' = slot \/ slot' = [slot EXCEPT ![c] = NoMsg])
      BY <2>3 DEF AttemptFails, GiveUp
    <3> QED BY <1>0, <3>1 DEF HandedInv
  <2>4. CASE FinishRecording(c)
    BY <1>u, <2>4 DEF FinishRecording
  <2> QED BY <1>3, <2>1, <2>2, <2>3, <2>4 DEF SenderNext
<1>4. (\E m \in Msgs : Produce(m)) \/ CloseMode \/ OpenMode \/ GateExpires \/ Second
        \/ UNCHANGED vars => UNCHANGED <<senderQ, slot>>
  BY DEF Produce, CloseMode, OpenMode, GateExpires, Second, ASecond, vars, senderVars
<1> QED BY <1>u, <1>1, <1>2, <1>3, <1>4 DEF Next, Senders

\* What a push gives back: the message itself because the buffer is full, or
\* an older answer to the same request.
LEMMA PushLosses ==
  ASSUME NEW s \in Seq(Prims), Len(s) <= BufferMax, NEW m \in Prims,
         m \notin Range(s), NEW b \in TryPush(s, m).out
  PROVE  \/ b = m /\ Len(TryPush(s, m).buffer) = BufferMax
         \/ /\ b # m /\ b.reply # NoReply
            /\ \E i \in DOMAIN TryPush(s, m).buffer :
                 /\ Primary(TryPush(s, m).buffer[i])
                 /\ TryPush(s, m).buffer[i].reply = b.reply
                 /\ TryPush(s, m).buffer[i].channel = b.channel
<1> DEFINE same == SameReply(s, m)
           weak == {i \in DOMAIN s : Supplemental(s[i])}
<1>1. Len(s) \in Nat /\ BufferMax \in Nat /\ DOMAIN s = 1..Len(s)
      /\ \A i \in DOMAIN s : s[i] \in Prims
  BY LenProperties, ElementOfSeq, ConstantTypes
<1>2. weak = {} BY <1>1 DEF Prims, Primary, Supplemental
<1>3. CASE same # {}
  <2>1. same \subseteq DOMAIN s /\ same \subseteq Nat
    BY <1>1 DEF SameReply
  <2>2. First(same) \in same
    <3> HIDE DEF same
    <3> QED BY <1>3, <2>1, FirstExists
  <2> DEFINE k == First(same)
             t == [s EXCEPT ![k] = m]
  <2>3. /\ TryPush(s, m).buffer = t
        /\ TryPush(s, m).out = {s[k]}
    BY <1>3 DEF TryPush, ReplaceAt
  <2>4. k \in DOMAIN s /\ m.reply # NoReply /\ s[k].reply = m.reply /\ s[k].channel = m.channel
    <3>1. k \in same BY <2>2
    <3> HIDE DEF k
    <3> QED BY <3>1 DEF SameReply
  <2>5. k \in DOMAIN t /\ t[k] = m
    <3> HIDE DEF k
    <3> QED BY <2>4
  <2>6. s[k] # m BY <2>4 DEF Range
  <2>7. Primary(m) BY DEF Prims
  <2> HIDE DEF t, k
  <2> QED BY <2>3, <2>4, <2>5, <2>6, <2>7
<1>4. CASE same = {} /\ Len(s) < BufferMax
  <2>1. TryPush(s, m) = [buffer |-> Append(s, m), out |-> {}]
    BY <1>1, <1>4 DEF TryPush
  <2> QED BY <2>1
<1>5. CASE same = {} /\ ~(Len(s) < BufferMax)
  BY <1>1, <1>2, <1>5 DEF TryPush
<1> QED BY <1>3, <1>4, <1>5

LEMMA PrimariesNext == WorkInv' => OnlyPrimariesWait'
BY Primaries, PTL

\* The losses of a push are explained by what it leaves in the buffer.
LEMMA PushExplained ==
  ASSUME BufferInv, WorkInv', NEW x \in Prims, x \notin Range(buffer),
         buffer' = TryPush(buffer, x).buffer, NEW b \in TryPush(buffer, x).out
  PROVE  Explained([msg |-> b, why |-> IF b = x THEN "full" ELSE "replaced"])
<1>1. OnlyPrimariesWait'
  BY PrimariesNext
<1>2. \/ b = x /\ Len(buffer') = BufferMax
      \/ /\ b # x /\ b.reply # NoReply
         /\ \E i \in DOMAIN buffer' :
              /\ Primary(buffer'[i])
              /\ buffer'[i].reply = b.reply
              /\ buffer'[i].channel = b.channel
  BY PushLosses DEF BufferInv
<1>3. CASE b = x /\ Len(buffer') = BufferMax
  BY <1>1, <1>3 DEF Explained
<1>4. CASE /\ b # x /\ b.reply # NoReply
           /\ \E i \in DOMAIN buffer' :
                /\ Primary(buffer'[i])
                /\ buffer'[i].reply = b.reply
                /\ buffer'[i].channel = b.channel
  <2> DEFINE l == [msg |-> b, why |-> "replaced"]
  <2>1. l.msg = b /\ l.why = "replaced" OBVIOUS
  <2>2. [msg |-> b, why |-> IF b = x THEN "full" ELSE "replaced"] = l BY <1>4
  <2> HIDE DEF l
  <2>3. Explained(l) BY <1>4, <2>1 DEF Explained
  <2> QED BY <2>2, <2>3
<1> QED BY <1>2, <1>3, <1>4

LEMMA DeferExplained ==
  ASSUME BufferInv, WorkInv', NEW x \in Prims, x \notin Range(buffer), Defer(x),
         NEW l \in lost' \ lost
  PROVE  Explained(l)
<1>1. CASE Refused(buffer, x) /\ WaitsWhenFull(x)
  BY <1>1 DEF Defer
<1>2. CASE ~(Refused(buffer, x) /\ WaitsWhenFull(x))
  <2>1. /\ buffer' = TryPush(buffer, x).buffer
        /\ lost' = lost \cup {[msg |-> b, why |-> IF b = x THEN "full" ELSE "replaced"] :
                                b \in TryPush(buffer, x).out}
    BY <1>2 DEF Defer
  <2>2. PICK b \in TryPush(buffer, x).out :
               l = [msg |-> b, why |-> IF b = x THEN "full" ELSE "replaced"]
    BY <2>1
  <2> QED BY <2>1, <2>2, PushExplained
<1> QED BY <1>1, <1>2

LEMMA DeferredOutcomeExplained ==
  ASSUME WorkInv, WorkInv', FlowInv, pc = "send", msg \in Prims, DeferredOutcome,
         NEW l \in lost' \ lost
  PROVE  Explained(l)
<1>1. msg \notin Range(buffer) BY ConstantTypes DEF FlowInv, Prims
<1>2. CASE cursor = 0
  BY <1>1, <1>2, DeferExplained DEF DeferredOutcome, Live, WorkInv
<1>3. CASE cursor # 0
  BY <1>3 DEF DeferredOutcome, Live, PutBack
<1> QED BY <1>2, <1>3

\* A failed primary is counted against its channel by the same step.
LEMMA FailedOutcomeExplained ==
  ASSUME WorkInv, PartsInv, pc = "send", FailedOutcome,
         Answers(msg) = {} \/ (Primary(msg) => RecordFail(msg.channel)),
         NEW l \in lost' \ lost, Primary(l.msg)
  PROVE  Explained(l)
<1>1. l = [msg |-> msg, why |-> "failed"]
  BY DEF FailedOutcome, PutBack
<1>2. l.msg = msg /\ l.why = "failed" BY <1>1
<1>3. CASE Answers(msg) = {}
  BY <1>2, <1>3 DEF Explained
<1>4. CASE RecordFail(msg.channel) /\ msg.channel \in TrackedChannels
  <2>1. failures[msg.channel] \in Nat
    BY <1>4, ConstantTypes DEF PartsInv, HealthInv
  <2>2. Saturated(failures[msg.channel] + 1, FailThreshold) > 0
    BY <2>1, ConstantTypes DEF Saturated
  <2>3. failures'[msg.channel] > 0
    BY <1>4, <2>2 DEF RecordFail, CountFailure, PartsInv, HealthInv
  <2> QED BY <1>2, <2>3 DEF Explained
<1>5. CASE msg.channel \notin TrackedChannels
  BY <1>2, <1>5 DEF Explained
<1> QED BY <1>2, <1>3, <1>4, <1>5

LEMMA LossStep ==
  ASSUME WorkInv, WorkInv', PartsInv, FlowInv, HandedInv, [Next]_vars,
         NEW l \in lost' \ lost, Primary(l.msg)
  PROVE  Explained(l)
<1>1. CASE ReceiveDropped
  <2>1. PICK m \in Msgs : /\ Silent(m) \/ Supplemental(m)
                          /\ lost' = lost \cup {[msg |-> m, why |-> "unwanted"]}
    BY <1>1 DEF ReceiveDropped
  <2>2. l.msg = m BY <2>1
  <2> QED BY <2>1, <2>2 DEF Primary, Silent, Supplemental
<1>2. CASE ReceiveDeferred
  <2>1. PICK m \in Msgs : Arrival(m) /\ Primary(m) /\ Defer(m)
    BY <1>2 DEF ReceiveDeferred
  <2>2. m \in Prims BY <2>1 DEF Prims
  <2>3. m \notin Range(buffer) BY <2>1, ArrivalFlow DEF FlowInv
  <2> QED BY <2>1, <2>2, <2>3, DeferExplained DEF WorkInv
<1>3. CASE EndFullReplay
  <2>1. /\ held \in Prims /\ buffer' = TryPush(buffer, held).buffer
        /\ lost' = lost \cup {[msg |-> m, why |-> IF m = held THEN "full" ELSE "replaced"] :
                                m \in TryPush(buffer, held).out}
    BY <1>3 DEF EndFullReplay, WorkInv, PlaceInv
  <2>2. held \notin Range(buffer) BY <1>3 DEF EndFullReplay, FlowInv
  <2>3. PICK b \in TryPush(buffer, held).out :
               l = [msg |-> b, why |-> IF b = held THEN "full" ELSE "replaced"]
    BY <2>1
  <2> QED BY <2>1, <2>2, <2>3, PushExplained DEF WorkInv
<1>4. CASE SendRejected \/ SendDeferred
  <2>1. pc = "send" /\ msg \in Prims /\ DeferredOutcome
    BY <1>4 DEF SendRejected, SendDeferred, MayAttempt, Prims, WorkInv, HandInv
  <2> QED BY <2>1, DeferredOutcomeExplained
<1>5. CASE SendNoSink
  BY <1>5, FailedOutcomeExplained DEF SendNoSink
<1>6. CASE SendFails
  BY <1>6, FailedOutcomeExplained DEF SendFails, MayAttempt
<1>7. ASSUME NEW c \in QueueChannels, SenderNext(c) PROVE Explained(l)
  <2>1. TakeFromQueue(c) \/ AttemptDelivers(c) \/ FinishRecording(c) => lost' = lost
    BY DEF TakeFromQueue, AttemptDelivers, FinishRecording
  <2>2. ASSUME NEW error \in Errors, NEW recorded \in BOOLEAN,
               AttemptFails(c, error, recorded)
        PROVE  Explained(l)
    <3>1. slot[c] # NoMsg /\ l = [msg |-> slot[c], why |-> "sender"]
      BY <2>2 DEF AttemptFails, GiveUp
    <3>2. l.msg.channel \in QueueChannels /\ l.why = "sender"
      BY <3>1 DEF HandedInv
    <3> QED BY <3>2 DEF Explained
  <2> QED BY <1>7, <2>1, <2>2 DEF SenderNext
<1>8. WorkerNext => \/ ReceiveDropped \/ ReceiveDeferred \/ EndFullReplay
                    \/ SendRejected \/ SendDeferred \/ SendNoSink \/ SendFails
                    \/ lost' = lost
  BY DEF WorkerNext, BeginTick, ScanSkips, ScanTakes, ScanStops, EndTickReplay,
         ReceiveNothing, ReceiveSends, SendRetries, SendOk
<1>9. (\E m \in Msgs : Produce(m)) \/ CloseMode \/ OpenMode \/ GateExpires \/ Second
        \/ UNCHANGED vars => lost' = lost
  BY DEF Produce, CloseMode, OpenMode, GateExpires, Second, ASecond, vars
<1> QED
  BY <1>1, <1>2, <1>3, <1>4, <1>5, <1>6, <1>7, <1>8, <1>9 DEF Next, Senders

\* A primary is lost only when the buffer is full of primaries, when a later
\* answer to its request takes its place, when its channel failed it and the
\* failure was counted, or when its sender gave it up: on every path of
\* run_dispatch and run_os_outbound_worker, for any number of messages and
\* channels and any limits.
THEOREM LossCorrect == Spec => PrimaryLossExplained
<1>1. Init => WorkInv /\ PartsInv /\ FlowInv /\ HandedInv
  BY WorkInit, PartsInit, FlowInit, HandedInit
<1>2. WorkInv /\ PartsInv /\ FlowInv /\ HandedInv /\ [Next]_vars
        => (WorkInv /\ PartsInv /\ FlowInv /\ HandedInv)'
  BY WorkStep, PartsStep, FlowStep, HandedStep
<1>3. WorkInv /\ PartsInv /\ FlowInv /\ HandedInv /\ [Next]_vars
        => [\A l \in lost' \ lost : Primary(l.msg) => Explained(l)]_vars
  BY <1>2, LossStep
<1> QED BY <1>1, <1>2, <1>3, PTL DEF Spec, PrimaryLossExplained

-----------------------------------------------------------------------------
(* The places of a message.  FlowInv says that what has not been handed on *)
(* is in one place only, so it counts as one here; a message leaves it for *)
(* a sender's queue, for its platform or for good.                         *)
Upstream ==
  unsent \cup Range(outbound) \cup Range(buffer) \cup ({msg, held} \ {NoMsg})

InSlot(x) == x.channel \in QueueChannels /\ slot[x.channel] = x

InQueue(x) == x.channel \in QueueChannels /\ x \in Range(senderQ[x.channel])

IsLost(x) == \E l \in lost : l.msg = x

LostOnce(x) == \A k, l \in lost : k.msg = x /\ l.msg = x => k = l

Placed(x) ==
  /\ One(x \in Upstream) + One(InSlot(x)) + One(InQueue(x))
       + One(x \in Range(delivered)) + One(IsLost(x)) = 1
  /\ LostOnce(x)

SpreadInv ==
  /\ \A x \in Msgs : Placed(x)
  /\ IsInjective(delivered)
  /\ \A c \in QueueChannels : IsInjective(senderQ[c])

handedVars == <<delivered, senderQ, slot>>

\* The messages of L are lost by this step, for one reason each.
Loses(L) ==
  /\ lost \subseteq lost'
  /\ \A l \in lost' \ lost : l.msg \in L
  /\ \A b \in L : \E l \in lost' : l.msg = b
  /\ \A k, l \in lost' \ lost : k.msg = l.msg => k = l

\* The messages of L leave the upstream for good.
Moves(L) ==
  /\ L \subseteq Upstream
  /\ Upstream' = Upstream \ L
  /\ Loses(L)
  /\ UNCHANGED handedVars

LEMMA LossPlaces ==
  ASSUME NEW L, Loses(L), NEW x, LostOnce(x), x \in L => ~IsLost(x)
  PROVE  (IsLost(x)' <=> IsLost(x) \/ x \in L) /\ LostOnce(x)'
<1>1. IsLost(x)' <=> IsLost(x) \/ x \in L
  BY DEF Loses, IsLost
<1>2. ASSUME NEW k \in lost', NEW l \in lost', k.msg = x, l.msg = x PROVE k = l
  <2>1. CASE k \in lost /\ l \in lost BY <1>2, <2>1 DEF LostOnce
  <2>2. CASE k \notin lost /\ l \notin lost BY <1>2, <2>2 DEF Loses
  <2>3. CASE (k \in lost) # (l \in lost)
    <3>1. x \in L BY <1>2, <2>3 DEF Loses
    <3>2. IsLost(x) BY <1>2, <2>3 DEF IsLost
    <3> QED BY <3>1, <3>2
  <2> QED BY <2>1, <2>2, <2>3
<1> QED BY <1>1, <1>2 DEF LostOnce

LEMMA NoneLost == lost' = lost => Loses({})
BY DEF Loses

LEMMA OneLost ==
  ASSUME NEW m, NEW why, lost' = lost \cup {[msg |-> m, why |-> why]}
  PROVE  Loses({m})
<1> DEFINE l == [msg |-> m, why |-> why]
<1>1. l.msg = m /\ lost' = lost \cup {l} OBVIOUS
<1> HIDE DEF l
<1> QED BY <1>1 DEF Loses

LEMMA PushLoses ==
  ASSUME NEW y, NEW out,
         lost' = lost \cup {[msg |-> b, why |-> IF b = y THEN "full" ELSE "replaced"] : b \in out}
  PROVE  Loses(out)
<1> DEFINE L(b) == [msg |-> b, why |-> IF b = y THEN "full" ELSE "replaced"]
<1>1. \A b : L(b).msg = b OBVIOUS
<1>2. lost' = lost \cup {L(b) : b \in out} OBVIOUS
<1> HIDE DEF L
<1> QED BY <1>1, <1>2 DEF Loses

\* A deferred message is in the buffer, held or lost, and what it replaces
\* there is lost.
LEMMA DeferMoves ==
  ASSUME BufferInv, NEW y \in Prims, held = NoMsg, Defer(y),
         IsInjective(buffer), y \notin Range(buffer)
  PROVE  \E L \in SUBSET (Range(buffer) \cup {y}) :
           /\ Loses(L)
           /\ Range(buffer') \cup ({held'} \ {NoMsg}) = (Range(buffer) \cup {y}) \ L
<1>0. y # NoMsg BY ConstantTypes DEF Prims
<1>1. CASE Refused(buffer, y) /\ WaitsWhenFull(y)
  <2>1. held' = y /\ buffer' = buffer /\ lost' = lost BY <1>1 DEF Defer
  <2> QED BY <1>0, <2>1, NoneLost
<1>2. CASE ~(Refused(buffer, y) /\ WaitsWhenFull(y))
  <2> DEFINE out == TryPush(buffer, y).out
  <2>1. /\ buffer' = TryPush(buffer, y).buffer /\ held' = held
        /\ lost' = lost \cup {[msg |-> b, why |-> IF b = y THEN "full" ELSE "replaced"] :
                                b \in out}
    BY <1>2 DEF Defer
  <2>2. Range(buffer') = (Range(buffer) \cup {y}) \ out /\ out \subseteq Range(buffer) \cup {y}
    BY <2>1, PushDistinct DEF BufferInv
  <2> HIDE DEF out
  <2>3. Loses(out) BY <2>1, PushLoses
  <2> QED BY <2>1, <2>2, <2>3
<1> QED BY <1>1, <1>2

\* What becomes of the message in the worker's hands when it was not sent.
LEMMA OutcomeMoves ==
  ASSUME WorkInv, FlowInv, pc = "send", UNCHANGED <<envVars, handedVars>>,
         (DeferredOutcome /\ msg \in Prims) \/ FailedOutcome
  PROVE  \E L : Moves(L)
<1>1. /\ msg \in Msgs /\ msg # NoMsg /\ unsent' = unsent /\ outbound' = outbound
      /\ BufferInv /\ UNCHANGED handedVars
  BY ConstantTypes DEF WorkInv, HandInv, envVars
<1>2. CASE cursor = 0 /\ FailedOutcome
  <2>1. /\ lost' = lost \cup {[msg |-> msg, why |-> "failed"]}
        /\ msg' = NoMsg /\ buffer' = buffer /\ held' = held /\ held = NoMsg
    BY <1>2 DEF FailedOutcome, Live, WorkInv, PlaceInv
  <2>2. Upstream' = Upstream \ {msg} /\ msg \in Upstream
    BY <1>1, <2>1 DEF Upstream, FlowInv
  <2> QED BY <1>1, <2>1, <2>2, OneLost DEF Moves
<1>3. CASE cursor = 0 /\ DeferredOutcome /\ msg \in Prims
  <2>1. held = NoMsg /\ Defer(msg) /\ msg' = NoMsg
    BY <1>3 DEF DeferredOutcome, Live, WorkInv, PlaceInv
  <2>2. PICK L \in SUBSET (Range(buffer) \cup {msg}) :
          /\ Loses(L)
          /\ Range(buffer') \cup ({held'} \ {NoMsg}) = (Range(buffer) \cup {msg}) \ L
    BY <1>1, <1>3, <2>1, DeferMoves DEF FlowInv
  <2>3. Upstream' = Upstream \ L /\ L \subseteq Upstream
    <3>1. Upstream = unsent \cup Range(outbound) \cup (Range(buffer) \cup {msg})
      BY <1>1, <2>1 DEF Upstream
    <3>2. Upstream' = unsent \cup Range(outbound) \cup (Range(buffer') \cup ({held'} \ {NoMsg}))
      BY <1>1, <2>1 DEF Upstream
    <3>3. L \cap (unsent \cup Range(outbound)) = {}
      BY <1>1, <2>2 DEF FlowInv
    <3> QED BY <2>2, <3>1, <3>2, <3>3
  <2> QED BY <1>1, <2>2, <2>3 DEF Moves
<1>4. CASE cursor # 0 /\ PutBack
  <2>1. /\ buffer \in Seq(Prims) /\ msg \in Prims /\ cursor \in 1..Len(buffer) + 1
        /\ buffer' = InsertAt(buffer, cursor, msg) /\ msg' = NoMsg /\ held' = held
        /\ lost' = lost
    BY <1>4, LenProperties DEF PutBack, WorkInv, BufferInv, PlaceInv, HandInv
  <2>2. Range(buffer') = Range(buffer) \cup {msg}
    BY <1>1, <2>1, InsertAtDistinct DEF FlowInv
  <2>3. Upstream' = Upstream BY <1>1, <2>1, <2>2 DEF Upstream
  <2> QED BY <1>1, <2>1, <2>3, NoneLost DEF Moves
<1> QED BY <1>2, <1>3, <1>4 DEF DeferredOutcome, FailedOutcome, Live

LEMMA ArrivalMoves ==
  ASSUME PartsInv, FlowInv, NEW m \in Msgs, Arrival(m)
  PROVE  /\ unsent' = unsent /\ pc = "recv"
         /\ Range(outbound') = Range(outbound) \ {m}
         /\ m \in Range(outbound) /\ m # NoMsg
BY TailDistinct, ConstantTypes DEF Arrival, FlowInv, PartsInv, EnvInv

\* Each step of the worker but SendOk keeps the messages it has or loses some.
LEMMA WorkerMoves ==
  ASSUME WorkInv, PartsInv, FlowInv, WorkerNext, ~SendOk
  PROVE  \E L : Moves(L)
<1>h. UNCHANGED handedVars
  BY DEF WorkerNext, BeginTick, ScanSkips, ScanTakes, ScanStops, EndTickReplay,
         EndFullReplay, ReceiveNothing, ReceiveDropped, ReceiveDeferred,
         ReceiveSends, SendNoSink, SendRejected, SendRetries, SendDeferred,
         SendFails, senderVars, handedVars
<1>1. ASSUME UNCHANGED flowVars, lost' = lost PROVE \E L : Moves(L)
  <2>1. Upstream' = Upstream BY <1>1 DEF flowVars, Upstream
  <2> QED BY <1>h, <1>1, <2>1, NoneLost DEF Moves
<1>2. BeginTick \/ ScanSkips \/ ScanStops \/ EndTickReplay \/ ReceiveNothing \/ SendRetries
        => UNCHANGED flowVars /\ lost' = lost
  BY DEF BeginTick, ScanSkips, ScanStops, EndTickReplay, ReceiveNothing,
         SendRetries, flowVars, envVars, workVars
<1>3. CASE ScanTakes
  <2>1. /\ buffer \in Seq(Prims) /\ cursor \in 1..Len(buffer)
        /\ buffer' = RemoveAt(buffer, cursor) /\ msg' = buffer[cursor]
        /\ UNCHANGED <<unsent, outbound, held>> /\ DOMAIN buffer = 1..Len(buffer)
        /\ lost' = lost /\ msg = NoMsg
    BY <1>3, LenProperties DEF ScanTakes, envVars, WorkInv, BufferInv, PlaceInv, HandInv
  <2>2. Range(buffer') = Range(buffer) \ {buffer[cursor]}
    BY <2>1, RemoveAtDistinct DEF FlowInv
  <2>3. msg' \in Range(buffer) /\ msg' # NoMsg
    BY <2>1, ElementOfSeq, ConstantTypes DEF Range, Prims
  <2>4. Upstream' = Upstream BY <2>1, <2>2, <2>3 DEF Upstream
  <2> QED BY <1>h, <2>1, <2>4, NoneLost DEF Moves
<1>4. CASE EndFullReplay
  <2> DEFINE out == TryPush(buffer, held).out
  <2>1. /\ held \in Prims /\ held # NoMsg /\ buffer \in Seq(Prims) /\ Len(buffer) <= BufferMax
        /\ buffer' = TryPush(buffer, held).buffer /\ held' = NoMsg
        /\ lost' = lost \cup {[msg |-> m, why |-> IF m = held THEN "full" ELSE "replaced"] :
                                m \in out}
        /\ UNCHANGED <<unsent, outbound, msg>> /\ msg = NoMsg
    BY <1>4 DEF EndFullReplay, envVars, WorkInv, BufferInv, PlaceInv, HandInv
  <2>2. Range(buffer') = (Range(buffer) \cup {held}) \ out /\ out \subseteq Range(buffer) \cup {held}
    BY <2>1, PushDistinct DEF FlowInv
  <2> HIDE DEF out
  <2>3. Loses(out) BY <2>1, PushLoses
  <2>4. out \cap (unsent \cup Range(outbound)) = {} BY <2>1, <2>2 DEF FlowInv
  <2>5. Upstream' = Upstream \ out /\ out \subseteq Upstream
    BY <2>1, <2>2, <2>4 DEF Upstream
  <2> QED BY <1>h, <2>3, <2>5 DEF Moves
<1>5. CASE ReceiveDropped
  <2>1. PICK m \in Msgs : /\ Arrival(m)
                          /\ lost' = lost \cup {[msg |-> m, why |-> "unwanted"]}
    BY <1>5 DEF ReceiveDropped
  <2>2. UNCHANGED <<buffer, msg, held>> /\ msg = NoMsg /\ held = NoMsg
    BY <1>5, <2>1, ArrivalMoves DEF ReceiveDropped, workVars, WorkInv, PlaceInv, HandInv
  <2>3. Upstream' = Upstream \ {m} /\ m \in Upstream
    BY <2>1, <2>2, ArrivalMoves DEF Upstream, FlowInv
  <2> QED BY <1>h, <2>1, <2>3, OneLost DEF Moves
<1>6. CASE ReceiveDeferred
  <2>1. PICK m \in Msgs : Arrival(m) /\ Primary(m) /\ Defer(m)
    BY <1>6 DEF ReceiveDeferred
  <2>2. m \in Prims /\ BufferInv /\ msg' = msg
    BY <1>6, <2>1 DEF ReceiveDeferred, Prims, WorkInv
  <2>3. held = NoMsg /\ msg = NoMsg
    BY <2>1, ArrivalMoves DEF WorkInv, PlaceInv, HandInv
  <2>4. m \notin Range(buffer) BY <2>1, ArrivalMoves DEF FlowInv
  <2>5. PICK L \in SUBSET (Range(buffer) \cup {m}) :
          /\ Loses(L)
          /\ Range(buffer') \cup ({held'} \ {NoMsg}) = (Range(buffer) \cup {m}) \ L
    BY <2>1, <2>2, <2>3, <2>4, DeferMoves DEF FlowInv
  <2>6. Upstream' = Upstream \ L /\ L \subseteq Upstream
    <3>1. Upstream = unsent \cup (Range(outbound) \ {m}) \cup (Range(buffer) \cup {m})
      BY <2>1, <2>3, ArrivalMoves DEF Upstream
    <3>2. Upstream' = unsent \cup (Range(outbound) \ {m}) \cup (Range(buffer') \cup ({held'} \ {NoMsg}))
      BY <2>1, <2>2, <2>3, ArrivalMoves DEF Upstream
    <3>3. L \cap (unsent \cup (Range(outbound) \ {m})) = {}
      BY <2>1, <2>5, ArrivalMoves DEF FlowInv
    <3> QED BY <2>5, <3>1, <3>2, <3>3
  <2> QED BY <1>h, <2>5, <2>6 DEF Moves
<1>7. CASE ReceiveSends
  <2>1. PICK m \in Msgs : Arrival(m) /\ msg' = m BY <1>7 DEF ReceiveSends
  <2>2. UNCHANGED <<buffer, held, lost>> /\ msg = NoMsg
    BY <1>7, <2>1, ArrivalMoves DEF ReceiveSends, WorkInv, HandInv
  <2>3. Upstream' = Upstream BY <2>1, <2>2, ArrivalMoves DEF Upstream
  <2> QED BY <1>h, <2>2, <2>3, NoneLost DEF Moves
<1>8. CASE SendRejected \/ SendDeferred
  BY <1>h, <1>8, OutcomeMoves
  DEF SendRejected, SendDeferred, MayAttempt, Prims, WorkInv, HandInv
<1>9. CASE SendNoSink \/ SendFails
  BY <1>h, <1>9, OutcomeMoves DEF SendNoSink, SendFails, MayAttempt
<1> QED BY <1>1, <1>2, <1>3, <1>4, <1>5, <1>6, <1>7, <1>8, <1>9 DEF WorkerNext


\* What leaves the upstream for good was nowhere else.
LEMMA MovesPlaced ==
  ASSUME NEW L, Moves(L), NEW x, Placed(x)
  PROVE  Placed(x)'
<1>1. /\ InSlot(x)' <=> InSlot(x)
      /\ InQueue(x)' <=> InQueue(x)
      /\ delivered' = delivered
  BY DEF Moves, handedVars, InSlot, InQueue
<1>2. x \in L => x \in Upstream /\ ~IsLost(x)
  BY DEF Moves, Placed, One
<1>3. (IsLost(x)' <=> IsLost(x) \/ x \in L) /\ LostOnce(x)'
  BY <1>2, LossPlaces DEF Moves, Placed
<1>4. One(x \in Upstream)' = IF x \in L THEN 0 ELSE One(x \in Upstream)
  BY DEF Moves, One
<1> QED BY <1>1, <1>2, <1>3, <1>4 DEF Placed, One

\* The message sent goes to its sender's queue or to its platform.
LEMMA SentPlaced ==
  ASSUME WorkInv, PartsInv, FlowInv, SpreadInv, SendOk
  PROVE  SpreadInv'
<1>1. /\ msg \in Msgs /\ msg # NoMsg /\ msg' = NoMsg /\ pc = "send"
      /\ UNCHANGED <<unsent, outbound, buffer, held, lost, slot>>
  BY ConstantTypes DEF SendOk, Sent, MayAttempt, envVars, senderVars, WorkInv, HandInv
<1>2. Upstream' = Upstream \ {msg} /\ msg \in Upstream
  BY <1>1 DEF Upstream, FlowInv
<1>3. ~InQueue(msg) /\ msg \notin Range(delivered)
  BY <1>1, <1>2 DEF SpreadInv, Placed, One
<1>4. delivered \in Seq(Msgs) /\ senderQ \in [QueueChannels -> Seq(Msgs)]
  BY DEF PartsInv, FateInv, SendersInv
<1>5. \A x : (InSlot(x)' <=> InSlot(x)) /\ (IsLost(x)' <=> IsLost(x))
             /\ (LostOnce(x) => LostOnce(x)')
  BY <1>1 DEF InSlot, IsLost, LostOnce
<1>6. \A x : One(x \in Upstream)' = IF x = msg THEN 0 ELSE One(x \in Upstream)
  BY <1>2 DEF One
<1>7. CASE ~ByDriver(msg) /\ msg.channel \in QueueChannels
  <2> DEFINE d == msg.channel
             q == senderQ[d]
  <2>1. senderQ' = [senderQ EXCEPT ![d] = Append(q, msg)] /\ delivered' = delivered
    BY <1>7 DEF SendOk
  <2>2. q \in Seq(Msgs) /\ IsInjective(q) /\ msg \notin Range(q)
    BY <1>3, <1>4, <1>7 DEF SpreadInv, InQueue
  <2>3. IsInjective(Append(q, msg)) /\ Range(Append(q, msg)) = Range(q) \cup {msg}
    <3> HIDE DEF q
    <3> QED BY <1>1, <2>2, AppendDistinct
  <2>4. \A c \in QueueChannels :
          senderQ'[c] = IF c = d THEN Append(q, msg) ELSE senderQ[c]
    BY <1>4, <2>1
  <2>5. \A x : InQueue(x)' <=> InQueue(x) \/ x = msg
    BY <1>7, <2>3, <2>4 DEF InQueue
  <2>6. ASSUME NEW x \in Msgs PROVE Placed(x)'
    <3>1. Placed(x) /\ (x = msg => ~InQueue(x) /\ x \in Upstream) BY <1>2, <1>3 DEF SpreadInv
    <3> QED BY <1>5, <1>6, <2>1, <2>5, <3>1 DEF Placed, One
  <2>7. \A c \in QueueChannels : IsInjective(senderQ'[c])
    BY <2>3, <2>4 DEF SpreadInv
  <2> QED BY <2>1, <2>6, <2>7 DEF SpreadInv
<1>8. CASE ~(~ByDriver(msg) /\ msg.channel \in QueueChannels)
  <2>1. delivered' = Append(delivered, msg) /\ senderQ' = senderQ
    BY <1>8 DEF SendOk
  <2>2. IsInjective(delivered') /\ Range(delivered') = Range(delivered) \cup {msg}
    BY <1>1, <1>3, <1>4, <2>1, AppendDistinct DEF SpreadInv
  <2>3. ASSUME NEW x \in Msgs PROVE Placed(x)'
    <3>1. Placed(x) /\ (x = msg => x \notin Range(delivered) /\ x \in Upstream)
      BY <1>2, <1>3 DEF SpreadInv
    <3>2. InQueue(x)' <=> InQueue(x) BY <2>1 DEF InQueue
    <3> QED BY <1>5, <1>6, <2>2, <3>1, <3>2 DEF Placed, One
  <2> QED BY <2>1, <2>2, <2>3 DEF SpreadInv
<1> QED BY <1>7, <1>8

\* A sender thread takes a message from its queue, and delivers or drops it.
LEMMA SenderPlaced ==
  ASSUME PartsInv, HandedInv, SpreadInv, NEW c \in QueueChannels, Senders(c)
  PROVE  SpreadInv'
<1>0. /\ senderQ \in [QueueChannels -> Seq(Msgs)]
      /\ slot \in [QueueChannels -> Msgs \cup {NoMsg}]
      /\ delivered \in Seq(Msgs)
  BY DEF PartsInv, SendersInv, FateInv
<1>1. SenderNext(c) /\ Upstream' = Upstream
  BY DEF Senders, envVars, workVars, Upstream
<1>2. CASE TakeFromQueue(c)
  <2> DEFINE q == senderQ[c]
  <2>1. /\ q # <<>> /\ q \in Seq(Msgs) /\ slot[c] = NoMsg /\ IsInjective(q)
        /\ slot' = [slot EXCEPT ![c] = Head(q)]
        /\ senderQ' = [senderQ EXCEPT ![c] = Tail(q)]
        /\ UNCHANGED <<delivered, lost>>
    BY <1>0, <1>2 DEF TakeFromQueue, Idle, SpreadInv
  <2>2. /\ IsInjective(Tail(q)) /\ Range(Tail(q)) = Range(q) \ {Head(q)}
        /\ Head(q) \in Range(q) /\ Head(q) \in Msgs /\ Head(q).channel = c
    <3>1. 1 \in 1..Len(q) BY <2>1, LenProperties, EmptySeq
    <3>2. Head(q).channel = c BY <3>1 DEF HandedInv
    <3> HIDE DEF q
    <3> QED BY <2>1, <3>2, TailDistinct, HeadTailProperties
  <2>3. \A e \in QueueChannels :
          /\ slot'[e] = IF e = c THEN Head(q) ELSE slot[e]
          /\ senderQ'[e] = IF e = c THEN Tail(q) ELSE senderQ[e]
    BY <1>0, <2>1
  <2>4. ASSUME NEW x \in Msgs PROVE Placed(x)'
    <3> HIDE DEF q
    <3>1. InQueue(x)' <=> InQueue(x) /\ x # Head(q)
      <4>1. CASE x.channel = c BY <2>2, <2>3, <4>1 DEF InQueue, q
      <4>2. CASE x.channel # c BY <2>2, <2>3, <4>2 DEF InQueue
      <4> QED BY <4>1, <4>2
    <3>2. InSlot(x)' <=> InSlot(x) \/ x = Head(q)
      <4>1. CASE x.channel = c BY <2>1, <2>2, <2>3, <4>1, ConstantTypes DEF InSlot
      <4>2. CASE x.channel # c BY <2>2, <2>3, <4>2 DEF InSlot
      <4> QED BY <4>1, <4>2
    <3>3. x = Head(q) => InQueue(x) BY <2>2 DEF InQueue, q
    <3>4. delivered' = delivered /\ (IsLost(x)' <=> IsLost(x)) /\ (LostOnce(x) => LostOnce(x)')
      BY <2>1 DEF IsLost, LostOnce
    <3>5. Placed(x) BY DEF SpreadInv
    <3> QED BY <1>1, <3>1, <3>2, <3>3, <3>4, <3>5 DEF Placed, One
  <2>5. \A e \in QueueChannels : IsInjective(senderQ'[e])
    BY <2>2, <2>3 DEF SpreadInv
  <2> QED BY <2>1, <2>4, <2>5 DEF SpreadInv
<1>3. ASSUME slot[c] # NoMsg, slot' = [slot EXCEPT ![c] = NoMsg], senderQ' = senderQ,
             \/ delivered' = Append(delivered, slot[c]) /\ lost' = lost
             \/ Loses({slot[c]}) /\ delivered' = delivered
      PROVE  SpreadInv'
  <2> DEFINE m == slot[c]
  <2>1. m \in Msgs /\ m.channel = c /\ InSlot(m)
    BY <1>0, <1>3 DEF HandedInv, InSlot
  <2>2. m \notin Range(delivered) /\ ~IsLost(m)
    <3>1. Placed(m) BY <2>1 DEF SpreadInv
    <3> HIDE DEF m
    <3> QED BY <2>1, <3>1 DEF Placed, One
  <2>3. ASSUME NEW x \in Msgs
        PROVE  (InSlot(x)' <=> InSlot(x) /\ x # m) /\ (InQueue(x)' <=> InQueue(x))
    <3>1. \A e \in QueueChannels : slot'[e] = IF e = c THEN NoMsg ELSE slot[e]
      BY <1>0, <1>3
    <3>2. InQueue(x)' <=> InQueue(x) BY <1>3 DEF InQueue
    <3>3. x # NoMsg BY ConstantTypes
    <3>4. CASE x.channel = c BY <3>1, <3>2, <3>3, <3>4 DEF InSlot
    <3>5. CASE x.channel # c
      <4>1. x # m BY <2>1, <3>5
      <4> QED BY <3>1, <3>2, <3>5, <4>1 DEF InSlot
    <3> QED BY <3>4, <3>5
  <2> HIDE DEF m
  <2>4. CASE delivered' = Append(delivered, m) /\ lost' = lost
    <3>1. IsInjective(delivered') /\ Range(delivered') = Range(delivered) \cup {m}
      BY <1>0, <2>1, <2>2, <2>4, AppendDistinct DEF SpreadInv
    <3>2. ASSUME NEW x \in Msgs PROVE Placed(x)'
      <4>1. Placed(x) /\ (x = m => InSlot(x) /\ x \notin Range(delivered))
        BY <2>1, <2>2 DEF SpreadInv
      <4>2. (IsLost(x)' <=> IsLost(x)) /\ (LostOnce(x) => LostOnce(x)')
        BY <2>4 DEF IsLost, LostOnce
      <4> QED BY <1>1, <2>3, <3>1, <4>1, <4>2 DEF Placed, One
    <3> QED BY <1>3, <3>1, <3>2 DEF SpreadInv
  <2>5. CASE Loses({m}) /\ delivered' = delivered
    <3>1. ASSUME NEW x \in Msgs PROVE Placed(x)'
      <4>1. Placed(x) /\ (x = m => InSlot(x) /\ ~IsLost(x)) BY <2>1, <2>2 DEF SpreadInv
      <4>2. (IsLost(x)' <=> IsLost(x) \/ x = m) /\ LostOnce(x)'
        BY <2>5, <4>1, LossPlaces DEF Placed
      <4> QED BY <1>1, <2>3, <2>5, <4>1, <4>2 DEF Placed, One
    <3> QED BY <1>3, <2>5, <3>1 DEF SpreadInv
  <2>6. \/ delivered' = Append(delivered, m) /\ lost' = lost
        \/ Loses({m}) /\ delivered' = delivered
    BY <1>3, Zenon DEF m
  <2> QED BY <2>4, <2>5, <2>6
<1>4. ASSUME UNCHANGED <<handedVars, lost>> PROVE SpreadInv'
  <2>1. Moves({}) BY <1>1, <1>4, NoneLost DEF Moves
  <2>2. \A x \in Msgs : Placed(x)' BY <2>1, MovesPlaced DEF SpreadInv
  <2> QED BY <1>4, <2>2 DEF SpreadInv, handedVars
<1>5. CASE AttemptDelivers(c)
  BY <1>3, <1>5 DEF AttemptDelivers
<1>6. ASSUME NEW error \in Errors, NEW recorded \in BOOLEAN,
             AttemptFails(c, error, recorded)
      PROVE  SpreadInv'
  <2>1. /\ slot[c] # NoMsg /\ UNCHANGED <<delivered, senderQ>>
        /\ \/ UNCHANGED <<slot, lost>>
           \/ /\ slot' = [slot EXCEPT ![c] = NoMsg]
              /\ lost' = lost \cup {[msg |-> slot[c], why |-> "sender"]}
    BY <1>6 DEF AttemptFails, GiveUp
  <2> QED BY <1>3, <1>4, <2>1, OneLost DEF handedVars
<1>7. CASE FinishRecording(c)
  BY <1>4, <1>7 DEF FinishRecording, handedVars
<1> QED BY <1>1, <1>2, <1>5, <1>6, <1>7 DEF SenderNext

LEMMA SpreadInit == Init => SpreadInv
<1> SUFFICES ASSUME Init PROVE SpreadInv
  OBVIOUS
<1>1. /\ delivered = <<>> /\ lost = {} /\ unsent = Msgs
      /\ senderQ = [c \in QueueChannels |-> <<>>]
      /\ slot = [c \in QueueChannels |-> NoMsg]
  BY DEF Init, InitOutboundState, InitSenders
<1>2. ASSUME NEW x \in Msgs PROVE Placed(x)
  <2>1. x \in Upstream /\ x # NoMsg BY <1>1, ConstantTypes DEF Upstream
  <2>2. ~InSlot(x) /\ ~InQueue(x) /\ x \notin Range(delivered) /\ ~IsLost(x) /\ LostOnce(x)
    BY <1>1, <2>1 DEF InSlot, InQueue, Range, IsLost, LostOnce
  <2> QED BY <2>1, <2>2 DEF Placed, One
<1> QED BY <1>1, <1>2 DEF SpreadInv, IsInjective

LEMMA SpreadStep ==
  WorkInv /\ PartsInv /\ FlowInv /\ HandedInv /\ SpreadInv /\ [Next]_vars => SpreadInv'
<1> SUFFICES ASSUME WorkInv, PartsInv, FlowInv, HandedInv, SpreadInv, [Next]_vars
             PROVE  SpreadInv'
  OBVIOUS
<1>1. ASSUME NEW L, Moves(L) PROVE SpreadInv'
  <2>1. \A x \in Msgs : Placed(x)' BY <1>1, MovesPlaced DEF SpreadInv
  <2> QED BY <1>1, <2>1 DEF SpreadInv, Moves, handedVars
<1>2. CASE WorkerNext /\ ~SendOk
  BY <1>1, <1>2, WorkerMoves
<1>3. CASE SendOk
  BY <1>3, SentPlaced
<1>4. ASSUME NEW c \in QueueChannels, Senders(c) PROVE SpreadInv'
  BY <1>4, SenderPlaced
<1>5. ASSUME NEW m \in Msgs, Produce(m) PROVE SpreadInv'
  <2>1. /\ outbound \in Seq(Msgs) /\ m \in unsent /\ m \notin Range(outbound)
        /\ outbound' = Append(outbound, m) /\ unsent' = unsent \ {m}
        /\ UNCHANGED <<buffer, msg, held, lost, handedVars>>
    BY <1>5 DEF Produce, PartsInv, EnvInv, workVars, senderVars, handedVars, FlowInv
  <2>2. Range(outbound') = Range(outbound) \cup {m}
    BY <2>1, AppendDistinct DEF FlowInv
  <2>3. Upstream' = Upstream BY <2>1, <2>2 DEF Upstream
  <2>4. Moves({}) BY <2>1, <2>3, NoneLost DEF Moves
  <2> QED BY <1>1, <2>4
<1>6. CASE CloseMode \/ OpenMode \/ GateExpires \/ Second \/ UNCHANGED vars
  <2>1. UNCHANGED <<flowVars, lost, handedVars>>
    BY <1>6 DEF CloseMode, OpenMode, GateExpires, Second, ASecond, vars, flowVars,
                envVars, workVars, senderVars, handedVars
  <2>2. Upstream' = Upstream BY <2>1 DEF Upstream, flowVars
  <2>3. Moves({}) BY <2>1, <2>2, NoneLost DEF Moves
  <2> QED BY <1>1, <2>3
<1> QED BY <1>2, <1>3, <1>4, <1>5, <1>6 DEF Next

\* How often a message is in a sequence without repetitions.
LEMMA OccurrencesInjective ==
  ASSUME NEW s, IsInjective(s), NEW x
  PROVE  Occurrences(s, x) = One(x \in Range(s))
<1>1. CASE x \in Range(s)
  <2>1. PICK i \in DOMAIN s : s[i] = x BY <1>1 DEF Range
  <2>2. {j \in DOMAIN s : s[j] = x} = {i} BY <2>1 DEF IsInjective
  <2> QED BY <1>1, <2>2, FS_Singleton DEF Occurrences, One
<1>2. CASE x \notin Range(s)
  <2>1. {j \in DOMAIN s : s[j] = x} = {} BY <1>2 DEF Range
  <2> QED BY <1>2, <2>1, FS_EmptySet DEF Occurrences, One
<1> QED BY <1>1, <1>2

LEMMA LossCount ==
  ASSUME NEW x, LostOnce(x)
  PROVE  Cardinality(LossesOf(x)) = One(IsLost(x))
<1>1. CASE IsLost(x)
  <2>1. PICK k \in lost : k.msg = x BY <1>1 DEF IsLost
  <2>2. LossesOf(x) = {k} BY <2>1 DEF LostOnce, LossesOf
  <2> QED BY <1>1, <2>2, FS_Singleton DEF One
<1>2. CASE ~IsLost(x)
  <2>1. LossesOf(x) = {} BY <1>2 DEF IsLost, LossesOf
  <2> QED BY <1>2, <2>1, FS_EmptySet DEF One
<1> QED BY <1>1, <1>2

LEMMA FlowCount ==
  ASSUME FlowInv, NEW x \in Msgs
  PROVE  One(x \in Upstream) = One(x \in unsent) + One(x \in Range(outbound))
           + One(x \in Range(buffer)) + One(msg = x) + One(held = x)
<1>1. x # NoMsg BY ConstantTypes
<1>2. x \in Upstream <=> \/ x \in unsent \/ x \in Range(outbound) \/ x \in Range(buffer)
                        \/ msg = x \/ held = x
  BY <1>1 DEF Upstream
<1> QED BY <1>1, <1>2 DEF FlowInv, One

LEMMA InvOnePlace == WorkInv /\ PartsInv /\ FlowInv /\ HandedInv /\ SpreadInv => MessageInOnePlace
<1> SUFFICES ASSUME WorkInv, PartsInv, FlowInv, HandedInv, SpreadInv, NEW x \in Msgs
             PROVE
    LET inSenders == {c \in QueueChannels : x = slot[c]}
        inQueues  == {c \in QueueChannels : Occurrences(senderQ[c], x) > 0}
    IN  /\ \A c \in QueueChannels : Occurrences(senderQ[c], x) <= 1
        /\ One(x \in unsent) + Occurrences(outbound, x) + Occurrences(buffer, x)
             + One(msg = x) + One(held = x)
             + Cardinality(inSenders) + Cardinality(inQueues)
             + Occurrences(delivered, x) + Cardinality(LossesOf(x)) = 1
  BY DEF MessageInOnePlace
<1> DEFINE inSenders == {c \in QueueChannels : x = slot[c]}
           inQueues  == {c \in QueueChannels : Occurrences(senderQ[c], x) > 0}
<1>1. x # NoMsg /\ Placed(x) BY ConstantTypes DEF SpreadInv
<1>2. Cardinality(inSenders) = One(InSlot(x))
  <2>1. \A c \in inSenders : c = x.channel BY <1>1 DEF HandedInv
  <2>2. InSlot(x) => inSenders = {x.channel} BY <2>1 DEF InSlot
  <2>3. ~InSlot(x) => inSenders = {} BY <2>1 DEF InSlot
  <2> HIDE DEF inSenders
  <2> QED BY <2>2, <2>3, FS_Singleton, FS_EmptySet DEF One
<1>3. \A c \in QueueChannels : Occurrences(senderQ[c], x) = One(x \in Range(senderQ[c]))
  BY OccurrencesInjective DEF SpreadInv
<1>4. Cardinality(inQueues) = One(InQueue(x))
  <2>1. inQueues = {c \in QueueChannels : x \in Range(senderQ[c])}
    BY <1>3 DEF One
  <2>2. \A c \in QueueChannels : x \in Range(senderQ[c]) => c = x.channel
    BY LenProperties DEF HandedInv, Range, PartsInv, SendersInv
  <2>3. InQueue(x) => inQueues = {x.channel} BY <2>1, <2>2 DEF InQueue
  <2>4. ~InQueue(x) => inQueues = {} BY <2>1, <2>2 DEF InQueue
  <2> HIDE DEF inQueues
  <2> QED BY <2>3, <2>4, FS_Singleton, FS_EmptySet DEF One
<1>5. /\ Occurrences(outbound, x) = One(x \in Range(outbound))
      /\ Occurrences(buffer, x) = One(x \in Range(buffer))
      /\ Occurrences(delivered, x) = One(x \in Range(delivered))
  BY OccurrencesInjective DEF FlowInv, SpreadInv
<1>6. Cardinality(LossesOf(x)) = One(IsLost(x)) BY <1>1, LossCount DEF Placed
<1>7. \A c \in QueueChannels : Occurrences(senderQ[c], x) <= 1
  BY <1>3 DEF One
<1>8. \A P : One(P) \in {0, 1} BY DEF One
<1> HIDE DEF inSenders, inQueues
<1>9. One(x \in unsent) + Occurrences(outbound, x) + Occurrences(buffer, x)
             + One(msg = x) + One(held = x)
             + Cardinality(inSenders) + Cardinality(inQueues)
             + Occurrences(delivered, x) + Cardinality(LossesOf(x)) = 1
  BY <1>1, <1>2, <1>4, <1>5, <1>6, FlowCount DEF Placed, One
<1> QED BY <1>7, <1>9 DEF inSenders, inQueues

\* A message is in one place, and lost for one reason at most, over all that
\* run_dispatch, run_os_outbound_worker and run_buffered_sender_loop do with it:
\* deferred, replayed and put back, replaced by a later answer, refused by a
\* full queue, tried again or given up.
THEOREM OnePlaceCorrect == Spec => []MessageInOnePlace
<1> DEFINE I == WorkInv /\ PartsInv /\ FlowInv /\ HandedInv /\ SpreadInv
<1>1. Init => I
  BY WorkInit, PartsInit, FlowInit, HandedInit, SpreadInit
<1>2. I /\ [Next]_vars => I'
  BY WorkStep, PartsStep, FlowStep, HandedStep, SpreadStep
<1>3. I => MessageInOnePlace
  BY InvOnePlace
<1> HIDE DEF I
<1> QED BY <1>1, <1>2, <1>3, PTL DEF Spec

-----------------------------------------------------------------------------
(* The order of what stays.  t comes from a sequence s without repetitions *)
(* by changes around one place: up to p it has the elements of s where     *)
(* they were, behind it those of s from behind p, shifted by d; the rest   *)
(* is new.                                                                 *)

LEMMA OrderByShift ==
  ASSUME NEW S, NEW s \in Seq(S), NEW t \in Seq(S), IsInjective(s),
         NEW p \in Int, NEW d \in Int,
         \A k \in 1..Len(t) :
           \/ t[k] \notin Range(s)
           \/ k <= p /\ k \in 1..Len(s) /\ t[k] = s[k]
           \/ p < k /\ p < k - d /\ k - d \in 1..Len(s) /\ t[k] = s[k - d]
  PROVE  OrderKept(s, t)
<1>1. DOMAIN s = 1..Len(s) /\ DOMAIN t = 1..Len(t) /\ Len(s) \in Nat /\ Len(t) \in Nat
  BY LenProperties
<1>2. ASSUME NEW i \in 1..Len(s), NEW k \in 1..Len(t), t[k] = s[i]
      PROVE  (k <= p /\ i = k) \/ (p < k /\ p < k - d /\ i = k - d)
  <2>1. t[k] \in Range(s) BY <1>1, <1>2 DEF Range
  <2>2. \A a, b \in 1..Len(s) : s[a] = s[b] => a = b BY <1>1 DEF IsInjective
  <2>3. CASE k <= p /\ k \in 1..Len(s) /\ t[k] = s[k] BY <1>2, <2>2, <2>3
  <2>4. CASE p < k /\ p < k - d /\ k - d \in 1..Len(s) /\ t[k] = s[k - d]
    BY <1>2, <2>2, <2>4
  <2> QED BY <2>1, <2>3, <2>4
<1>3. ASSUME NEW i \in 1..Len(s), NEW j \in 1..Len(s), NEW k \in 1..Len(t), NEW l \in 1..Len(t),
             i < j, t[k] = s[i], t[l] = s[j]
      PROVE  k < l
  <2>1. (k <= p /\ i = k) \/ (p < k /\ p < k - d /\ i = k - d) BY <1>2, <1>3
  <2>2. (l <= p /\ j = l) \/ (p < l /\ p < l - d /\ j = l - d) BY <1>2, <1>3
  <2> QED BY <1>1, <1>3, <2>1, <2>2
<1> QED BY <1>1, <1>3 DEF OrderKept

LEMMA OrderSame ==
  ASSUME NEW S, NEW s \in Seq(S), IsInjective(s)
  PROVE  OrderKept(s, s)
<1>1. DOMAIN s \subseteq Nat BY LenProperties
<1> QED BY <1>1 DEF OrderKept, IsInjective

LEMMA OrderRemove ==
  ASSUME NEW S, NEW s \in Seq(S), IsInjective(s), NEW i \in 1..Len(s)
  PROVE  OrderKept(s, RemoveAt(s, i))
<1> DEFINE t == RemoveAt(s, i)
<1>1. t \in Seq(S) /\ Len(t) = Len(s) - 1 /\ Len(s) \in Nat
  BY RemoveAtFacts, LenProperties
<1>2. \A k \in 1..Len(s) - 1 : t[k] = IF k < i THEN s[k] ELSE s[k + 1]
  BY RemoveAtElements
<1> HIDE DEF t
<1>3. ASSUME NEW k \in 1..Len(t)
      PROVE  \/ k <= i - 1 /\ k \in 1..Len(s) /\ t[k] = s[k]
             \/ i - 1 < k /\ i - 1 < k - (-1) /\ k - (-1) \in 1..Len(s) /\ t[k] = s[k - (-1)]
  <2>1. k + 1 = k - (-1) /\ k \in 1..Len(s) - 1 BY <1>1
  <2> QED BY <1>1, <1>2, <2>1
<1>4. i - 1 \in Int /\ -1 \in Int OBVIOUS
<1>5. OrderKept(s, t) BY <1>1, <1>3, <1>4, OrderByShift
<1> QED BY <1>5 DEF t

LEMMA OrderPush ==
  ASSUME NEW s \in Seq(Prims), Len(s) <= BufferMax, IsInjective(s),
         NEW m \in Prims \ Range(s)
  PROVE  OrderKept(s, TryPush(s, m).buffer)
<1> DEFINE same == SameReply(s, m)
           weak == {i \in DOMAIN s : Supplemental(s[i])}
           t == TryPush(s, m).buffer
<1>1. Len(s) \in Nat /\ BufferMax \in Nat /\ DOMAIN s = 1..Len(s)
      /\ \A i \in DOMAIN s : s[i] \in Prims
  BY LenProperties, ElementOfSeq, ConstantTypes
<1>2. weak = {} BY <1>1 DEF Prims, Primary, Supplemental
<1>3. t \in Seq(Prims) BY PushFacts
<1>4. \A k \in 1..Len(t) : t[k] \notin Range(s) \/ (k <= Len(s) /\ k \in 1..Len(s) /\ t[k] = s[k])
  <2>1. CASE same # {}
    <3>1. same \subseteq DOMAIN s /\ same \subseteq Nat
      BY <1>1 DEF SameReply
    <3>2. First(same) \in DOMAIN s
      <4> HIDE DEF same
      <4>1. First(same) \in same BY <2>1, <3>1, FirstExists
      <4> QED BY <3>1, <4>1
    <3> DEFINE j == First(same)
    <3>3. t = [s EXCEPT ![j] = m] BY <2>1 DEF TryPush, ReplaceAt
    <3> HIDE DEF j, t
    <3>4. j \in 1..Len(s) BY <1>1, <3>2 DEF j
    <3>5. Len(t) = Len(s) /\ \A k \in 1..Len(s) : t[k] = IF k = j THEN m ELSE s[k]
      BY <3>3, <3>4, ExceptSeq
    <3> QED BY <1>1, <3>5
  <2>2. CASE same = {} /\ Len(s) < BufferMax
    <3>1. TryPush(s, m) = [buffer |-> Append(s, m), out |-> {}]
      BY <1>1, <2>2 DEF TryPush
    <3>2. t = Append(s, m) BY <3>1
    <3> HIDE DEF t
    <3>3. /\ Len(t) = Len(s) + 1 /\ \A k \in 1..Len(s) : t[k] = s[k]
          /\ t[Len(s) + 1] = m
      BY <3>2, AppendProperties
    <3>4. \A k \in 1..Len(t) : k \in 1..Len(s) \/ k = Len(s) + 1 BY <1>1, <3>3
    <3> QED BY <1>1, <3>3, <3>4
  <2>3. CASE same = {} /\ ~(Len(s) < BufferMax)
    <3>1. t = s BY <1>1, <1>2, <2>3 DEF TryPush
    <3> QED BY <1>1, <3>1
  <2> QED BY <2>1, <2>2, <2>3
<1> HIDE DEF t
<1>5. OrderKept(s, t)
  <2>1. 0 \in Int /\ Len(s) \in Int BY <1>1
  <2> QED BY <1>3, <1>4, <2>1, OrderByShift
<1> QED BY <1>5 DEF t

\* An element that leaves its place or takes one.
LEMMA MiddleElements ==
  ASSUME NEW S, NEW a \in Seq(S), NEW b \in Seq(S), NEW m \in S
  PROVE  /\ a \o <<m>> \o b \in Seq(S) /\ a \o b \in Seq(S)
         /\ Len(a \o b) = Len(a) + Len(b)
         /\ Len(a \o <<m>> \o b) = Len(a) + Len(b) + 1
         /\ Len(a) \in Nat /\ Len(b) \in Nat
         /\ \A k \in 1..Len(a) + Len(b) + 1 :
              (a \o <<m>> \o b)[k] = IF k <= Len(a) THEN (a \o b)[k]
                                     ELSE IF k = Len(a) + 1 THEN m ELSE (a \o b)[k - 1]
<1> DEFINE am == a \o <<m>>
           u == a \o b
           v == am \o b
<1>1. Len(a) \in Nat /\ Len(b) \in Nat BY LenProperties
<1>2. /\ u \in Seq(S) /\ Len(u) = Len(a) + Len(b)
      /\ \A k \in 1..Len(a) + Len(b) : u[k] = IF k <= Len(a) THEN a[k] ELSE b[k - Len(a)]
  BY ConcatProperties
<1>3. <<m>> \in Seq(S) /\ Len(<<m>>) = 1 /\ <<m>>[1] = m OBVIOUS
<1>4. /\ am \in Seq(S) /\ Len(am) = Len(a) + 1
      /\ \A k \in 1..Len(a) + 1 : am[k] = IF k <= Len(a) THEN a[k] ELSE <<m>>[k - Len(a)]
  BY <1>3, ConcatProperties
<1>5. \A k \in 1..Len(a) + 1 : am[k] = IF k <= Len(a) THEN a[k] ELSE m
  <2> HIDE DEF am
  <2>1. \A k \in 1..Len(a) + 1 : ~(k <= Len(a)) => k - Len(a) = 1 BY <1>1
  <2> QED BY <1>3, <1>4, <2>1
<1>6. /\ v \in Seq(S) /\ Len(v) = Len(am) + Len(b)
      /\ \A k \in 1..Len(am) + Len(b) : v[k] = IF k <= Len(am) THEN am[k] ELSE b[k - Len(am)]
  <2>1. am \in Seq(S) /\ b \in Seq(S) BY <1>4
  <2> HIDE DEF am
  <2>2. /\ am \o b \in Seq(S) /\ Len(am \o b) = Len(am) + Len(b)
        /\ \A k \in 1..Len(am) + Len(b) :
             (am \o b)[k] = IF k <= Len(am) THEN am[k] ELSE b[k - Len(am)]
    BY <2>1, ConcatProperties
  <2> QED BY <2>2, Zenon
<1>7. ASSUME NEW k \in 1..Len(a) + Len(b) + 1
      PROVE  v[k] = IF k <= Len(a) THEN u[k] ELSE IF k = Len(a) + 1 THEN m ELSE u[k - 1]
  <2> HIDE DEF am, u, v
  <2>0. k \in 1..Len(am) + Len(b) BY <1>1, <1>4
  <2>1. CASE k <= Len(a)
    <3>1. k \in 1..Len(a) + 1 /\ k \in 1..Len(a) + Len(b) /\ k <= Len(am) BY <1>1, <1>4, <2>1
    <3> QED BY <1>2, <1>5, <1>6, <2>0, <2>1, <3>1
  <2>2. CASE k = Len(a) + 1
    <3>1. k \in 1..Len(a) + 1 /\ ~(k <= Len(a)) /\ k <= Len(am) BY <1>1, <1>4, <2>2
    <3> QED BY <1>5, <1>6, <2>0, <2>2, <3>1
  <2>3. CASE k > Len(a) + 1
    <3>1. /\ k - 1 \in 1..Len(a) + Len(b) /\ ~(k - 1 <= Len(a)) /\ ~(k <= Len(am))
          /\ (k - 1) - Len(a) = k - Len(am) /\ ~(k <= Len(a)) /\ k # Len(a) + 1
      BY <1>1, <1>4, <2>3
    <3> QED BY <1>2, <1>6, <2>0, <3>1
  <2> QED BY <1>1, <2>1, <2>2, <2>3
<1>8. Len(v) = Len(a) + Len(b) + 1
  <2> HIDE DEF am, u, v
  <2> QED BY <1>1, <1>4, <1>6
<1> QED BY <1>1, <1>2, <1>6, <1>7, <1>8, Zenon

LEMMA OrderMiddle ==
  ASSUME NEW S, NEW a \in Seq(S), NEW b \in Seq(S), NEW m \in S
  PROVE  /\ IsInjective(a \o <<m>> \o b) => OrderKept(a \o <<m>> \o b, a \o b)
         /\ IsInjective(a \o b) /\ m \notin Range(a \o b) => OrderKept(a \o b, a \o <<m>> \o b)
<1> DEFINE u == a \o b
           v == a \o <<m>> \o b
<1>1. /\ u \in Seq(S) /\ v \in Seq(S) /\ Len(a) \in Nat /\ Len(b) \in Nat
      /\ Len(u) = Len(a) + Len(b) /\ Len(v) = Len(a) + Len(b) + 1
      /\ \A k \in 1..Len(a) + Len(b) + 1 :
              v[k] = IF k <= Len(a) THEN u[k] ELSE IF k = Len(a) + 1 THEN m ELSE u[k - 1]
  BY MiddleElements
<1> HIDE DEF u, v
<1>2. ASSUME IsInjective(v) PROVE OrderKept(v, u)
  <2>1. ASSUME NEW k \in 1..Len(u)
        PROVE  \/ k <= Len(a) /\ k \in 1..Len(v) /\ u[k] = v[k]
               \/ /\ Len(a) < k /\ Len(a) < k - (-1) /\ k - (-1) \in 1..Len(v)
                  /\ u[k] = v[k - (-1)]
    <3>1. k - (-1) = k + 1 /\ (k + 1) - 1 = k BY <1>1
    <3>2. CASE k <= Len(a) BY <1>1, <3>2
    <3>3. CASE ~(k <= Len(a))
      <4>1. k + 1 \in 1..Len(a) + Len(b) + 1 /\ ~(k + 1 <= Len(a)) /\ k + 1 # Len(a) + 1
            /\ Len(a) < k /\ Len(a) < k + 1
        BY <1>1, <3>3
      <4>2. v[k + 1] = u[k] BY <1>1, <3>1, <4>1
      <4> QED BY <1>1, <3>1, <4>1, <4>2
    <3> QED BY <3>2, <3>3
  <2>2. Len(a) \in Int /\ -1 \in Int BY <1>1
  <2> QED BY <1>1, <1>2, <2>1, <2>2, OrderByShift
<1>3. ASSUME IsInjective(u), m \notin Range(u) PROVE OrderKept(u, v)
  <2>1. ASSUME NEW k \in 1..Len(v)
        PROVE  \/ v[k] \notin Range(u)
               \/ k <= Len(a) /\ k \in 1..Len(u) /\ v[k] = u[k]
               \/ Len(a) < k /\ Len(a) < k - 1 /\ k - 1 \in 1..Len(u) /\ v[k] = u[k - 1]
    BY <1>1, <1>3
  <2>2. Len(a) \in Int /\ 1 \in Int BY <1>1
  <2> QED BY <1>1, <1>3, <2>1, <2>2, OrderByShift
<1> QED BY <1>2, <1>3 DEF u, v

-----------------------------------------------------------------------------
(* The deferred messages.                                                  *)

LEMMA DeferredDistinct ==
  ASSUME WorkInv, FlowInv
  PROVE  Deferred \in Seq(Prims) /\ IsInjective(Deferred)
<1>1. CASE pc = "send" /\ cursor > 0
  <2>1. /\ buffer \in Seq(Prims) /\ msg \in Prims \ Range(buffer)
        /\ cursor \in 1..Len(buffer) + 1
    BY <1>1, LenProperties, ConstantTypes DEF WorkInv, BufferInv, PlaceInv, HandInv, FlowInv
  <2>2. Deferred = InsertAt(buffer, cursor, msg) BY <1>1 DEF Deferred
  <2> QED BY <2>1, <2>2, InsertAtDistinct, InsertAtFacts DEF FlowInv
<1>2. CASE ~(pc = "send" /\ cursor > 0)
  BY <1>2 DEF Deferred, WorkInv, BufferInv, FlowInv
<1> QED BY <1>1, <1>2

\* A message taken from the buffer, or put back into it, has not moved.
LEMMA TakenInPlace ==
  ASSUME NEW S, NEW s \in Seq(S), NEW i \in 1..Len(s)
  PROVE  InsertAt(RemoveAt(s, i), i, s[i]) = s
<1> DEFINE r == RemoveAt(s, i)
           e == s[i]
           t == InsertAt(r, i, e)
<1>1. Len(s) \in Nat /\ i \in Nat /\ 1 <= i /\ i <= Len(s) /\ e \in S
  BY LenProperties, ElementOfSeq
<1>2. r \in Seq(S) /\ Len(r) = Len(s) - 1
      /\ \A k \in 1..Len(s) - 1 : r[k] = IF k < i THEN s[k] ELSE s[k + 1]
  BY RemoveAtFacts, RemoveAtElements
<1>3. /\ t \in Seq(S) /\ Len(t) = Len(r) + 1
      /\ \A k \in 1..Len(r) + 1 : t[k] = IF k < i THEN r[k] ELSE IF k = i THEN e ELSE r[k - 1]
  <2> HIDE DEF r, e
  <2>1. i \in 1..Len(r) + 1 BY <1>1, <1>2
  <2> QED BY <1>1, <1>2, <2>1, InsertAtFacts, InsertAtElements
<1> HIDE DEF r, t
<1>4. Len(t) = Len(s) BY <1>1, <1>2, <1>3
<1>5. ASSUME NEW k \in 1..Len(t) PROVE t[k] = s[k]
  <2>1. CASE k < i
    <3>1. k \in 1..Len(s) - 1 /\ k \in 1..Len(r) + 1 BY <1>1, <1>2, <1>4, <2>1
    <3> QED BY <1>2, <1>3, <2>1, <3>1
  <2>2. CASE k = i
    <3>1. k \in 1..Len(r) + 1 /\ ~(k < i) BY <1>1, <1>2, <1>4, <2>2
    <3> QED BY <1>3, <2>2, <3>1
  <2>3. CASE k > i
    <3>1. k \in 1..Len(r) + 1 /\ ~(k < i) /\ k # i /\ k - 1 \in 1..Len(s) - 1 /\ ~(k - 1 < i)
          /\ (k - 1) + 1 = k
      BY <1>1, <1>2, <1>4, <2>3
    <3> QED BY <1>2, <1>3, <3>1
  <2> QED BY <1>1, <2>1, <2>2, <2>3
<1>6. t = s BY <1>3, <1>4, <1>5, SeqEqual
<1> QED BY <1>6 DEF r, t

\* A replayed message that was sent leaves the others where they are.
LEMMA SentOrder ==
  ASSUME NEW S, NEW s \in Seq(S), IsInjective(s), NEW i \in 1..Len(s) + 1, NEW e \in S \ Range(s)
  PROVE  OrderKept(InsertAt(s, i, e), s)
<1> DEFINE t == InsertAt(s, i, e)
<1>1. i \in Nat /\ 1 <= i /\ i <= Len(s) + 1 /\ Len(s) \in Nat BY LenProperties
<1>2. t \in Seq(S) /\ Len(t) = Len(s) + 1 /\ IsInjective(t)
  BY InsertAtFacts, InsertAtDistinct
<1>3. \A k \in 1..Len(s) + 1 :
        t[k] = IF k < i THEN s[k] ELSE IF k = i THEN e ELSE s[k - 1]
  BY InsertAtElements
<1> HIDE DEF t
<1>4. ASSUME NEW k \in 1..Len(s)
      PROVE  \/ k <= i - 1 /\ k \in 1..Len(t) /\ s[k] = t[k]
             \/ i - 1 < k /\ i - 1 < k - (-1) /\ k - (-1) \in 1..Len(t) /\ s[k] = t[k - (-1)]
  <2>1. k - (-1) = k + 1 /\ (k + 1) - 1 = k BY <1>1
  <2>2. CASE k < i BY <1>1, <1>2, <1>3, <2>2
  <2>3. CASE ~(k < i)
    <3>1. k + 1 \in 1..Len(s) + 1 /\ ~(k + 1 < i) /\ k + 1 # i BY <1>1, <2>3
    <3>2. t[k + 1] = s[k] BY <1>3, <2>1, <3>1
    <3> QED BY <1>1, <1>2, <2>1, <2>3, <3>1, <3>2
  <2> QED BY <2>2, <2>3
<1>5. i - 1 \in Int /\ -1 \in Int BY <1>1
<1>6. OrderKept(t, s) BY <1>2, <1>4, <1>5, OrderByShift
<1> QED BY <1>6 DEF t

\* A message deferred from outside the buffer goes to its end, or to the place
\* of the one it replaces.
LEMMA DeferOrder ==
  ASSUME WorkInv, FlowInv, NEW y \in Prims, y \notin Range(buffer), Defer(y)
  PROVE  OrderKept(buffer, buffer') /\ pc' # "send"
<1>0. buffer \in Seq(Prims) /\ Len(buffer) <= BufferMax /\ IsInjective(buffer)
  BY DEF WorkInv, BufferInv, FlowInv
<1>1. CASE Refused(buffer, y) /\ WaitsWhenFull(y)
  BY <1>0, <1>1, OrderSame DEF Defer, StartScan
<1>2. CASE ~(Refused(buffer, y) /\ WaitsWhenFull(y))
  <2>1. buffer' = TryPush(buffer, y).buffer /\ pc' = "tick" BY <1>2 DEF Defer
  <2> QED BY <1>0, <2>1, OrderPush
<1> QED BY <1>1, <1>2

LEMMA OutcomeOrder ==
  ASSUME WorkInv, FlowInv, pc = "send",
         (DeferredOutcome /\ msg \in Prims) \/ FailedOutcome \/ Sent
  PROVE  OrderKept(Deferred, Deferred')
<1>0. /\ Deferred \in Seq(Prims) /\ IsInjective(Deferred) /\ cursor \in Nat
      /\ msg \in Msgs /\ msg \notin Range(buffer)
  BY DeferredDistinct, ConstantTypes DEF WorkInv, PlaceInv, HandInv, FlowInv
<1>1. CASE cursor = 0
  <2>1. Deferred = buffer BY <1>1 DEF Deferred
  <2>2. CASE DeferredOutcome /\ msg \in Prims
    <3>1. Defer(msg) BY <1>1, <2>2 DEF DeferredOutcome, Live
    <3>2. OrderKept(buffer, buffer') /\ pc' # "send" BY <1>0, <2>2, <3>1, DeferOrder
    <3>3. Deferred' = buffer' BY <3>2 DEF Deferred
    <3> QED BY <2>1, <3>2, <3>3
  <2>3. CASE FailedOutcome \/ Sent
    <3>1. buffer' = buffer /\ pc' = "tick" BY <1>1, <2>3 DEF FailedOutcome, Sent, Live
    <3>2. Deferred' = Deferred BY <2>1, <3>1 DEF Deferred
    <3> QED BY <1>0, <3>2, OrderSame
  <2> QED BY <2>2, <2>3
<1>2. CASE cursor # 0
  <2>1. Deferred = InsertAt(buffer, cursor, msg) BY <1>0, <1>2 DEF Deferred
  <2>2. CASE PutBack
    <3>1. Deferred' = Deferred BY <2>1, <2>2 DEF PutBack, Deferred
    <3> QED BY <1>0, <3>1, OrderSame
  <2>3. CASE Sent
    <3>1. buffer' = buffer /\ pc' = "scan" BY <1>2, <2>3 DEF Sent, Live
    <3>2. Deferred' = buffer BY <3>1 DEF Deferred
    <3>3. /\ buffer \in Seq(Prims) /\ msg \in Prims /\ cursor \in 1..Len(buffer) + 1
          /\ IsInjective(buffer)
      BY <1>0, <1>2, LenProperties DEF WorkInv, BufferInv, PlaceInv, HandInv, FlowInv
    <3> QED BY <1>0, <2>1, <3>2, <3>3, SentOrder
  <2> QED BY <1>2, <2>2, <2>3 DEF DeferredOutcome, FailedOutcome, Live
<1> QED BY <1>1, <1>2

LEMMA DeferredOrderStep ==
  ASSUME WorkInv, PartsInv, FlowInv, [Next]_vars
  PROVE  OrderKept(Deferred, Deferred')
<1>0. /\ Deferred \in Seq(Prims) /\ IsInjective(Deferred)
      /\ buffer \in Seq(Prims) /\ Len(buffer) <= BufferMax /\ IsInjective(buffer)
  BY DeferredDistinct DEF WorkInv, BufferInv, FlowInv
<1>u. Deferred' = Deferred => OrderKept(Deferred, Deferred')
  BY <1>0, OrderSame
<1>1. ASSUME buffer' = buffer, pc # "send", pc' # "send" PROVE Deferred' = Deferred
  BY <1>1 DEF Deferred
<1>2. ASSUME UNCHANGED <<buffer, pc, cursor, msg>> PROVE Deferred' = Deferred
  BY <1>2 DEF Deferred
<1>3. CASE BeginTick \/ ScanSkips \/ ScanStops \/ EndTickReplay \/ ReceiveNothing \/ ReceiveDropped
  BY <1>u, <1>1, <1>3 DEF BeginTick, ScanSkips, ScanStops, EndTickReplay, ReceiveNothing,
                          ReceiveDropped, Arrival, StartScan
<1>4. CASE ScanTakes
  <2>1. /\ cursor \in 1..Len(buffer) /\ pc = "scan" /\ pc' = "send" /\ cursor' = cursor
        /\ cursor > 0 /\ buffer' = RemoveAt(buffer, cursor) /\ msg' = buffer[cursor]
    BY <1>0, <1>4, LenProperties DEF ScanTakes, WorkInv, PlaceInv
  <2>2. Deferred' = InsertAt(RemoveAt(buffer, cursor), cursor, buffer[cursor])
    BY <2>1 DEF Deferred
  <2>3. Deferred = buffer BY <2>1 DEF Deferred
  <2> QED BY <1>0, <1>u, <2>1, <2>2, <2>3, TakenInPlace
<1>5. CASE EndFullReplay
  <2>1. /\ held \in Prims \ Range(buffer) /\ pc = "scanned" /\ pc' = "tick"
        /\ buffer' = TryPush(buffer, held).buffer
    BY <1>5 DEF EndFullReplay, WorkInv, PlaceInv, FlowInv
  <2>2. Deferred = buffer /\ Deferred' = buffer' BY <2>1 DEF Deferred
  <2> QED BY <1>0, <2>1, <2>2, OrderPush
<1>6. CASE ReceiveDeferred
  <2>1. PICK m \in Msgs : Arrival(m) /\ Primary(m) /\ Defer(m)
    BY <1>6 DEF ReceiveDeferred
  <2>2. m \in Prims /\ m \notin Range(buffer) /\ pc = "recv"
    BY <2>1, ArrivalMoves DEF Prims, FlowInv
  <2>3. OrderKept(buffer, buffer') /\ pc' # "send" BY <2>1, <2>2, DeferOrder
  <2>4. Deferred = buffer /\ Deferred' = buffer' BY <2>2, <2>3 DEF Deferred
  <2> QED BY <2>3, <2>4
<1>7. CASE ReceiveSends
  <2>1. pc = "recv" /\ cursor' = 0 /\ buffer' = buffer BY <1>7 DEF ReceiveSends, Arrival
  <2>2. Deferred' = Deferred BY <2>1 DEF Deferred
  <2> QED BY <1>u, <2>2
<1>8. CASE SendRetries
  BY <1>u, <1>2, <1>8 DEF SendRetries
<1>9. CASE SendRejected \/ SendDeferred
  BY <1>9, OutcomeOrder DEF SendRejected, SendDeferred, MayAttempt, Prims, WorkInv, HandInv
<1>10. CASE SendNoSink \/ SendFails \/ SendOk
  BY <1>10, OutcomeOrder DEF SendNoSink, SendFails, SendOk, MayAttempt
<1>11. CASE \/ \E c \in QueueChannels : Senders(c)
            \/ \E m \in Msgs : Produce(m)
            \/ CloseMode \/ OpenMode \/ GateExpires \/ Second \/ UNCHANGED vars
  <2>1. UNCHANGED <<buffer, pc, cursor, msg>>
    BY <1>11 DEF Senders, Produce, CloseMode, OpenMode, GateExpires, Second, vars, workVars
  <2> QED BY <1>u, <1>2, <2>1
<1> QED BY <1>3, <1>4, <1>5, <1>6, <1>7, <1>8, <1>9, <1>10, <1>11 DEF Next, WorkerNext

\* The order of deferred messages never changes: replay_cooldown_buffer_with
\* puts back what it could not send where it was, the one being replayed keeps
\* its place in between, and try_push_buffered_msg replaces in place.
THEOREM DeferredOrderCorrect == Spec => DeferredOrderKept
<1>1. Init => WorkInv /\ PartsInv /\ FlowInv
  BY WorkInit, PartsInit, FlowInit
<1>2. WorkInv /\ PartsInv /\ FlowInv /\ [Next]_vars => (WorkInv /\ PartsInv /\ FlowInv)'
  BY WorkStep, PartsStep, FlowStep
<1>3. WorkInv /\ PartsInv /\ FlowInv /\ [Next]_vars => [OrderKept(Deferred, Deferred')]_vars
  BY DeferredOrderStep
<1> QED BY <1>1, <1>2, <1>3, PTL DEF Spec, DeferredOrderKept

-----------------------------------------------------------------------------
(* What a sender was handed.                                               *)

Regrouped(a, b, c) == (a \o b) \o c = a \o (b \o c)

LEMMA Associative == \A S : \A a, b, c \in Seq(S) : Regrouped(a, b, c)
BY SMT DEF Regrouped

LEMMA ConcatDistinct ==
  ASSUME NEW S, NEW a \in Seq(S), NEW b \in Seq(S), IsInjective(a), IsInjective(b),
         Range(a) \cap Range(b) = {}
  PROVE  /\ a \o b \in Seq(S) /\ IsInjective(a \o b)
         /\ Range(a \o b) = Range(a) \cup Range(b)
<1> DEFINE u == a \o b
<1>1. /\ u \in Seq(S) /\ Len(u) = Len(a) + Len(b)
      /\ \A k \in 1..Len(a) + Len(b) : u[k] = IF k <= Len(a) THEN a[k] ELSE b[k - Len(a)]
  BY ConcatProperties
<1>2. /\ DOMAIN a = 1..Len(a) /\ DOMAIN b = 1..Len(b) /\ DOMAIN u = 1..Len(u)
      /\ Len(a) \in Nat /\ Len(b) \in Nat
  BY <1>1, LenProperties
<1> HIDE DEF u
<1>3. ASSUME NEW k \in 1..Len(u)
      PROVE  \/ k \in 1..Len(a) /\ u[k] = a[k] /\ u[k] \in Range(a)
             \/ k - Len(a) \in 1..Len(b) /\ u[k] = b[k - Len(a)] /\ u[k] \in Range(b)
  <2>1. k \in 1..Len(a) + Len(b) BY <1>1
  <2>2. CASE k <= Len(a)
    <3>1. k \in 1..Len(a) /\ u[k] = a[k] BY <1>1, <1>2, <2>1, <2>2
    <3> QED BY <1>2, <3>1 DEF Range
  <2>3. CASE ~(k <= Len(a))
    <3>1. k - Len(a) \in 1..Len(b) /\ u[k] = b[k - Len(a)] BY <1>1, <1>2, <2>1, <2>3
    <3> QED BY <1>2, <3>1 DEF Range
  <2> QED BY <2>2, <2>3
<1>4. IsInjective(u)
  <2>1. ASSUME NEW k \in 1..Len(u), NEW l \in 1..Len(u), u[k] = u[l] PROVE k = l
    <3>1. CASE k \in 1..Len(a) /\ u[k] = a[k] /\ u[k] \in Range(a)
      <4>1. l \in 1..Len(a) /\ u[l] = a[l] BY <1>3, <2>1, <3>1
      <4> QED BY <1>2, <2>1, <3>1, <4>1 DEF IsInjective
    <3>2. CASE k - Len(a) \in 1..Len(b) /\ u[k] = b[k - Len(a)] /\ u[k] \in Range(b)
      <4>1. l - Len(a) \in 1..Len(b) /\ u[l] = b[l - Len(a)] BY <1>3, <2>1, <3>2
      <4>2. k - Len(a) = l - Len(a) BY <1>2, <2>1, <3>2, <4>1 DEF IsInjective
      <4> QED BY <1>1, <1>2, <4>2
    <3> QED BY <1>3, <3>1, <3>2
  <2> QED BY <1>2, <2>1 DEF IsInjective
<1>5. Range(u) \subseteq Range(a) \cup Range(b) BY <1>2, <1>3 DEF Range
<1>6. ASSUME NEW i \in 1..Len(a) PROVE a[i] \in Range(u)
  <2>1. i \in 1..Len(u) /\ u[i] = a[i] BY <1>1, <1>2
  <2> QED BY <1>2, <2>1 DEF Range
<1>7. ASSUME NEW i \in 1..Len(b) PROVE b[i] \in Range(u)
  <2>1. i + Len(a) \in 1..Len(u) /\ ~(i + Len(a) <= Len(a)) /\ (i + Len(a)) - Len(a) = i
    BY <1>1, <1>2
  <2>2. u[i + Len(a)] = b[i] BY <1>1, <2>1
  <2> QED BY <1>2, <2>1, <2>2 DEF Range
<1>8. Range(a) \cup Range(b) \subseteq Range(u) BY <1>2, <1>6, <1>7 DEF Range
<1> QED BY <1>1, <1>4, <1>5, <1>8 DEF u

InSender(c) == IF slot[c] = NoMsg THEN <<>> ELSE <<slot[c]>>

LEMMA HandedAs == \A c : HandedTo(c) = delivered \o InSender(c) \o senderQ[c]
BY DEF HandedTo, InSender

\* The parts of what a sender was handed have nothing in common, and nothing
\* of it is upstream.
LEMMA HandedDistinct ==
  ASSUME PartsInv, HandedInv, SpreadInv, NEW c \in QueueChannels
  PROVE  /\ delivered \in Seq(Msgs) /\ InSender(c) \in Seq(Msgs) /\ senderQ[c] \in Seq(Msgs)
         /\ IsInjective(HandedTo(c))
         /\ \A x \in Msgs :
              x \in Range(HandedTo(c)) <=>
                \/ x \in Range(delivered) \/ x = slot[c] \/ x \in Range(senderQ[c])
         /\ \A x \in Range(HandedTo(c)) : x \notin Upstream
<1> DEFINE d == delivered
           i == InSender(c)
           q == senderQ[c]
<1>1. d \in Seq(Msgs) /\ q \in Seq(Msgs) /\ slot[c] \in Msgs \cup {NoMsg}
      /\ IsInjective(d) /\ IsInjective(q)
  BY DEF PartsInv, FateInv, SendersInv, SpreadInv
<1>2. i \in Seq(Msgs) /\ IsInjective(i) /\ Range(i) = {slot[c]} \ {NoMsg}
  <2>1. CASE slot[c] = NoMsg
    <3>1. i = <<>> BY <2>1 DEF InSender
    <3> QED BY <2>1, <3>1 DEF IsInjective, Range
  <2>2. CASE slot[c] # NoMsg
    <3>1. i = <<slot[c]>> /\ slot[c] \in Msgs BY <1>1, <2>2 DEF InSender
    <3>2. DOMAIN <<slot[c]>> = {1} /\ <<slot[c]>>[1] = slot[c] OBVIOUS
    <3> QED BY <2>2, <3>1, <3>2 DEF IsInjective, Range
  <2> QED BY <2>1, <2>2
<1>3. ASSUME NEW x \in Msgs
      PROVE  /\ x \in Range(i) <=> InSlot(x) /\ x.channel = c
             /\ x \in Range(q) <=> InQueue(x) /\ x.channel = c
             /\ x \in Range(i) => x \notin Range(d) /\ x \notin Range(q) /\ x \notin Upstream
             /\ x \in Range(q) => x \notin Range(d) /\ x \notin Upstream
             /\ x \in Range(d) => x \notin Upstream
  <2>1. x \in Range(i) <=> InSlot(x) /\ x.channel = c
    BY <1>2, ConstantTypes DEF InSlot, HandedInv
  <2>2. x \in Range(q) => x.channel = c
    BY <1>1, LenProperties DEF Range, HandedInv
  <2>3. x \in Range(q) <=> InQueue(x) /\ x.channel = c
    BY <2>2 DEF InQueue
  <2>4. Placed(x) BY DEF SpreadInv
  <2> HIDE DEF i, d, q
  <2>5. /\ InSlot(x) => ~InQueue(x) /\ x \notin Range(d) /\ x \notin Upstream
        /\ InQueue(x) => x \notin Range(d) /\ x \notin Upstream
        /\ x \in Range(d) => x \notin Upstream
    BY <2>4 DEF Placed, One, d
  <2> QED BY <2>1, <2>3, <2>5
<1>4. Range(d) \subseteq Msgs /\ Range(i) \subseteq Msgs /\ Range(q) \subseteq Msgs
  BY <1>1, <1>2, ElementOfSeq, LenProperties DEF Range
<1> HIDE DEF d, i, q
<1>5. Range(d) \cap Range(i) = {} BY <1>3, <1>4
<1>6. d \o i \in Seq(Msgs) /\ IsInjective(d \o i) /\ Range(d \o i) = Range(d) \cup Range(i)
  BY <1>1, <1>2, <1>5, ConcatDistinct
<1> DEFINE di == d \o i
<1>7. di \in Seq(Msgs) /\ IsInjective(di) /\ Range(di) \cap Range(q) = {}
  BY <1>3, <1>4, <1>6
<1>8. IsInjective(di \o q) /\ Range(di \o q) = Range(d) \cup Range(i) \cup Range(q)
  <2>1. Range(di) = Range(d) \cup Range(i) BY <1>6
  <2> HIDE DEF di
  <2> QED BY <1>1, <1>7, <2>1, ConcatDistinct
<1>9. HandedTo(c) = di \o q BY HandedAs DEF d, i, q
<1> HIDE DEF di
<1>10. \A x \in Range(HandedTo(c)) : x \notin Upstream BY <1>3, <1>4, <1>8, <1>9
<1>11. \A x \in Msgs : x \in Range(HandedTo(c)) <=>
                \/ x \in Range(d) \/ x = slot[c] \/ x \in Range(q)
  BY <1>2, <1>8, <1>9, ConstantTypes
<1> QED BY <1>1, <1>2, <1>8, <1>9, <1>10, <1>11 DEF d, i, q

LEMMA HandedSame ==
  ASSUME PartsInv, HandedInv, SpreadInv, NEW c \in QueueChannels,
         HandedTo(c)' = HandedTo(c)
  PROVE  OrderKept(HandedTo(c), HandedTo(c)')
<1>1. delivered \in Seq(Msgs) /\ InSender(c) \in Seq(Msgs) /\ senderQ[c] \in Seq(Msgs)
      /\ IsInjective(HandedTo(c))
  BY HandedDistinct
<1>2. delivered \o InSender(c) \in Seq(Msgs) BY <1>1, ConcatProperties
<1>3. HandedTo(c) \in Seq(Msgs)
  <2> DEFINE di == delivered \o InSender(c)
  <2> HIDE DEF di
  <2>1. di \o senderQ[c] \in Seq(Msgs) BY <1>1, <1>2, ConcatProperties DEF di
  <2> QED BY <2>1, HandedAs DEF di
<1> QED BY <1>1, <1>3, OrderSame

\* A platform that accepts a message puts it behind what the platforms had.
LEMMA DeliveryOrder ==
  ASSUME PartsInv, HandedInv, SpreadInv, NEW c \in QueueChannels, NEW m \in Msgs,
         delivered' = Append(delivered, m), InSender(c)' = InSender(c),
         senderQ'[c] = senderQ[c], m \notin Range(HandedTo(c))
  PROVE  OrderKept(HandedTo(c), HandedTo(c)')
<1> DEFINE d == delivered
           i == InSender(c)
           q == senderQ[c]
           iq == i \o q
<1>1. d \in Seq(Msgs) /\ i \in Seq(Msgs) /\ q \in Seq(Msgs) /\ IsInjective(HandedTo(c))
  BY HandedDistinct
<1>2. <<m>> \in Seq(Msgs) /\ iq \in Seq(Msgs) /\ d \o <<m>> \in Seq(Msgs)
  BY <1>1, ConcatProperties
<1>3. HandedTo(c) = d \o iq
  <2> HIDE DEF d, i, q
  <2>1. (d \o i) \o q = d \o (i \o q)
    <3>1. d \in Seq(Msgs) /\ i \in Seq(Msgs) /\ q \in Seq(Msgs) BY <1>1
    <3>2. Regrouped(d, i, q) BY <3>1, Associative
    <3> QED BY <3>2, Zenon DEF Regrouped
  <2>2. HandedTo(c) = (d \o i) \o q BY HandedAs DEF d, i, q
  <2> QED BY <2>1, <2>2
<1>4. HandedTo(c)' = (d \o <<m>>) \o iq
  <2>1. d' = d \o <<m>> /\ i' = i /\ q' = q BY <1>1, AppendIsConcat
  <2>2. HandedTo(c)' = (d' \o i') \o q' BY DEF HandedTo, InSender
  <2>3. HandedTo(c)' = ((d \o <<m>>) \o i) \o q
    <3> HIDE DEF d, i, q
    <3> QED BY <2>1, <2>2, Zenon
  <2> DEFINE dm == d \o <<m>>
  <2>4. dm \in Seq(Msgs) BY <1>2
  <2> HIDE DEF d, i, q, dm
  <2>5. (dm \o i) \o q = dm \o (i \o q)
    <3>1. dm \in Seq(Msgs) /\ i \in Seq(Msgs) /\ q \in Seq(Msgs) BY <1>1, <2>4
    <3>2. Regrouped(dm, i, q) BY <3>1, Associative
    <3> QED BY <3>2, Zenon DEF Regrouped
  <2> QED BY <2>3, <2>5, Zenon DEF dm
<1> HIDE DEF d, iq
<1> QED BY <1>1, <1>2, <1>3, <1>4, OrderMiddle

\* A message that joins the queue comes last.
LEMMA QueueOrder ==
  ASSUME PartsInv, HandedInv, SpreadInv, NEW c \in QueueChannels, NEW m \in Msgs,
         delivered' = delivered, InSender(c)' = InSender(c),
         senderQ'[c] = Append(senderQ[c], m), m \notin Range(HandedTo(c))
  PROVE  OrderKept(HandedTo(c), HandedTo(c)')
<1> DEFINE di == delivered \o InSender(c)
           q == senderQ[c]
           h == di \o q
<1>1. di \in Seq(Msgs) /\ q \in Seq(Msgs) /\ IsInjective(HandedTo(c)) /\ <<m>> \in Seq(Msgs)
      /\ <<>> \in Seq(Msgs)
  BY HandedDistinct, ConcatProperties
<1>2. HandedTo(c) = h BY HandedAs
<1>3. h \in Seq(Msgs)
  <2> HIDE DEF di, q
  <2> QED BY <1>1, ConcatProperties
<1>4. HandedTo(c)' = di \o Append(q, m)
  <2>1. HandedTo(c)' = delivered' \o InSender(c)' \o senderQ'[c] BY DEF HandedTo, InSender
  <2> QED BY <2>1
<1>5. di \o Append(q, m) = h \o <<m>>
  <2> HIDE DEF di, q
  <2>1. Append(q, m) = q \o <<m>> BY <1>1, AppendIsConcat
  <2>2. di \o (q \o <<m>>) = (di \o q) \o <<m>>
    <3>1. di \in Seq(Msgs) /\ q \in Seq(Msgs) /\ <<m>> \in Seq(Msgs) BY <1>1
    <3>2. Regrouped(di, q, <<m>>) BY <3>1, Associative
    <3> QED BY <3>2, Zenon DEF Regrouped
  <2> QED BY <2>1, <2>2
<1> HIDE DEF di, q, h
<1>6. h \o <<>> = h /\ h \o <<m>> \in Seq(Msgs) BY <1>1, <1>3, ConcatEmptySeq, ConcatProperties
<1>7. h \o <<m>> \o <<>> = h \o <<m>>
  <2> DEFINE hm == h \o <<m>>
  <2> HIDE DEF hm
  <2>1. hm \o <<>> = hm BY <1>6, ConcatEmptySeq DEF hm
  <2> QED BY <2>1 DEF hm
<1>8. OrderKept(h \o <<>>, h \o <<m>> \o <<>>)
  <2>1. IsInjective(h \o <<>>) /\ m \notin Range(h \o <<>>) BY <1>1, <1>2, <1>6
  <2> QED BY <1>1, <1>3, <2>1, OrderMiddle
<1> QED BY <1>2, <1>4, <1>5, <1>6, <1>7, <1>8

\* A message the sender gives up leaves the others in their order.
LEMMA GiveUpOrder ==
  ASSUME PartsInv, HandedInv, SpreadInv, NEW c \in QueueChannels, slot[c] # NoMsg,
         delivered' = delivered, slot'[c] = NoMsg, senderQ'[c] = senderQ[c]
  PROVE  OrderKept(HandedTo(c), HandedTo(c)')
<1> DEFINE d == delivered
           m == slot[c]
           q == senderQ[c]
<1>1. d \in Seq(Msgs) /\ q \in Seq(Msgs) /\ m \in Msgs /\ IsInjective(HandedTo(c))
  BY HandedDistinct DEF PartsInv, SendersInv
<1>2. HandedTo(c) = d \o <<m>> \o q BY HandedAs DEF InSender
<1>3. HandedTo(c)' = d \o <<>> \o q
  <2>1. InSender(c)' = <<>> BY DEF InSender
  <2>2. HandedTo(c)' = delivered' \o InSender(c)' \o senderQ'[c] BY DEF HandedTo, InSender
  <2> QED BY <2>1, <2>2
<1> HIDE DEF d, m, q
<1>4. d \o <<>> = d BY <1>1, ConcatEmptySeq
<1>5. IsInjective(d \o <<m>> \o q) BY <1>1, <1>2
<1>6. OrderKept(d \o <<m>> \o q, d \o q) BY <1>1, <1>5, OrderMiddle
<1> QED BY <1>2, <1>3, <1>4, <1>6

\* The two moves of a message from place to place leave the sequence as it is.
LEMMA TakenSame ==
  ASSUME PartsInv, NEW c \in QueueChannels, TakeFromQueue(c)
  PROVE  HandedTo(c)' = HandedTo(c)
<1> DEFINE d == delivered
           q == senderQ[c]
<1>1. /\ d \in Seq(Msgs) /\ q \in Seq(Msgs) /\ q # <<>> /\ slot[c] = NoMsg
      /\ slot'[c] = Head(q) /\ senderQ'[c] = Tail(q) /\ delivered' = d
  BY DEF TakeFromQueue, Idle, PartsInv, FateInv, SendersInv
<1>2. HandedTo(c) = d \o <<>> \o q BY <1>1 DEF HandedTo
<1>3. Head(q) # NoMsg /\ Head(q) \in Msgs /\ Tail(q) \in Seq(Msgs)
  <2> HIDE DEF q
  <2> QED BY <1>1, HeadTailProperties, ConstantTypes
<1>4. HandedTo(c)' = d \o <<Head(q)>> \o Tail(q) BY <1>1, <1>3 DEF HandedTo
<1> HIDE DEF d, q
<1>5. d \o <<>> = d BY <1>1, ConcatEmptySeq
<1> DEFINE h == <<Head(q)>>
           t == Tail(q)
<1>6. h \in Seq(Msgs) /\ t \in Seq(Msgs) BY <1>3
<1>7. h \o t = q
  <2>1. /\ h \o t \in Seq(Msgs) /\ Len(h) = 1 /\ h[1] = Head(q)
        /\ Len(h \o t) = Len(h) + Len(t)
        /\ \A i \in 1..Len(h) + Len(t) : (h \o t)[i] = IF i <= Len(h) THEN h[i] ELSE t[i - Len(h)]
    BY <1>6, ConcatProperties
  <2>2. /\ Len(t) = Len(q) - 1 /\ \A i \in 1..Len(t) : t[i] = q[i + 1]
        /\ Head(q) = q[1] /\ Len(q) \in Nat \ {0}
    BY <1>1, HeadTailProperties, EmptySeq
  <2> HIDE DEF h, t
  <2>3. Len(h \o t) = Len(q) BY <2>1, <2>2
  <2>4. ASSUME NEW i \in 1..Len(q) PROVE (h \o t)[i] = q[i]
    <3>1. i \in 1..Len(h) + Len(t) BY <2>1, <2>2
    <3>2. CASE i = 1 BY <2>1, <2>2, <3>1, <3>2
    <3>3. CASE i # 1
      <4>1. i - 1 \in 1..Len(t) /\ ~(i <= Len(h)) /\ i - Len(h) = i - 1 /\ (i - 1) + 1 = i
        BY <2>1, <2>2, <3>3
      <4> QED BY <2>1, <2>2, <3>1, <4>1
    <3> QED BY <3>2, <3>3
  <2> DEFINE ht == h \o t
  <2> HIDE DEF ht
  <2>5. ht = q BY <1>1, <2>1, <2>3, <2>4, SeqEqual DEF ht
  <2> QED BY <2>5 DEF ht
<1> HIDE DEF h, t
<1>8. (d \o h) \o t = d \o (h \o t)
  <2>1. d \in Seq(Msgs) /\ h \in Seq(Msgs) /\ t \in Seq(Msgs) BY <1>1, <1>6
  <2>2. Regrouped(d, h, t) BY <2>1, Associative
  <2> QED BY <2>2, Zenon DEF Regrouped
<1> QED BY <1>2, <1>4, <1>5, <1>7, <1>8 DEF h, t

LEMMA DeliveredSame ==
  ASSUME PartsInv, NEW c \in QueueChannels, AttemptDelivers(c)
  PROVE  HandedTo(c)' = HandedTo(c)
<1> DEFINE d == delivered
           m == slot[c]
           q == senderQ[c]
<1>1. /\ d \in Seq(Msgs) /\ q \in Seq(Msgs) /\ m \in Msgs /\ m # NoMsg
      /\ slot'[c] = NoMsg /\ senderQ'[c] = q /\ delivered' = Append(d, m)
  BY DEF AttemptDelivers, PartsInv, FateInv, SendersInv
<1>2. HandedTo(c) = d \o <<m>> \o q BY <1>1 DEF HandedTo
<1>3. HandedTo(c)' = Append(d, m) \o <<>> \o q BY <1>1 DEF HandedTo
<1> HIDE DEF d, m, q
<1>4. Append(d, m) = d \o <<m>> /\ Append(d, m) \in Seq(Msgs)
  BY <1>1, AppendIsConcat, AppendProperties
<1>5. Append(d, m) \o <<>> = Append(d, m) BY <1>4, ConcatEmptySeq
<1> QED BY <1>2, <1>3, <1>4, <1>5

LEMMA SenderOrderStep ==
  ASSUME WorkInv, PartsInv, FlowInv, HandedInv, SpreadInv, [Next]_vars, NEW c \in QueueChannels
  PROVE  OrderKept(HandedTo(c), HandedTo(c)')
<1>0. /\ senderQ \in [QueueChannels -> Seq(Msgs)]
      /\ slot \in [QueueChannels -> Msgs \cup {NoMsg}]
  BY DEF PartsInv, SendersInv
<1>1. ASSUME UNCHANGED delivered, slot'[c] = slot[c], senderQ'[c] = senderQ[c]
      PROVE  OrderKept(HandedTo(c), HandedTo(c)')
  <2>1. HandedTo(c)' = HandedTo(c) BY <1>1 DEF HandedTo
  <2> QED BY <2>1, HandedSame
<1>2. ASSUME UNCHANGED handedVars PROVE OrderKept(HandedTo(c), HandedTo(c)')
  BY <1>1, <1>2 DEF handedVars
<1>3. CASE WorkerNext /\ ~SendOk
  <2>1. \E L : Moves(L) BY <1>3, WorkerMoves
  <2> QED BY <1>2, <2>1 DEF Moves
<1>4. CASE SendOk
  <2>1. /\ msg \in Msgs /\ msg \in Upstream /\ slot' = slot
    BY <1>4, ConstantTypes DEF SendOk, MayAttempt, senderVars, WorkInv, HandInv, Upstream
  <2>2. msg \notin Range(HandedTo(c)) BY <2>1, HandedDistinct
  <2>3. InSender(c)' = InSender(c) BY <2>1 DEF InSender
  <2>4. CASE ~ByDriver(msg) /\ msg.channel \in QueueChannels
    <3>1. delivered' = delivered /\ senderQ' = [senderQ EXCEPT ![msg.channel] = Append(@, msg)]
      BY <1>4, <2>4 DEF SendOk
    <3>2. CASE c = msg.channel
      <4>1. senderQ'[c] = Append(senderQ[c], msg) BY <1>0, <3>1, <3>2
      <4> QED BY <2>1, <2>2, <2>3, <3>1, <4>1, QueueOrder
    <3>3. CASE c # msg.channel
      <4>1. senderQ'[c] = senderQ[c] BY <1>0, <3>1, <3>3
      <4> QED BY <1>1, <2>1, <3>1, <4>1
    <3> QED BY <3>2, <3>3
  <2>5. CASE ~(~ByDriver(msg) /\ msg.channel \in QueueChannels)
    <3>1. delivered' = Append(delivered, msg) /\ senderQ' = senderQ
      BY <1>4, <2>5 DEF SendOk
    <3> QED BY <2>1, <2>2, <2>3, <3>1, DeliveryOrder
  <2> QED BY <2>4, <2>5
<1>5. ASSUME NEW e \in QueueChannels, Senders(e) PROVE OrderKept(HandedTo(c), HandedTo(c)')
  <2>0. SenderNext(e) BY <1>5 DEF Senders
  <2>1. CASE TakeFromQueue(e)
    <3>1. CASE e = c BY <2>1, <3>1, TakenSame, HandedSame
    <3>2. CASE e # c
      <4>1. delivered' = delivered /\ slot'[c] = slot[c] /\ senderQ'[c] = senderQ[c]
        BY <1>0, <2>1, <3>2 DEF TakeFromQueue
      <4> QED BY <1>1, <4>1
    <3> QED BY <3>1, <3>2
  <2>2. CASE AttemptDelivers(e)
    <3>1. CASE e = c BY <2>2, <3>1, DeliveredSame, HandedSame
    <3>2. CASE e # c
      <4> DEFINE m == slot[e]
      <4>1. /\ m \in Msgs /\ m # NoMsg /\ m.channel = e
            /\ delivered' = Append(delivered, m) /\ slot'[c] = slot[c] /\ senderQ' = senderQ
        BY <1>0, <2>2, <3>2 DEF AttemptDelivers, HandedInv
      <4>2. InSlot(m) BY <4>1 DEF InSlot
      <4> HIDE DEF m
      <4>3. m \notin Range(delivered) BY <4>1, <4>2 DEF SpreadInv, Placed, One
      <4>4. m # slot[c] BY <3>2, <4>1 DEF HandedInv
      <4>5. m \notin Range(senderQ[c])
        BY <1>0, <3>2, <4>1, LenProperties DEF HandedInv, Range
      <4>6. m \notin Range(HandedTo(c)) BY <4>1, <4>3, <4>4, <4>5, HandedDistinct
      <4>7. InSender(c)' = InSender(c) BY <4>1 DEF InSender
      <4> QED BY <4>1, <4>6, <4>7, DeliveryOrder
    <3> QED BY <3>1, <3>2
  <2>3. ASSUME NEW error \in Errors, NEW recorded \in BOOLEAN,
               AttemptFails(e, error, recorded)
        PROVE  OrderKept(HandedTo(c), HandedTo(c)')
    <3>1. /\ slot[e] # NoMsg /\ UNCHANGED <<delivered, senderQ>>
          /\ slot' = slot \/ slot' = [slot EXCEPT ![e] = NoMsg]
      BY <2>3 DEF AttemptFails, GiveUp
    <3>2. CASE slot'[c] = slot[c] BY <1>1, <3>1, <3>2
    <3>3. CASE slot'[c] # slot[c]
      <4>1. e = c /\ slot'[c] = NoMsg BY <1>0, <3>1, <3>3
      <4> QED BY <3>1, <4>1, GiveUpOrder
    <3> QED BY <3>2, <3>3
  <2>4. CASE FinishRecording(e)
    BY <1>2, <2>4 DEF FinishRecording, handedVars
  <2> QED BY <2>0, <2>1, <2>2, <2>3, <2>4 DEF SenderNext
<1>6. CASE (\E m \in Msgs : Produce(m)) \/ CloseMode \/ OpenMode \/ GateExpires \/ Second
             \/ UNCHANGED vars
  BY <1>2, <1>6 DEF Produce, CloseMode, OpenMode, GateExpires, Second, ASecond, vars,
                    senderVars, handedVars
<1> QED BY <1>3, <1>4, <1>5, <1>6 DEF Next

\* A sender delivers in the order in which it was handed the messages, and what
\* the platforms accepted is never taken back or reordered, over the retries of
\* run_buffered_sender_loop, its pending message and those it gives up.
THEOREM SenderOrderCorrect == Spec => SenderOrderKept
<1> DEFINE I == WorkInv /\ PartsInv /\ FlowInv /\ HandedInv /\ SpreadInv
<1>1. Init => I
  BY WorkInit, PartsInit, FlowInit, HandedInit, SpreadInit
<1>2. I /\ [Next]_vars => I'
  BY WorkStep, PartsStep, FlowStep, HandedStep, SpreadStep
<1>3. I /\ [Next]_vars
        => [\A c \in QueueChannels : OrderKept(HandedTo(c), HandedTo(c)')]_vars
  BY SenderOrderStep
<1> HIDE DEF I
<1> QED BY <1>1, <1>2, <1>3, PTL DEF Spec, SenderOrderKept
=============================================================================
