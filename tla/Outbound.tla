------------------------------ MODULE Outbound ------------------------------
(***************************************************************************)
(* What the outbound threads together must guarantee: the worker of        *)
(* Dispatcher, the sender threads of SenderLoop, producers, the runtime    *)
(* mode and the clock.                                                     *)
(***************************************************************************)
EXTENDS Dispatcher

CONSTANT
  ReliableChannels  \* queue channels whose platform does not refuse for ever

ASSUME ReliableAssumption == ReliableChannels \subseteq QueueChannels

Occurrences(s, m) == Cardinality({i \in DOMAIN s : s[i] = m})

LossesOf(m) == {l \in lost : l.msg = m}

One(condition) == IF condition THEN 1 ELSE 0

\* A step takes s to t without changing the order of what stays.
OrderKept(s, t) ==
  \A i, j \in DOMAIN s, k, l \in DOMAIN t :
    i < j /\ t[k] = s[i] /\ t[l] = s[j] => k < l

\* The deferred messages, with the one being replayed in its place.
Deferred ==
  IF pc = "send" /\ cursor > 0 THEN InsertAt(buffer, cursor, msg) ELSE buffer

\* Everything handed to the sender of c, oldest first, among what the other
\* channels' platforms accepted.
HandedTo(c) ==
  delivered \o (IF slot[c] = NoMsg THEN <<>> ELSE <<slot[c]>>) \o senderQ[c]

-----------------------------------------------------------------------------
\* The states of the threads are the ones their loops pass through: an
\* attempt counter below its limit, a cursor inside the buffer, a message in
\* the worker's hands exactly while it sends.
TypeOK ==
  /\ failures \in [TrackedChannels -> 0..FailThreshold]
  /\ age \in [TrackedChannels -> 0..CooldownSecs]
  /\ senderQ \in [QueueChannels -> Seq(Msgs)]
  /\ delivered \in Seq(Msgs)
  /\ lost \subseteq [msg : Msgs, why : {"full", "replaced", "failed", "unwanted", "sender"}]
  /\ slot \in [QueueChannels -> Msgs \cup {NoMsg}]
  /\ \A c \in QueueChannels : tries[c] < IF slot[c] = NoMsg THEN 1 ELSE TriesFor(slot[c])
  /\ unstamped \subseteq RecordingChannels
  /\ unsent \subseteq Msgs /\ outbound \in Seq(Msgs) /\ buffer \in Seq(Msgs)
  /\ pc \in {"tick", "scan", "scanned", "recv", "send"}
  /\ (pc = "send") <=> (msg \in Msgs)
  /\ pc # "send" => msg = NoMsg
  /\ cursor \in 0..BufferMax + 1
  /\ attempt \in 0..(IF pc = "send" THEN AttemptsFor(msg) - 1 ELSE 0)
  /\ held \in Msgs \cup {NoMsg}
  /\ gateOpen \in BOOLEAN /\ closed \in BOOLEAN /\ modeChanges \in 0..MaxModeChanges

\* A message is in exactly one place: with its producer, on the bus, in the
\* deferred buffer, in the hands of the worker or of a sender, in a sender's
\* queue, with its platform, or lost for one reason.  Nothing is sent twice
\* and nothing vanishes, although the replay removes a message before it
\* sends it and puts it back when that fails.
MessageInOnePlace ==
  \A m \in Msgs :
    LET inSenders == {c \in QueueChannels : m = slot[c]}
        inQueues  == {c \in QueueChannels : Occurrences(senderQ[c], m) > 0}
    IN  /\ \A c \in QueueChannels : Occurrences(senderQ[c], m) <= 1
        /\ One(m \in unsent) + Occurrences(outbound, m) + Occurrences(buffer, m)
             + One(msg = m) + One(held = m)
             + Cardinality(inSenders) + Cardinality(inQueues)
             + Occurrences(delivered, m) + Cardinality(LossesOf(m)) = 1

\* COOLDOWN_BUFFER_MAX bounds the deferred messages together with the one
\* being replayed: a failed replay finds its place again.
DeferredWithinLimit == Len(Deferred) <= BufferMax

\* No supplemental ever waits: it is sent at once or not at all, on each of
\* the paths that defer.  (The eviction of supplementals in
\* try_push_buffered_msg is therefore never used by this worker.)
OnlyPrimariesWait ==
  \A i \in DOMAIN Deferred : Primary(Deferred[i])

\* While its breaker is open no channel is tried, by a live message or by a
\* replay: the worker that reads the health is the only one to record
\* failures of the channels it sends to itself.
NoAttemptInCooldown ==
  pc = "send" /\ msg.channel \notin QueueChannels => Healthy(msg.channel)

\* The order of deferred messages never changes: a replay that fails puts its
\* message back where it was, and an answer that replaces an older one takes
\* its place.
DeferredOrderKept == [][OrderKept(Deferred, Deferred')]_vars

\* A sender delivers in the order in which it was handed the messages, over
\* its retries and its pending slot.
SenderOrderKept ==
  [][\A c \in QueueChannels : OrderKept(HandedTo(c), HandedTo(c)')]_vars

\* Why a primary may be lost by a step.
Explained(l) ==
  CASE l.why = "full" -> Len(buffer') = BufferMax /\ OnlyPrimariesWait'
    [] l.why = "replaced" ->
         /\ l.msg.reply # NoReply
         /\ \E i \in DOMAIN buffer' :
              /\ Primary(buffer'[i])
              /\ buffer'[i].reply = l.msg.reply
              /\ buffer'[i].channel = l.msg.channel
    [] l.why = "failed" ->
         \/ Answers(l.msg) = {}
         \/ l.msg.channel \in TrackedChannels => failures'[l.msg.channel] > 0
    [] l.why = "sender" -> l.msg.channel \in QueueChannels
    [] OTHER -> FALSE

\* A primary is lost only if the buffer is full of primaries, if a later
\* answer to the same request waits in its place, if its channel failed it
\* and the failure was counted against the channel (or has no sink), or if
\* its sender gave it up.
PrimaryLossExplained ==
  [][\A l \in lost' \ lost : Primary(l.msg) => Explained(l)]_vars
-----------------------------------------------------------------------------
(* Fairness.  The threads run (they share no lock and only sleep), the     *)
(* replay timer and the clock advance, a mode that forbids sending ends,   *)
(* and the platform of a reliable channel does not answer every attempt of *)
(* its sender with an error.  Nothing is asked of the other channels.      *)

Fairness ==
  /\ WF_vars(WorkerNext)
  /\ WF_vars(GateExpires)
  /\ WF_vars(OpenMode)
  /\ WF_vars(Second)
  /\ \A c \in QueueChannels :
       /\ WF_vars(TakeFromQueue(c) /\ Senders(c))
       /\ WF_vars(FinishRecording(c) /\ Senders(c))
  /\ \A c \in ReliableChannels : SF_vars(AttemptDelivers(c) /\ Senders(c))

FairSpec == Spec /\ Fairness

\* m waits, and what waits ahead of it is for reliable channels, too.
Unobstructed(m) ==
  \E k \in DOMAIN Deferred :
    /\ Deferred[k] = m
    /\ \A i \in 1..k : Deferred[i].channel \in ReliableChannels

Handed(m) == \E c \in QueueChannels : Occurrences(senderQ[c], m) > 0

Replaced(m) == \E l \in LossesOf(m) : l.why = "replaced"

\* What a channel that takes nothing can hold back.  The replay stops at the
\* first message that is not sent (dispatch.rs:402-406), so such a channel
\* does hold back the messages that wait behind one of its own; it holds back
\* no other.  A deferred message is handed to its sender, or gives its place
\* to a later answer, when nothing ahead of it is for such a channel:
\* whatever arrives later or waits behind it, through full sender queues,
\* open breakers, failed replays and modes that forbid sending.
DeferredLeaves ==
  \A m \in Msgs : Unobstructed(m) ~> Handed(m) \/ Replaced(m)
=============================================================================
