----------------------------- MODULE ChatBroker -----------------------------
(* The broker between the HTTP session route and the agent loop             *)
(* (chat_stream.rs): a table of the streams that are open and, per stream,  *)
(* a bounded queue of server-sent events. The table and each queue have a   *)
(* lock of their own; an entry that has been looked up keeps its queue      *)
(* after it has left the table. A stream is named by its request.           *)
EXTENDS Naturals, Sequences, FiniteSets

CONSTANTS
  Requests,  \* POST /api/sessions requests, one stream each
  Capacity,  \* CHAT_STREAM_QUEUE_CAPACITY
  MaxActive  \* max_active

ASSUME BrokerAssumption ==
  /\ Capacity \in Nat /\ Capacity >= 2
  /\ MaxActive \in Nat \ {0}

VARIABLES
  streams, \* the requests that are in the table
  frames,  \* frames in the queue of each stream
  closed,  \* queues that take no frame any more
  sent     \* sent_content_bytes of each queue

brokerVars == <<streams, frames, closed, sent>>

\* Of a text only its identity and the position of its pieces count, a piece
\* being what goes into one frame. The bytes of a text are its pieces.
Delta(text, at) == [kind |-> "delta", text |-> text, at |-> at]
Event(kind) == [kind |-> kind, text |-> 0, at |-> 0]
Terminals == {"final", "error"}
EventKinds == Terminals \cup {"queued", "done"}
Frames == [kind : {"delta"}, text : Nat, at : Nat] \cup {Event(k) : k \in EventKinds}

InitBroker ==
  /\ streams = {}
  /\ frames = [r \in Requests |-> <<>>]
  /\ closed = [r \in Requests |-> FALSE]
  /\ sent = [r \in Requests |-> 0]

-----------------------------------------------------------------------------
\* With the lock on the table.
CanOpen == Cardinality(streams) < MaxActive

Register(r) == streams' = streams \cup {r}
Remove(r) == streams' = streams \ {r}

\* Seeded fault: an event is added to a queue that has been closed.
CanPushLate(r) == Len(frames[r]) < Capacity

\* With the lock on the queue.
CanPush(r) == ~closed[r] /\ Len(frames[r]) < Capacity

Push(r, f) == frames' = [frames EXCEPT ![r] = Append(@, f)]

\* Seeded fault: the piece that was sent last is not counted.
MarkSentShort(r, bytes) == sent' = [sent EXCEPT ![r] = IF bytes > @ THEN bytes - 1 ELSE @]

MarkSent(r, bytes) ==
  sent' = [sent EXCEPT ![r] = IF bytes > @ THEN bytes ELSE @]

\* The oldest frames make room for the pair: a queue that is not closed holds
\* no terminal frame.
Evicted(r) == IF Len(frames[r]) + 2 > Capacity THEN Len(frames[r]) + 2 - Capacity ELSE 0

PushPair(r, kind) ==
  IF closed[r] THEN UNCHANGED <<frames, closed>>
  ELSE /\ frames' = [frames EXCEPT ![r] =
             SubSeq(@, Evicted(r) + 1, Len(@)) \o <<Event(kind), Event("done")>>]
       /\ closed' = [closed EXCEPT ![r] = TRUE]
=============================================================================
