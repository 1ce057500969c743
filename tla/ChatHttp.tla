------------------------------ MODULE ChatHttp ------------------------------
(* One thread per POST /api/sessions (handlers/sessions.rs): it opens a     *)
(* stream, puts the message in the inbound queue, and hands the receiver to *)
(* the server, which reads frames until the stream or the client is gone.   *)
EXTENDS ChatBroker

CONSTANTS
  InboxCapacity \* places in the user inbound queue

ASSUME InboxAssumption == InboxCapacity \in Nat \ {0}

VARIABLES
  http,  \* where each thread is
  inbox, \* the user inbound queue
  seen   \* history: the frames each receiver has given out

httpVars == <<http, inbox, seen>>

InitHttp ==
  /\ http = [r \in Requests |-> "idle"]
  /\ inbox = <<>>
  /\ seen = [r \in Requests |-> <<>>]

HttpGoTo(r, place) == http' = [http EXCEPT ![r] = place]

-----------------------------------------------------------------------------
Open(r) ==
  /\ http[r] = "idle"
  /\ IF CanOpen
       THEN Register(r) /\ HttpGoTo(r, "opened")
       ELSE UNCHANGED streams /\ HttpGoTo(r, "busy")
  /\ UNCHANGED <<frames, closed, sent, inbox, seen>>

\* Seeded fault: a full queue takes the message.
EnqueueAlways(r) ==
  /\ http[r] = "opened"
  /\ inbox' = Append(inbox, r) /\ HttpGoTo(r, "queued")
  /\ UNCHANGED <<brokerVars, seen>>

\* A message may also be no valid one.
Enqueue(r) ==
  /\ http[r] = "opened"
  /\ \/ Len(inbox) < InboxCapacity /\ inbox' = Append(inbox, r) /\ HttpGoTo(r, "queued")
     \/ UNCHANGED inbox /\ HttpGoTo(r, "refused")
  /\ UNCHANGED <<brokerVars, seen>>

\* emit_queued: the agent may already have answered, and the event come late
\* or not at all.
LookUpQueued(r) ==
  /\ http[r] = "queued"
  /\ IF r \in streams THEN HttpGoTo(r, "queued_push") ELSE HttpGoTo(r, "recv")
  /\ UNCHANGED <<brokerVars, inbox, seen>>

PushQueued(r) ==
  /\ http[r] = "queued_push"
  /\ IF CanPush(r) THEN Push(r, Event("queued")) ELSE UNCHANGED frames
  /\ HttpGoTo(r, "recv")
  /\ UNCHANGED <<streams, closed, sent, inbox, seen>>

\* emit_error of the thread: the table, then the queue. It is called when the
\* message is refused and when the wait for a frame times out.
RemoveOnError(r) ==
  /\ http[r] \in {"refused", "timeout"}
  /\ Remove(r)
  /\ IF r \in streams
       THEN HttpGoTo(r, IF http[r] = "refused" THEN "refused_pair" ELSE "timeout_pair")
       ELSE HttpGoTo(r, IF http[r] = "refused" THEN "recv" ELSE "recv2")
  /\ UNCHANGED <<frames, closed, sent, inbox, seen>>

PushErrorPair(r) ==
  /\ http[r] \in {"refused_pair", "timeout_pair"}
  /\ PushPair(r, "error")
  /\ HttpGoTo(r, IF http[r] = "refused_pair" THEN "recv" ELSE "recv2")
  /\ UNCHANGED <<streams, sent, inbox, seen>>

-----------------------------------------------------------------------------
\* recv_with_timeout: "recv" before its error, "recv2" after it. A frame is
\* written to the client, which may fail.
Receiving == {"recv", "wait", "recv2", "wait2"}

RecvFrame(r) ==
  /\ http[r] \in Receiving /\ frames[r] # <<>>
  /\ frames' = [frames EXCEPT ![r] = Tail(@)]
  /\ seen' = [seen EXCEPT ![r] = Append(@, Head(frames[r]))]
  /\ HttpGoTo(r, "recv") \/ HttpGoTo(r, "leaving")
  /\ UNCHANGED <<streams, closed, sent, inbox>>

RecvClosed(r) ==
  /\ http[r] \in Receiving /\ frames[r] = <<>> /\ closed[r]
  /\ HttpGoTo(r, "leaving")
  /\ UNCHANGED <<brokerVars, inbox, seen>>

Wait(r) ==
  /\ http[r] \in {"recv", "recv2"} /\ frames[r] = <<>> /\ ~closed[r]
  /\ HttpGoTo(r, IF http[r] = "recv" THEN "wait" ELSE "wait2")
  /\ UNCHANGED <<brokerVars, inbox, seen>>

\* Seeded fault: after the time is up the receiver only waits again.
RecvWaitsAgain(r) ==
  /\ http[r] \in {"wait", "wait2"}
  /\ HttpGoTo(r, IF http[r] = "wait" THEN "recv" ELSE "leaving")
  /\ UNCHANGED <<brokerVars, inbox, seen>>

\* The wait may end although a frame came at the last moment.
RecvTimesOut(r) ==
  /\ http[r] \in {"wait", "wait2"}
  /\ HttpGoTo(r, IF http[r] = "wait" THEN "timeout" ELSE "leaving")
  /\ UNCHANGED <<brokerVars, inbox, seen>>

\* Seeded fault: the queue is closed and the entry stays in the table.
CloseOnly(r) ==
  /\ http[r] = "leaving"
  /\ closed' = [closed EXCEPT ![r] = @ \/ r \in streams]
  /\ HttpGoTo(r, "left")
  /\ frames' = [frames EXCEPT ![r] = <<>>]
  /\ seen' = [seen EXCEPT ![r] = <<>>]
  /\ sent' = [sent EXCEPT ![r] = 0]
  /\ UNCHANGED <<streams, inbox>>

\* The receiver is dropped: unregister. The table's lock is held until the
\* queue is closed, so nobody sees one without the other. Nobody reads the
\* queue any more: its frames, and their history, are forgotten.
Unregister(r) ==
  /\ http[r] = "leaving"
  /\ Remove(r)
  /\ closed' = [closed EXCEPT ![r] = @ \/ r \in streams]
  /\ HttpGoTo(r, "left")
  /\ frames' = [frames EXCEPT ![r] = <<>>]
  /\ seen' = [seen EXCEPT ![r] = <<>>]
  /\ sent' = [sent EXCEPT ![r] = 0]
  /\ UNCHANGED inbox

HttpStep(r) ==
  \/ Enqueue(r) \/ LookUpQueued(r) \/ PushQueued(r)
  \/ RemoveOnError(r) \/ PushErrorPair(r)
  \/ RecvFrame(r) \/ RecvClosed(r) \/ Wait(r) \/ RecvTimesOut(r)
  \/ Unregister(r)
=============================================================================
