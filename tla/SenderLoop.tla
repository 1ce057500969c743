----------------------------- MODULE SenderLoop -----------------------------
(***************************************************************************)
(* run_buffered_sender_loop of src/src/channels/send.rs, one thread per    *)
(* queue channel, and the part of the QQ sender (src/src/channels/qq/      *)
(* send.rs) that records each attempt in the channel's health.             *)
(*                                                                         *)
(* The thread takes a message from its queue, tries it up to               *)
(* CHANNEL_SENDER_MAX_RETRIES times, and keeps a primary that failed for a *)
(* passing reason in its slot "pending", to try it again before it looks   *)
(* at the queue.                                                           *)
(***************************************************************************)
EXTENDS OutboundState, OutboundMsg

CONSTANTS
  RecordingChannels,  \* queue channels whose sender records its attempts (QQ)
  SenderTries         \* CHANNEL_SENDER_MAX_RETRIES (3)

ASSUME SenderAssumption ==
  /\ RecordingChannels \subseteq QueueChannels
  /\ SenderTries \in Nat \ {0}

VARIABLES
  slot,        \* the message each thread works on (its local "message"/"pending")
  tries,       \* attempts made in this pass
  unstamped    \* threads between the two writes of a recorded failure

senderVars == <<slot, tries, unstamped>>

\* What an attempt may answer.  "busy": no TLS memory or no connection;
\* "retryable": HTTP 408, 409, 425, 429 or 5xx; "config": Error::Config;
\* "permanent": any other error.
Errors == {"busy", "retryable", "permanent", "config"}

Passing(error) == error \in {"busy", "retryable"}

TriesFor(m) == IF Supplemental(m) THEN 1 ELSE SenderTries

Idle(c) == slot[c] = NoMsg /\ c \notin unstamped

InitSenders ==
  /\ slot = [c \in QueueChannels |-> NoMsg]
  /\ tries = [c \in QueueChannels |-> 0]
  /\ unstamped = {}

\* recv_sender_loop_event
TakeFromQueue(c) ==
  /\ Idle(c)
  /\ senderQ[c] # <<>>
  /\ slot' = [slot EXCEPT ![c] = Head(senderQ[c])]
  /\ senderQ' = [senderQ EXCEPT ![c] = Tail(@)]
  /\ UNCHANGED <<tries, unstamped, healthVars, delivered, lost>>

\* send_one returned Ok; the QQ sender recorded the success of a primary.
AttemptDelivers(c) ==
  LET m == slot[c]
      records == c \in RecordingChannels /\ ~Supplemental(m)
  IN  /\ m # NoMsg
      /\ c \notin unstamped
      /\ delivered' = Append(delivered, m)
      /\ slot' = [slot EXCEPT ![c] = NoMsg]
      /\ tries' = [tries EXCEPT ![c] = 0]
      /\ IF records THEN RecordOk(c) ELSE UNCHANGED healthVars
      /\ UNCHANGED <<senderQ, unstamped, lost>>

\* Seeded fault: a deferred primary is kept and goes back to the queue.
GiveUpKeepAndQueue(c, m, error) ==
  IF ~Supplemental(m) /\ Passing(error)
    THEN /\ senderQ' = [senderQ EXCEPT ![c] = Append(@, m)]
         /\ UNCHANGED <<slot, lost>>
    ELSE /\ slot' = [slot EXCEPT ![c] = NoMsg]
         /\ lost' = lost \cup {[msg |-> m, why |-> "sender"]}
         /\ UNCHANGED senderQ

\* Seeded fault: a deferred primary goes back to the queue.
GiveUpToQueue(c, m, error) ==
  IF ~Supplemental(m) /\ Passing(error)
    THEN /\ slot' = [slot EXCEPT ![c] = NoMsg]
         /\ senderQ' = [senderQ EXCEPT ![c] = Append(@, m)]
         /\ UNCHANGED lost
    ELSE /\ slot' = [slot EXCEPT ![c] = NoMsg]
         /\ lost' = lost \cup {[msg |-> m, why |-> "sender"]}
         /\ UNCHANGED senderQ

\* After the last attempt of a pass: keep the message as pending or drop it.
GiveUp(c, m, error) ==
  /\ IF ~Supplemental(m) /\ Passing(error)
       THEN UNCHANGED <<slot, lost>>
       ELSE /\ slot' = [slot EXCEPT ![c] = NoMsg]
            /\ lost' = lost \cup {[msg |-> m, why |-> "sender"]}
  /\ UNCHANGED senderQ

\* The error ends the pass.
LastTry(c, error) ==
  tries[c] + 1 >= TriesFor(slot[c]) \/ error \in {"busy", "config"}

\* send_one returned an error.  "recorded" is FALSE when the QQ sender failed
\* before it spoke to the platform (no HTTP client, no token).
AttemptFails(c, error, recorded) ==
  LET m == slot[c]
  IN  /\ m # NoMsg
      /\ c \notin unstamped
      /\ recorded => c \in RecordingChannels /\ ~Supplemental(m)
      /\ IF recorded
           THEN /\ CountFailure(c)
                /\ unstamped' = unstamped \cup {c}
           ELSE UNCHANGED <<failures, unstamped>>
      /\ IF LastTry(c, error)
           THEN tries' = [tries EXCEPT ![c] = 0] /\ GiveUp(c, m, error)
           ELSE tries' = [tries EXCEPT ![c] = @ + 1] /\ UNCHANGED <<slot, lost, senderQ>>
      /\ UNCHANGED <<age, delivered>>

FinishRecording(c) ==
  /\ c \in unstamped
  /\ StampFailure(c)
  /\ unstamped' = unstamped \ {c}
  /\ UNCHANGED <<failures, senderQ, delivered, lost, slot, tries>>

SenderNext(c) ==
  \/ TakeFromQueue(c)
  \/ AttemptDelivers(c)
  \/ \E error \in Errors, recorded \in BOOLEAN : AttemptFails(c, error, recorded)
  \/ FinishRecording(c)
=============================================================================
