----------------------------- MODULE Dispatcher -----------------------------
(***************************************************************************)
(* The outbound worker of src/src/channels/dispatch.rs: run_dispatch when  *)
(* ActiveChannel = NoChannel, run_os_outbound_worker (one thread on ESP in *)
(* the place of a dispatcher and a sender) otherwise.                      *)
(*                                                                         *)
(* One thread: it replays what it may of its deferred buffer, takes one    *)
(* message from the outbound bus, sends it or defers it, and starts again. *)
(* It sleeps and sends between its reads of the mode and of the channels'  *)
(* health, so each read and each attempt is a step of its own; producers,  *)
(* sender threads, the runtime mode and the clock move in between.         *)
(***************************************************************************)
EXTENDS SenderLoop, DeferredBuffer

CONSTANTS
  NoChannel,
  ActiveChannel,   \* the channel with a driver in this thread, or NoChannel
  DirectChannels,  \* those whose sink sends by itself (websocket, voice)
  VoiceChannels,   \* those that a runtime mode never rejects
  SenderQueueMax,  \* CHANNEL_SENDER_QUEUE_DEPTH
  OutboundMax,     \* capacity of the outbound bus
  SendTries,       \* SEND_RETRY
  MaxModeChanges   \* bound on the times the mode closes (the code has none)

ASSUME WorkerAssumption ==
  /\ ActiveChannel = NoChannel \/ ActiveChannel \in TrackedChannels \ QueueChannels
  /\ DirectChannels \subseteq Channels \ (QueueChannels \cup {ActiveChannel})
  /\ SendTries \in Nat \ {0} /\ OutboundMax \in Nat \ {0}
  /\ SenderQueueMax \in Nat \ {0} /\ MaxModeChanges \in Nat

VARIABLES
  unsent,      \* messages the agent and the channels have yet to produce
  outbound,    \* the outbound bus
  buffer,      \* cooldown_buffer
  pc,          \* where the worker is
  msg,         \* the message it is sending
  cursor,      \* position of the replay scan; 0 while msg is a live message
  attempt,     \* attempts made on msg
  held,        \* the live message a full buffer waits to take
  gateOpen,    \* DeferredReplayGate::ready
  closed,      \* the runtime mode forbids non-voice outbound
  modeChanges

workVars == <<msg, cursor, attempt>>
modeVars == <<closed, modeChanges>>
envVars  == <<unsent, outbound>>
vars == <<healthVars, senderQ, delivered, lost, senderVars, envVars, buffer,
          pc, workVars, held, gateOpen, modeVars>>

\* outbound_reject_reason
Rejected(m) == closed /\ m.channel \notin VoiceChannels

\* The worker's own driver sends its channel's messages, except while a full
\* buffer is replayed for a message of another channel.
ByDriver(m) == m.channel = ActiveChannel /\ held = NoMsg

\* Messages of the other channels wait for a full buffer to be replayed.
WaitsWhenFull(m) == m.channel # ActiveChannel

AttemptsFor(m) == IF Supplemental(m) THEN 1
                  ELSE IF ByDriver(m) THEN SenderTries ELSE SendTries

\* What one attempt can answer.  A sender queue only ever answers that it is
\* full; the active channel's own queue has no receiver on ESP; the websocket
\* takes everything, and the voice session's queue may be full.  A channel
\* without a sink answers nothing.
Answers(m) ==
  CASE ByDriver(m) -> {"ok"} \cup Errors
    [] ~ByDriver(m) /\ m.channel \in QueueChannels ->
         IF Len(senderQ[m.channel]) < SenderQueueMax THEN {"ok"} ELSE {"busy"}
    [] ~ByDriver(m) /\ m.channel = ActiveChannel -> {"busy"}
    [] m.channel \in DirectChannels ->
         IF m.channel \in VoiceChannels THEN {"ok", "permanent"} ELSE {"ok"}
    [] OTHER -> {}

Live == cursor = 0

Init ==
  /\ InitOutboundState
  /\ InitSenders
  /\ unsent = Msgs
  /\ outbound = <<>>
  /\ buffer = <<>>
  /\ pc = "tick"
  /\ msg = NoMsg
  /\ cursor = 0
  /\ attempt = 0
  /\ held = NoMsg
  /\ gateOpen = TRUE
  /\ closed = FALSE
  /\ modeChanges = 0

-----------------------------------------------------------------------------
(* The environment: producers, the runtime mode, the replay gate's timer.  *)

Produce(m) ==
  /\ m \in unsent
  /\ Len(outbound) < OutboundMax
  /\ outbound' = Append(outbound, m)
  /\ unsent' = unsent \ {m}
  /\ UNCHANGED <<healthVars, senderQ, delivered, lost, senderVars, buffer, pc,
                 workVars, held, gateOpen, modeVars>>

CloseMode ==
  /\ ~closed
  /\ modeChanges < MaxModeChanges
  /\ closed' = TRUE
  /\ modeChanges' = modeChanges + 1
  /\ UNCHANGED <<healthVars, senderQ, delivered, lost, senderVars, envVars,
                 buffer, pc, workVars, held, gateOpen>>

OpenMode ==
  /\ closed
  /\ closed' = FALSE
  /\ UNCHANGED <<healthVars, senderQ, delivered, lost, senderVars, envVars,
                 buffer, pc, workVars, held, gateOpen, modeChanges>>

GateExpires ==
  /\ ~gateOpen
  /\ gateOpen' = TRUE
  /\ UNCHANGED <<healthVars, senderQ, delivered, lost, senderVars, envVars,
                 buffer, pc, workVars, held, modeVars>>

Second ==
  /\ ASecond
  /\ UNCHANGED <<senderVars, envVars, buffer, pc, workVars, held, gateOpen, modeVars>>
-----------------------------------------------------------------------------
(* The replay of the deferred buffer: replay_cooldown_buffer_with.         *)

StartScan == pc' = "scan" /\ cursor' = 1

BeginTick ==
  /\ pc = "tick"
  /\ IF gateOpen THEN StartScan ELSE pc' = "recv" /\ UNCHANGED cursor
  /\ UNCHANGED <<healthVars, senderQ, delivered, lost, senderVars, envVars,
                 buffer, msg, attempt, held, gateOpen, modeVars>>

ScanSkips ==
  /\ pc = "scan"
  /\ cursor <= Len(buffer)
  /\ InCooldown(buffer[cursor].channel)
  /\ cursor' = cursor + 1
  /\ UNCHANGED <<healthVars, senderQ, delivered, lost, senderVars, envVars,
                 buffer, pc, msg, attempt, held, gateOpen, modeVars>>

\* Seeded fault: the scan does not ask whether the channel is in cooldown.
ScanTakesAny ==
  /\ pc = "scan"
  /\ cursor <= Len(buffer)
  /\ held = NoMsg => ~Rejected(buffer[cursor])
  /\ msg' = buffer[cursor]
  /\ buffer' = RemoveAt(buffer, cursor)
  /\ attempt' = 0
  /\ pc' = "send"
  /\ UNCHANGED <<healthVars, senderQ, delivered, lost, senderVars, envVars,
                 cursor, held, gateOpen, modeVars>>

\* Only the replay of a tick asks for the mode before it sends.
ScanTakes ==
  /\ pc = "scan"
  /\ cursor <= Len(buffer)
  /\ Healthy(buffer[cursor].channel)
  /\ held = NoMsg => ~Rejected(buffer[cursor])
  /\ msg' = buffer[cursor]
  /\ buffer' = RemoveAt(buffer, cursor)
  /\ attempt' = 0
  /\ pc' = "send"
  /\ UNCHANGED <<healthVars, senderQ, delivered, lost, senderVars, envVars,
                 cursor, held, gateOpen, modeVars>>

\* The scan is over: at the end of the buffer, or at the first message that
\* could not be sent.
ScanStops ==
  /\ pc = "scan"
  /\ \/ cursor > Len(buffer)
     \/ /\ cursor <= Len(buffer)
        /\ Healthy(buffer[cursor].channel)
        /\ held = NoMsg /\ Rejected(buffer[cursor])
  /\ pc' = "scanned"
  /\ UNCHANGED <<healthVars, senderQ, delivered, lost, senderVars, envVars,
                 buffer, workVars, held, gateOpen, modeVars>>

\* After the replay of a tick: set the gate and look at the bus.
EndTickReplay ==
  /\ pc = "scanned"
  /\ held = NoMsg
  /\ gateOpen' = (ActiveChannel = NoChannel \/ buffer = <<>>)
  /\ pc' = "recv"
  /\ cursor' = 0
  /\ UNCHANGED <<healthVars, senderQ, delivered, lost, senderVars, envVars,
                 buffer, msg, attempt, held, modeVars>>

\* After the replay for a full buffer: the second and last push.
EndFullReplay ==
  /\ pc = "scanned"
  /\ held # NoMsg
  /\ LET push == TryPush(buffer, held)
     IN  /\ buffer' = push.buffer
         /\ lost' = lost \cup {[msg |-> m, why |-> IF m = held THEN "full" ELSE "replaced"] :
                                 m \in push.out}
  /\ held' = NoMsg
  /\ pc' = "tick"
  /\ cursor' = 0
  /\ UNCHANGED <<healthVars, senderQ, delivered, senderVars, envVars, msg,
                 attempt, gateOpen, modeVars>>
-----------------------------------------------------------------------------
(* The live message.                                                       *)

\* recv_timeout: nothing arrived.
ReceiveNothing ==
  /\ pc = "recv"
  /\ outbound = <<>>
  /\ pc' = "tick"
  /\ UNCHANGED <<healthVars, senderQ, delivered, lost, senderVars, envVars,
                 buffer, workVars, held, gateOpen, modeVars>>

Arrival(m) ==
  /\ pc = "recv"
  /\ outbound # <<>>
  /\ m = Head(outbound)
  /\ outbound' = Tail(outbound)
  /\ UNCHANGED unsent

\* A silent message, or a supplemental that may not be sent now.
ReceiveDropped ==
  /\ \E m \in Msgs :
       /\ Arrival(m)
       /\ \/ Silent(m)
          \/ Supplemental(m) /\ (Rejected(m) \/ InCooldown(m.channel))
       /\ lost' = lost \cup {[msg |-> m, why |-> "unwanted"]}
  /\ pc' = "tick"
  /\ UNCHANGED <<healthVars, senderQ, delivered, senderVars, buffer, workVars,
                 held, gateOpen, modeVars>>

(* buffer_deferred_msg_with_replay and _without_replay: a full buffer is   *)
(* replayed once for the other channels' messages, and refuses the active  *)
(* channel's at once; only the latter shut the gate.                       *)
Defer(m) ==
  LET push == TryPush(buffer, m)
  IN  /\ IF Refused(buffer, m) /\ WaitsWhenFull(m)
           THEN /\ held' = m
                /\ StartScan
                /\ UNCHANGED <<buffer, lost>>
           ELSE /\ buffer' = push.buffer
                /\ lost' = lost \cup {[msg |-> b, why |-> IF b = m THEN "full" ELSE "replaced"] :
                                        b \in push.out}
                /\ pc' = "tick"
                /\ cursor' = 0
                /\ UNCHANGED held
      /\ gateOpen' = (gateOpen /\ WaitsWhenFull(m))

\* A primary that may not be sent now.
ReceiveDeferred ==
  /\ \E m \in Msgs :
       /\ Arrival(m)
       /\ Primary(m)
       /\ Rejected(m) \/ InCooldown(m.channel)
       /\ Defer(m)
  /\ UNCHANGED <<healthVars, senderQ, delivered, senderVars, msg, attempt, modeVars>>

\* A message to send.
ReceiveSends ==
  /\ \E m \in Msgs :
       /\ Arrival(m)
       /\ ~Silent(m) /\ ~Rejected(m) /\ Healthy(m.channel)
       /\ msg' = m
  /\ pc' = "send"
  /\ cursor' = 0
  /\ attempt' = 0
  /\ UNCHANGED <<healthVars, senderQ, delivered, lost, senderVars, buffer, held,
                 gateOpen, modeVars>>
-----------------------------------------------------------------------------
(* dispatch_via_sink and dispatch_via_active_driver, and what their        *)
(* callers do with the outcome.                                            *)

\* DispatchOutcome::Sent
Sent ==
  /\ pc' = IF Live THEN "tick" ELSE "scan"
  /\ msg' = NoMsg
  /\ UNCHANGED <<cursor, buffer, held, gateOpen>>

\* Seeded fault: a replayed message that was not sent goes to the end.
PutBackAtEnd ==
  /\ buffer' = Append(buffer, msg)
  /\ pc' = "scanned"
  /\ msg' = NoMsg
  /\ UNCHANGED <<cursor, held, gateOpen, lost>>

\* Seeded fault: a replayed message that was not sent goes to the front.
PutBackAtFront ==
  /\ buffer' = <<msg>> \o buffer
  /\ pc' = "scanned"
  /\ msg' = NoMsg
  /\ UNCHANGED <<cursor, held, gateOpen, lost>>

\* A replayed message that was not sent goes back where it was.
PutBack ==
  /\ buffer' = InsertAt(buffer, cursor, msg)
  /\ pc' = "scanned"
  /\ msg' = NoMsg
  /\ UNCHANGED <<cursor, held, gateOpen, lost>>

\* DispatchOutcome::Deferred
DeferredOutcome ==
  IF Live THEN Defer(msg) /\ msg' = NoMsg ELSE PutBack

\* DispatchOutcome::Failed: a live message is gone, a replayed one is not.
FailedOutcome ==
  IF Live
    THEN /\ lost' = lost \cup {[msg |-> msg, why |-> "failed"]}
         /\ pc' = "tick"
         /\ msg' = NoMsg
         /\ UNCHANGED <<cursor, buffer, held, gateOpen>>
    ELSE PutBack

SendNoSink ==
  /\ pc = "send"
  /\ Answers(msg) = {}
  /\ FailedOutcome
  /\ attempt' = 0
  /\ UNCHANGED <<healthVars, senderQ, delivered, senderVars, envVars, modeVars>>

\* apply_primary_outbound_admission, before the first attempt.
SendRejected ==
  /\ pc = "send"
  /\ attempt = 0
  /\ Answers(msg) # {} /\ Primary(msg) /\ Rejected(msg)
  /\ DeferredOutcome
  /\ UNCHANGED <<healthVars, senderQ, delivered, senderVars, envVars, attempt, modeVars>>

MayAttempt ==
  /\ pc = "send"
  /\ attempt = 0 /\ Primary(msg) => ~Rejected(msg)

SendOk ==
  /\ MayAttempt
  /\ "ok" \in Answers(msg)
  /\ IF ~ByDriver(msg) /\ msg.channel \in QueueChannels
       THEN senderQ' = [senderQ EXCEPT ![msg.channel] = Append(@, msg)]
            /\ UNCHANGED delivered
       ELSE delivered' = Append(delivered, msg) /\ UNCHANGED senderQ
  /\ IF Primary(msg) THEN RecordOk(msg.channel) ELSE UNCHANGED healthVars
  /\ Sent
  /\ attempt' = 0
  /\ UNCHANGED <<lost, senderVars, envVars, modeVars>>

\* Seeded fault: only the kind of the error ends the attempts.
LastErrorByKind(error) ==
  error = "busy" \/ (error = "config" /\ ByDriver(msg))

\* The error ends the attempts.
LastError(error) ==
  \/ attempt + 1 >= AttemptsFor(msg)
  \/ error = "busy"
  \/ error = "config" /\ ByDriver(msg)

SendRetries ==
  /\ MayAttempt
  /\ \E error \in Errors \cap Answers(msg) : ~LastError(error)
  /\ attempt' = attempt + 1
  /\ UNCHANGED <<healthVars, senderQ, delivered, lost, senderVars, envVars,
                 buffer, pc, msg, cursor, held, gateOpen, modeVars>>

\* Out of attempts with a passing error: no failure is recorded.
SendDeferred ==
  /\ MayAttempt
  /\ Primary(msg)
  /\ \E error \in Errors \cap Answers(msg) : LastError(error) /\ Passing(error)
  /\ DeferredOutcome
  /\ attempt' = 0
  /\ UNCHANGED <<healthVars, senderQ, delivered, senderVars, envVars, modeVars>>

\* Seeded fault: the failed primary is not counted against its channel.
SendFailsUncounted ==
  /\ MayAttempt
  /\ \E error \in Errors \cap Answers(msg) :
       LastError(error) /\ (Primary(msg) => ~Passing(error))
  /\ FailedOutcome
  /\ attempt' = 0
  /\ UNCHANGED <<healthVars, senderQ, delivered, senderVars, envVars, modeVars>>

\* Out of attempts with another error, or a supplemental's only attempt.
SendFails ==
  /\ MayAttempt
  /\ \E error \in Errors \cap Answers(msg) :
       LastError(error) /\ (Primary(msg) => ~Passing(error))
  /\ IF Primary(msg) THEN RecordFail(msg.channel) ELSE UNCHANGED healthVars
  /\ FailedOutcome
  /\ attempt' = 0
  /\ UNCHANGED <<senderQ, delivered, senderVars, envVars, modeVars>>
-----------------------------------------------------------------------------
WorkerNext ==
  \/ BeginTick \/ ScanSkips \/ ScanTakes \/ ScanStops
  \/ EndTickReplay \/ EndFullReplay
  \/ ReceiveNothing \/ ReceiveDropped \/ ReceiveDeferred \/ ReceiveSends
  \/ SendNoSink \/ SendRejected \/ SendOk \/ SendRetries \/ SendDeferred \/ SendFails

Senders(c) ==
  /\ SenderNext(c)
  /\ UNCHANGED <<envVars, buffer, pc, workVars, held, gateOpen, modeVars>>

Next ==
  \/ WorkerNext
  \/ \E c \in QueueChannels : Senders(c)
  \/ \E m \in Msgs : Produce(m)
  \/ CloseMode \/ OpenMode \/ GateExpires \/ Second

Spec == Init /\ [][Next]_vars
=============================================================================
