---------------------------- MODULE OutboundState ----------------------------
(***************************************************************************)
(* What the outbound threads share: the health of the channels             *)
(* (src/src/orchestrator/channel_health.rs, relaxed atomics written by the *)
(* worker and by the QQ sender thread), the bounded queue in front of each *)
(* sender thread, and the fate of every message.                           *)
(***************************************************************************)
EXTENDS Naturals, Sequences, FiniteSets

CONSTANTS
  Channels,       \* channel names
  TrackedChannels,\* those with a slot in channel_health (channel_to_index)
  QueueChannels,  \* those whose sink is a QueuedSink with a sender thread
  Msgs,           \* the messages producers may emit
  NoMsg,
  FailThreshold,  \* CHANNEL_FAIL_THRESHOLD (3)
  CooldownSecs    \* CHANNEL_FAIL_COOLDOWN_SECS (60)

ASSUME ChannelAssumption ==
  /\ TrackedChannels \subseteq Channels
  /\ QueueChannels \subseteq TrackedChannels
  /\ NoMsg \notin Msgs
  /\ FailThreshold \in Nat \ {0}
  /\ CooldownSecs \in Nat \ {0}

VARIABLES
  failures,    \* consecutive_failures, counted up to FailThreshold
  age,         \* seconds since last_failure_uptime_secs, up to CooldownSecs
  senderQ,     \* the queue of each sender thread
  delivered,   \* what the platforms accepted, in order
  lost         \* what no thread holds any more: [msg, why]

healthVars == <<failures, age>>

Saturated(n, max) == IF n < max THEN n ELSE max

\* is_channel_healthy: a channel without a slot is always healthy.
Healthy(c) ==
  c \in TrackedChannels => \/ failures[c] < FailThreshold
                           \/ age[c] >= CooldownSecs

InCooldown(c) == ~Healthy(c)

\* record_channel_result(c, true)
RecordOk(c) ==
  IF c \in TrackedChannels
    THEN failures' = [failures EXCEPT ![c] = 0] /\ UNCHANGED age
    ELSE UNCHANGED healthVars

\* record_channel_result(c, false): first the count ...
CountFailure(c) ==
  failures' = [failures EXCEPT ![c] = Saturated(@ + 1, FailThreshold)]

\* ... then the time.
StampFailure(c) == age' = [age EXCEPT ![c] = 0]

\* Both, for the thread that decides on them next.
RecordFail(c) ==
  IF c \in TrackedChannels
    THEN CountFailure(c) /\ StampFailure(c)
    ELSE UNCHANGED healthVars

\* One second passes on the monotonic clock (uptime_secs).
ASecond ==
  /\ \E c \in TrackedChannels : age[c] < CooldownSecs
  /\ age' = [c \in TrackedChannels |-> Saturated(age[c] + 1, CooldownSecs)]
  /\ UNCHANGED <<failures, senderQ, delivered, lost>>

InitOutboundState ==
  /\ failures = [c \in TrackedChannels |-> 0]
  /\ age = [c \in TrackedChannels |-> 0]
  /\ senderQ = [c \in QueueChannels |-> <<>>]
  /\ delivered = <<>>
  /\ lost = {}
=============================================================================
