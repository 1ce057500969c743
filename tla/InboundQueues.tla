---------------------------- MODULE InboundQueues ----------------------------
(***************************************************************************)
(* The way of an inbound message to the agent: the replay of the slot of   *)
(* PendingRetry at boot, the ingress threads of the channels, the user and *)
(* the system queue of the bus, and the receive of the agent loop.         *)
(* InboundLoop adds what the agent does with a message.                    *)
(*                                                                         *)
(* Sources: src/src/app_runtime_support.rs, src/src/agent/loop/driver.rs,  *)
(* src/src/agent/loop/background_jobs.rs and the senders of                *)
(* src/src/channels.  The delayed queue is DelayedTask seen from here: it  *)
(* may refuse a job, for other threads use it too, and it runs a job at    *)
(* any later time.                                                         *)
(***************************************************************************)
EXTENDS PendingRetry, FiniteSets, SequencesExt

CONSTANTS
  UserMsgs, SystemMsgs,  \* IngressKind of a message
  LaneMsgs,              \* is_lane_background_job
  LowPriorityMsgs,       \* SystemWorkClass::BackgroundLowPriority
  GatewayMsgs,           \* received by channels/wss_gateway
  PassiveMsgs,           \* of the QQ channel, whose replies have a deadline
  Keys, KeyOf(_),        \* msg_key: a hash of channel, chat and content
  TriesOf(_),            \* attempts of an ingress thread at the user queue
  UserCap, SystemCap,    \* capacities of the two queues
  MaxConsecutive,        \* MAX_CONSECUTIVE_USER_MSGS
  MaxDefer,              \* MAX_DEFER_RETRIES
  MaxFailures,           \* failed turns after which a message is not retried
  NoMsg,
  MaxFaults, MaxCrashes  \* bounds

Msgs == UserMsgs \cup SystemMsgs

ASSUME InboundAssumption ==
  /\ UserMsgs \cap SystemMsgs = {} /\ NoMsg \notin Msgs
  /\ LaneMsgs \subseteq SystemMsgs /\ LowPriorityMsgs \subseteq SystemMsgs
  /\ \A m \in Msgs : KeyOf(m) \in Keys /\ TriesOf(m) \in Nat
  /\ UserCap \in Nat \ {0} /\ SystemCap \in Nat \ {0}
  /\ MaxConsecutive \in Nat \ {0} /\ MaxDefer \in Nat /\ MaxFailures \in Nat
  /\ Empty \notin [msg : Msgs, count : 1..MaxReplay]

VARIABLES
  store,        \* PendingRetry
  unsent,       \* messages that have not come yet
  tries,        \* failed attempts, for the messages of the ingress threads
  ingress,      \* messages in the hands of an ingress thread
  userQ, systemQ,
  delayed,      \* user messages parked in the delayed queue
  pc, hand,     \* the main thread at boot, then the agent, and its message
  consecutive,  \* consecutive_user_msgs, up to MaxConsecutive
  deferCount,   \* defer_tracker, up to MaxDefer
  failures,     \* llm_failure_count, up to MaxFailures
  gone,         \* ghost: what became of the messages that left, and why
  stale,        \* ghost: messages the slot kept although it was to be emptied
  replays,      \* ghost: times a message was replayed at boot
  overtaken,    \* ghost: user messages taken while one system message waits
  faults, crashes  \* ghosts: the bounds

queues == <<userQ, systemQ>>
tables == <<deferCount, failures>>
ghosts == <<stale, replays>>
bounds == <<faults, crashes>>
senders == <<unsent, tries, ingress>>
vars == <<store, senders, queues, delayed, pc, hand, consecutive, tables,
          gone, ghosts, overtaken, bounds>>

Init ==
  /\ store = Fresh(Empty) /\ unsent = Msgs /\ tries = [m \in Msgs |-> 0]
  /\ ingress = {} /\ userQ = <<>> /\ systemQ = <<>> /\ delayed = {}
  /\ pc = "boot" /\ hand = NoMsg /\ consecutive = 0
  /\ deferCount = [k \in Keys |-> 0] /\ failures = [k \in Keys |-> 0]
  /\ gone = {} /\ stale = {} /\ replays = [m \in Msgs |-> 0] /\ overtaken = 0
  /\ faults = 0 /\ crashes = 0

-----------------------------------------------------------------------------
Up(n, limit) == IF n < limit THEN n + 1 ELSE limit

Left(m, why) == [msg |-> m, why |-> why]

\* choose_inbound_tx and try_send.
Room(m) == IF m \in UserMsgs THEN Len(userQ) < UserCap ELSE Len(systemQ) < SystemCap

Enqueue(m) ==
  IF m \in UserMsgs
  THEN userQ' = Append(userQ, m) /\ UNCHANGED systemQ
  ELSE systemQ' = Append(systemQ, m) /\ UNCHANGED userQ

\* The outcome of an operation of the store, a failure within the bound.
Outcome(o) ==
  /\ o.ok \/ faults < MaxFaults
  /\ store' = o.store
  /\ faults' = IF o.ok THEN faults ELSE faults + 1

\* A caller of save_pending_retry: a failed save is logged, the message lost;
\* a save loses the message it overwrites.
Overwritten(m) ==
  LET old == Loaded(store).entry
  IN  IF old # Empty /\ old.msg # m THEN {Left(old.msg, "overwritten")} ELSE {}

SaveSlot(m) ==
  \E o \in Save(store, m) :
    /\ Outcome(o)
    /\ gone' = gone \cup (IF o.ok THEN Overwritten(m) ELSE {Left(m, "unsaved")})

Requeue(m) ==
  \/ Room(m) /\ Enqueue(m) /\ UNCHANGED <<store, faults, gone>>
  \/ ~Room(m) /\ SaveSlot(m) /\ UNCHANGED queues

-----------------------------------------------------------------------------
(* Boot: bootstrap_pending_retry_into_inbound, before the channels and the *)
(* agent are started.                                                      *)
BootUnreadable ==
  /\ pc = "boot" /\ \E o \in ReadFailure(store) : Outcome(o)
  /\ pc' = "poll"
  /\ UNCHANGED <<senders, queues, delayed, hand, consecutive, tables, gone,
                 ghosts, overtaken, crashes>>

BootNothing ==
  /\ pc = "boot" /\ Loaded(store).entry = Empty
  /\ store' = Loaded(store) /\ pc' = "poll"
  /\ UNCHANGED <<senders, queues, delayed, hand, consecutive, tables, gone,
                 ghosts, overtaken, bounds>>

BootDiscard ==
  /\ pc = "boot" /\ CountedOut(store)
  /\ \E o \in Discard(store) :
       /\ Outcome(o)
       /\ stale' = IF o.ok THEN stale ELSE stale \cup {store.file.msg}
  /\ gone' = gone \cup {Left(store.file.msg, "discarded")}
  /\ pc' = "poll"
  /\ UNCHANGED <<senders, queues, delayed, hand, consecutive, tables, replays,
                 overtaken, crashes>>

Replayable == Loaded(store).entry # Empty /\ ~CountedOut(store)

BootDropStale ==
  /\ pc = "boot" /\ Replayable /\ store.file.msg \in PassiveMsgs
  /\ \E o \in Clear(Loaded(store)) :
       /\ Outcome(o)
       /\ stale' = IF o.ok THEN stale ELSE stale \cup {store.file.msg}
  /\ gone' = gone \cup {Left(store.file.msg, "stale")}
  /\ pc' = "poll"
  /\ UNCHANGED <<senders, queues, delayed, hand, consecutive, tables, replays,
                 overtaken, crashes>>

\* The queues are empty at boot, so the message always finds room.
BootReplay ==
  /\ pc = "boot" /\ Replayable
  /\ store' = Loaded(store)
  /\ Enqueue(store.file.msg)
  /\ replays' = [replays EXCEPT ![store.file.msg] = Up(@, MaxReplay)]
  /\ pc' = "clear"
  /\ UNCHANGED <<senders, delayed, hand, consecutive, tables, gone, stale,
                 overtaken, bounds>>

\* Seeded fault: a replayed message stays in the slot.
BootKeeps ==
  /\ pc = "clear" /\ pc' = "poll"
  /\ UNCHANGED <<store, senders, queues, delayed, hand, consecutive, tables,
                 gone, ghosts, overtaken, bounds>>

BootClear ==
  /\ pc = "clear"
  /\ \E o \in Clear(store) :
       /\ Outcome(o)
       /\ stale' = IF o.ok THEN stale ELSE stale \cup {store.entry.msg}
  /\ pc' = "poll"
  /\ UNCHANGED <<senders, queues, delayed, hand, consecutive, tables, gone,
                 replays, overtaken, crashes>>

Boot == \/ BootUnreadable \/ BootNothing \/ BootDiscard
        \/ BootDropStale \/ BootReplay \/ BootClear

-----------------------------------------------------------------------------
(* The senders, running once the boot is over.                             *)
Running == pc \notin {"boot", "clear"}

\* A message of a user reaches a channel's ingress thread.
Arrive(m) ==
  /\ Running /\ m \in unsent \cap UserMsgs
  /\ unsent' = unsent \ {m} /\ ingress' = ingress \cup {m}
  /\ UNCHANGED <<store, tries, queues, delayed, pc, hand, consecutive, tables,
                 gone, ghosts, overtaken, bounds>>

LetGo(m) == ingress' = ingress \ {m} /\ tries' = [tries EXCEPT ![m] = 0]

IngressSends(m) ==
  /\ Running /\ m \in ingress /\ tries[m] < TriesOf(m) /\ Room(m)
  /\ Enqueue(m) /\ LetGo(m)
  /\ UNCHANGED <<store, unsent, delayed, pc, hand, consecutive, tables,
                 gone, ghosts, overtaken, bounds>>

\* Seeded fault: one attempt too many is made.
IngressFullOnceMore(m) ==
  /\ Running /\ m \in ingress /\ tries[m] <= TriesOf(m) /\ ~Room(m)
  /\ tries' = [tries EXCEPT ![m] = @ + 1]
  /\ UNCHANGED <<store, unsent, ingress, queues, delayed, pc, hand, consecutive,
                 tables, gone, ghosts, overtaken, bounds>>

\* A full queue: 200 ms later the thread tries again.
IngressFull(m) ==
  /\ Running /\ m \in ingress /\ tries[m] < TriesOf(m) /\ ~Room(m)
  /\ tries' = [tries EXCEPT ![m] = @ + 1]
  /\ UNCHANGED <<store, unsent, ingress, queues, delayed, pc, hand, consecutive,
                 tables, gone, ghosts, overtaken, bounds>>

\* After the last attempt, or at once when the gateway meets critical pressure.
IngressSaves(m) ==
  /\ Running /\ m \in ingress
  /\ tries[m] = TriesOf(m) \/ (tries[m] = 0 /\ m \in GatewayMsgs)
  /\ SaveSlot(m) /\ LetGo(m)
  /\ UNCHANGED <<unsent, queues, delayed, pc, hand, consecutive, tables,
                 ghosts, overtaken, crashes>>

\* The producers of system messages (heartbeat, initiative, maintenance) drop
\* what does not fit.
SystemSends(m) ==
  /\ Running /\ m \in unsent \cap SystemMsgs
  /\ unsent' = unsent \ {m}
  /\ \/ Room(m) /\ Enqueue(m) /\ UNCHANGED gone
     \/ ~Room(m) /\ gone' = gone \cup {Left(m, "dropped")} /\ UNCHANGED queues
  /\ UNCHANGED <<store, tries, ingress, delayed, pc, hand, consecutive, tables,
                 ghosts, overtaken, bounds>>

\* The closure of schedule_user_inbound_retry.  It schedules itself again when
\* the queue is full, and nobody looks at the answer when that is refused.
DelayedRuns(m) ==
  /\ Running /\ m \in delayed
  /\ \/ Room(m) /\ Enqueue(m) /\ UNCHANGED gone
     \/ ~Room(m) /\ gone' = gone \cup {Left(m, "refused")} /\ UNCHANGED queues
  /\ delayed' = delayed \ {m}
  /\ UNCHANGED <<store, senders, pc, hand, consecutive, tables, ghosts,
                 overtaken, bounds>>

-----------------------------------------------------------------------------
(* The agent: recv_next_agent_msg, one step for each look at a queue.      *)
Elsewhere == <<store, senders, delayed, tables, gone, ghosts, bounds>>

PrefersSystem == consecutive >= MaxConsecutive

TakeUser ==
  /\ userQ # <<>>
  /\ hand' = Head(userQ) /\ userQ' = Tail(userQ) /\ pc' = "taken"
  /\ overtaken' = IF systemQ = <<>> THEN 0 ELSE Up(overtaken, MaxConsecutive + 1)
  /\ UNCHANGED <<systemQ, consecutive>>

TakeSystem ==
  /\ systemQ # <<>>
  /\ hand' = Head(systemQ) /\ systemQ' = Tail(systemQ) /\ pc' = "taken"
  /\ overtaken' = 0
  /\ UNCHANGED <<userQ, consecutive>>

GoOn(next) == pc' = next /\ UNCHANGED <<queues, hand, consecutive, overtaken>>

\* Seeded fault: the system queue gets no turn of its own.
UsersFirst == pc = "poll" /\ GoOn("user") /\ UNCHANGED Elsewhere

PollPreferred ==
  /\ pc = "poll"
  /\ \/ PrefersSystem /\ TakeSystem
     \/ (PrefersSystem => systemQ = <<>>) /\ GoOn("user")
  /\ UNCHANGED Elsewhere

PollUser ==
  /\ pc = "user"
  /\ TakeUser \/ (userQ = <<>> /\ GoOn("system"))
  /\ UNCHANGED Elsewhere

PollSystem ==
  /\ pc = "system"
  /\ TakeSystem \/ (systemQ = <<>> /\ GoOn("wait"))
  /\ UNCHANGED Elsewhere

\* recv_timeout of at most INBOUND_POLL_SLICE_MS on the user queue alone.
WaitUser ==
  /\ pc = "wait"
  /\ TakeUser \/ (userQ = <<>> /\ GoOn("poll"))
  /\ UNCHANGED Elsewhere

Poll == PollPreferred \/ PollUser \/ PollSystem \/ WaitUser
=============================================================================
