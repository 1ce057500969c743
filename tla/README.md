# A TLA+ model of Beetle OS

Beetle is an agent runtime in Rust for ESP32 boards and Linux hosts: chat
channels bring messages in, one agent thread answers them with language models
and tools, and an outbound worker sends the answers back. Around them run a
background timer, storage write-backs, a lease registry for shared devices and
a mode machine that decides what may run. This directory holds TLA+ modules
for the parts of it where threads, timers, limits, failures and restarts meet,
TLC configurations that check them on small instances, and theorems that hold
for all instances, with proofs for TLAPS.

Paths below are relative to the repository. `tlc -workers 2 -config X.cfg M`
checks a configuration, `tlapm M.tla` a module of proofs.

## 1. The system

```
 channel threads --try_send--> user queue ---\
 (Telegram, QQ,      |full                    agent thread --> outbound bus
  Feishu, gateway)   v                        ^   |  defer        |
                 pending_retry slot --boot----/   v               v
 heartbeat, cron, ------> system queue ----->  delayed queue   outbound worker
 maintenance                   ^                  |            (deferred buffer,
                               +--bg_timer thread-+             breakers)
                                                                  |
 lease registry: display, camera, audio, TLS, heavy turn      sender threads
```

| Component | State | Operations | Met by | Hard part | What makes it correct |
|---|---|---|---|---|---|
| `runtime/lease.rs` | records under a mutex, token counter | try_acquire (three forms), release (four forms) | every thread that uses a shared device, through RAII guards | clock read before the lock, expiry, reentry | exclusive means alone; a guard releases only its own hold |
| `channels/dispatch.rs` | deferred buffer, replay gate | receive, defer, replay, send, retry | producers of replies, sinks, channel health, runtime mode | state read, then slept on; a buffer with a limit | nothing lost unexplained, doubled or reordered; breakers respected; deferred messages leave |
| `channels/send.rs`, `qq/send.rs` | queue and pending slot of each sender thread | take, attempt, keep, give up | dispatch, platform HTTP, channel health | retries around a slot | order of delivery per channel |
| `orchestrator/channel_health.rs` | relaxed atomics per channel | record, ask | dispatch and sender threads at once | two writes per failure, two writers | the threshold trips the breaker |
| `runtime/delayed_task.rs` | jobs under a mutex | schedule (plain, keyed, critical), take due | every thread; the timer | coalescing, eviction, closures that reschedule themselves | quotas, one job per key, bounded deferral, no closure lost unexplained |
| `bg_timer.rs` | deadline, wake generation | plan, wait, serve | delayed_task, mode, heartbeat | missed notifications | bounded lateness |
| `platform/storage/pending_retry.rs` | one file and its mirror | save, load, clear | ingress threads, agent, boot | writes that fail, restarts | mirror and file agree |
| `agent/loop.rs` and its directory | tables of deferrals and failures, count of user turns | receive, admit, defer, degrade, run, retry | both queues, delayed queue, slot, orchestrator | a message may go round for ever | users lose nothing to a limit; the system queue is served |
| `bus.rs` | bounded queues, depth counters | try_send, recv | everybody | counters updated after the fact | depth never wraps |
| `network/mod.rs` | counters of sessions, attempts and requests, a permit, two leases | permit, connect, suspend, drain, resume | gateways, voice, configuration server, HTTP callers | several counters and locks read one after the other, drains with timeouts | who suspends the gateways has the network alone; they come back afterwards |
| `runtime/governance.rs` | phase of the configuration activity, its time | enter, wait for the gateways, finish | configuration server and its worker | two requests, one phase | a write waits for the gateways, and they for its end |
| `runtime/write_back.rs` | pending writes and a flag per store, jobs, retry, worker | set, append, clear, flush, schedule, admit, retry | agent loop, HTTP handlers, delayed_task, storage | three locks per store, a worker that comes and goes | accepted writes reach the storage in order, once, in the end |
| `runtime/mode.rs`, `plane*.rs`, `thread_registry.rs` | mode, plane states | switch, publish | everybody reads | unannounced changes | budgets follow the mode |
| `platform/storage/*`, `state_fs` | files, caches | read, write, append, compact | agent, HTTP API | crash in the middle of a write | old or new, never neither |
| `runtime/linux_release.rs` | staged release, markers | stage, activate, confirm, roll back | systemd, CLI | restart between steps | one bootable release |
| `task_execution`, detached work store | plans and work records | claim, step, complete, requeue | agent loop | restarts, retries | work is done once |
| `chat_stream.rs` | table of open streams, a bounded queue for each | open, queued, delta, final, error, receive, drop | a server thread per request, the agent thread | four who may end a stream, slow readers, a reply that is not what was streamed | ended once, place given back, the whole reply shown |
| gateway, `telegram`, `feishu`, `dingtalk`, `wecom`, `qq` | connections | connect, read, parse, send | platforms | reconnection | modelled only as ingress and sender threads |
| `llm`, `tools`, `skills`, `memory`, `reasoning`, office clients | documents, caches | called inside one turn | agent thread | data, not control | examples and benchmarks in the repository |
| `audio`, `wake`, `display`, platform drivers, `components/beetle_wss` | device state | drivers | leases, voice | I/O | outside TLC's reach |
| `heartbeat`, `cron`, `reminder`, `presence`, `initiative` | schedules | tick | bg_timer | dates | producers of system messages |
| `configure-ui`, `scripts`, `packaging`, `vendor`, `third_party` | | | | | a web front end, tools and foreign code |

`PROJECT.json` lists every component with its status, and the hazards of the
code, each at its line with the property that covers it or the reason why none
does.

## 2. The plan

Ordered so that the way of a message through the system comes first.

| Step | Modules | Why | State |
|---|---|---|---|
| 1 | `LeaseOps`, `Lease`, `LeaseProofs` | everything exclusive rests on it | modelled, checked, proved |
| 2 | `OutboundMsg`, `DeferredBuffer`, `OutboundState`, `SenderLoop`, `Dispatcher`, `Outbound`, `OutboundProofs` | replies must not be lost | modelled, checked, proved |
| 3 | `DelayedTask`, `BgTimer`, `DelayedWork`, `DelayedProofs` | retries of 2, 4 and 6 go through it | modelled, checked, proved |
| 4 | `PendingRetry`, `InboundQueues`, `InboundLoop`, `Inbound`, `InboundProofs` | messages must not be lost or starve | modelled, checked, proved |
| 5 | `WriteBuffer`, `WriteBackQueue`, `WriteBackWorker`, `WriteBehind`, `WriteBack`, `WriteBackProofs`, `WriteBehindProofs` | everything a turn leaves behind is written through it | modelled, checked, proved, its refinement too |
| 6 | `NetworkState`, `WssGateway`, `Suspension`, `Transport`, `TransportProofs` | voice and configuration need the gateways gone, and back | modelled, checked, proved |
| 7 | `DetachedWork`, `TaskExecution` | work across restarts | to do |
| 8 | `RuntimeMode` with planes and thread registry | replaces the free mode of 2 and 3 | to do |
| 9 | `Release` | staged release and rollback | to do |
| 10 | `ChatBroker`, `ChatHttp`, `ChatAgent`, `ChatStream`, `ChatProofs` | the one channel that shows a reply while it is written | modelled, checked, proved |
| 11 | Telegram poll, continuity flush | one module each | to do |
| 12 | `BusDepth` | the counter for the status page that may wrap | to do |

Abstract specifications: `WriteBehind`, a line of accepted writes per chat, is
what `WriteBack` is shown to implement. Worth stating next: a registry of
owners per device that `Lease` implements; a message with the states *waiting,
answered, lost for a stated reason* that `Inbound` and `Outbound` implement; a
deadline per key that `DelayedWork` implements. "Proved" in the table means every
safety property of the component's passing runs; what is left to TLC is liveness
(section 6). Theorems worth proving next are those of the specifications above,
once they are stated.

## 3. The modules and the code

**`LeaseOps`, `Lease`** model `runtime/lease.rs`. A record carries token, kind,
owner, mode, expiry and hold count; the registry's `Vec` is a set, since its
order only picks which holder a denial names. Every call holds the mutex once,
so a call is one action: `DenyAcquire` (the expired records are gone even
then), `Reenter`, `Acquire`, `AcquireOnce`, `DropGuard` (`release_token` with
the token the guard remembers), `Release`, `ReleaseOwner`, `ReleaseKind`. The
clock is read before the mutex is taken: each acquisition chooses any time in
`0..now`. Token and hold counters saturate at `TokenMax` and `HoldMax`.
The ghost `bare` remembers that a release without a token was called, which
only `network::set_external_wss_managed_present` and the tests do: hold counts
follow the guards as long as it was not.

**`OutboundMsg`, `DeferredBuffer`, `OutboundState`, `SenderLoop`,
`Dispatcher`, `Outbound`** model the outbound side. A message is
`[id, channel, reply, kind]`, where `reply` stands for request and chat.
`DeferredBuffer` is `try_push_buffered_msg`. `OutboundState` is what threads
share: the breaker of each channel (`failures`, `age` of the last failure) and
the sender queues. `SenderLoop` is `run_buffered_sender_loop`; a failure that
the QQ sender records is two steps, `AttemptFails` and `FinishRecording`, as
the code makes two relaxed writes. `Dispatcher` is the worker: `BeginTick`,
`ScanSkips`, `ScanTakes`, `ScanStops` and the two ends of a replay for
`replay_cooldown_buffer_with`; the four `Receive…` actions for what may happen
to a live message before it is sent; the six `Send…` actions for
`dispatch_via_sink` and `dispatch_via_active_driver`. With
`ActiveChannel = NoChannel` it is the host's `run_dispatch`, otherwise the
single thread of the ESP build. Producers, the mode, the gate's timer and the
clock are actions between any two of its steps. `Outbound` holds the
properties.

**`DelayedTask`, `BgTimer`, `DelayedWork`**. `DelayedTask` gives each call of
`schedule_…` as a set of outcomes (jobs afterwards, jobs that went, whether
the new one came in); `swap_remove` leaves no order, so the `Vec` is a set.
`BgTimer` has the callers (whose notification follows the push, outside the
lock), the mode, and the timer's loop: `Plan` computes the deadline, `Observe`
reads the wake generation it will compare with, `Wake`, `TakeBatch`, `RunJob`
for one closure at a time outside the lock, `EndLoop` with the agent guard.
`Retry` is a closure that finds its queue full and schedules itself again.
Time passes only while the timer sleeps.

**`PendingRetry`, `InboundQueues`, `InboundLoop`, `Inbound`**. `PendingRetry`
has the slot's file, its mirror and whether the mirror is loaded; an operation
is the set of its outcomes, failures included. `InboundQueues` has the boot
(`bootstrap_pending_retry_into_inbound`: queue the message, then, in a step of
its own, empty the slot), the ingress threads with their attempts, the
producers of system messages, the delayed replay, and the receive of
`recv_next_agent_msg` with one step per look at a queue. `InboundLoop` has
what `run_agent_loop_main` does with a message: adopt a lane job, count it,
reply for maintenance, reject, defer (drop, park or requeue), degrade, admit,
complete, fail; and `Crash`, which keeps the file of the slot alone. The
verdicts of the orchestrator and the outcome of a turn are free choices. The
ghost `gone` says why each message left, `overtaken` counts the user messages
taken while a system message waits, `stale` and `replays` record what the boot
did.

**`WriteBuffer`, `WriteBackQueue`, `WriteBackWorker`, `WriteBehind`,
`WriteBack`**. `WriteBuffer` is what a pending write of a chat is (clear it
first or not, then these entries), how later writes join it and how a failed
one is put back (`PendingMapBuffer`, `PendingSessionBuffer`). `WriteBackQueue`
is the scheduler: jobs by label (`Push`, `Coalesce`, `Reject`), the admission
that wants the device idle for a quiet window (`Granted`, `PutOff`), the retry
timer, and `ensure_write_back_worker_started_inner`, which asks everything a
second time. Its deadlines are kept as what they decide: a job is `due` or
`later`, the next attempt lies ahead or does not; each may pass at any moment.
`WriteBackWorker` has the stores (`pending`, `flush_scheduled` as `flag`,
`stored`), the worker's loop and `flush_map` / `flush_session_store` with one
step per lock: `TakeAll`, `Apply` or `ApplyFails` per chat, `RestoreFailed`,
`ClearScheduled`, `CheckPending`, and `ClearUnlooked` for a flush that found
nothing. The job of `Gc` flushes the session too, as `gc_stale` does. The ghost
`stranded` says why a pending write has no flush ahead. `WriteBack` composes
them; `Agent` is the caller that also asks for maintenance and polls.
`WriteBehind` knows none of this: a line of accepted writes per chat, of which
the first go to the storage, and which only a clear that is accepted or a failing
storage thins. `Behind` maps the worker's hand, then what is pending, to that
line; a write that failed and is to be put back waits in it only until a clear is
pending behind it (`InHand`), since the clear will undo it: when it is put back
nothing happens to the line.

**`NetworkState`, `WssGateway`, `Suspension`, `Transport`** model the ESP
build's governance of connections. `NetworkState` has the counters, the mutex
`TLS_PERMIT`, the leases `ExternalWss` and `TlsHandshake`, what the runtime mode
is derived from, and the steps of a connection, which gateways and voice share;
every load or store of an atomic, and every lock, is a step of its own, also
when a guard is dropped. `ACTIVE_WSS_COUNT` moves with the count of its profile
and is their sum. `WssGateway` is the thread of a channel: its gate, the two
looks at the requests in `connect_external_wss_with_connector`, the lease, the
session, its end. `Suspension` has a realtime voice session
(`VoiceExclusiveTransportGuard`) and requests to the configuration server
(`ConfigActivityGuard`), both waiting for sessions, leases and attempts to be
zero one after the other (`look` is the next one); the server has one thread
(`httpd`), and a request that takes long goes on in its worker with its guard.
`Transport` adds the callers of `request_http_permit`, the composition and the
properties. Free choices: scarce memory, deadlines, errors of the peer. The
clock is trusted and the network up.

**`ChatBroker`, `ChatHttp`, `ChatAgent`, `ChatStream`** model the chat of the
configuration page. `ChatBroker` is the table (`streams`) and the queues
(`frames`, `closed`, `sent`) of `chat_stream.rs`, each with its own lock: what
is done under one lock is one operator, and a thread that has looked an entry
up goes on with its queue after it has left the table. A text is a number, its
bytes are the pieces that fill one frame. `ChatHttp` is the thread of a
request: `Open`, `Enqueue`, `emit_queued` in two steps, then
`recv_with_timeout` until the stream or the client is gone, its own error in
two steps when the wait times out, and `Unregister`, which is the drop of the
receiver. `ChatAgent` is the agent loop as a stream meets it: messages taken,
given up, put off or admitted, `Piece` and `PushDelta` for each piece that the
progress callback is given, a new text with each round, the reply (of the last
round, with a note perhaps, or rewritten), and the ends of a turn. `emit_final`
is `LookUpFinal`, `PushRest` per frame, `RemoveForFinal` and `PushFinal`;
`emit_error` is `RemoveForError` and `PushAgentError`. The ghosts `seen`, `cut`
and `reply` are what a reader was shown, which streams lost content to a full
queue, and what the reply was.

## 4. The runs

| Run | Bounds | Distinct states | Shows |
|---|---|---|---|
| `lease_api` | 2 kinds, 2 owners, 3 guards, clock to 2 | 57 thousand | exclusion, one record per owner, hold counts that follow guards, a stale guard that is harmless, under every operation |
| `outbound_host` | 2 channels, one without a sink, 3 messages, buffer of 2, 2 closed modes | 45 thousand | conservation and order over dispatcher and sender thread; a channel that takes nothing holds back only what waits behind its message |
| `outbound_esp` | 3 channels, 6 messages, buffer of 2, 1 closed mode | 2.4 million | the single worker with its breaker and its gate: its buffer within the limit and in order, no attempt in a cooldown, no reply lost without a reason |
| `delayed` | 3 slots, 1 key, 4 closures of all kinds, clock to 3 | 1.3 million | keys, deferral, lateness, conservation, losses |
| `delayed_latest` | 1 key, 2 closures | violation | a retry replaces a newer message: finding 1 |
| `inbound` | 2 user and 2 system messages, queues of 1, 1 crash, 1 fault | 1.1 million | conservation, mirror, explained losses, share of the system queue, and that a queued system message is taken in the end |
| `inbound_replay_limit` | 3 users, 1 crash | violation | the limit of replays counts saves: finding 2 |
| `write_back` | 2 stores and gc, 1 chat, 2 workers, 2 writes, queue and batch of 2, 1 mishap | 342 thousand | one worker, nothing forgotten but by the known gap, everything flushed in the end, `WriteBehind` implemented |
| `write_back_stranded` | the same, 2 callers, queue of 3, no mishap | violation | the known gap: finding 3 |
| `transport` | 2 gateways, voice, a write and a read of the configuration, 1 caller | 212 thousand | no session beside a suspender, two sessions at most, suspensions take hold, gateways come back |
| `chat_stream` | 2 requests, 1 stream, 1 place in the inbound queue, queues of 2 frames, 2 texts of 1 piece and replies of 1 or 2 | 370 thousand | no stream outlives its receiver, each ends once, the whole reply is shown, every stream ends |
| `chat_canonical_reply` | 1 request, queue of 8, texts of 2 pieces | violation | a rewritten reply is shown without its beginning or not at all: finding 4 |

The limits are smaller than the code's (16 or 64 deferred messages, queues of
8 and more, 3 failures, 60 s) but every limit is reached, and every counter
goes past its threshold: a buffer of two is full with three messages, two
failures trip a breaker, a key is replaced twice within its deferral, a queue of
two jobs refuses the third. Where order matters there are
at least two messages of a channel; where a count matters there is one more
message than the count. In `inbound` the system queue's turn comes after every
user message (`MaxConsecutive` is 1, in the code 4), which keeps the liveness
check small; `inbound_replay_limit` has 2, and the theorem `ShareCorrect` holds
for every value. In `write_back` two writes are what it takes for one to come in
at each step of the flush of another; two labels of two jobs and gc fill the
queue and a batch; with one mishap each kind of trouble (load, refused thread,
refused timer, failing write) meets every state. In `transport` two gateways
compete for a lease, a suspender of each kind meets the other, and the second
configuration request ends the phase of the first. In `chat_stream` a queue of
two frames is full with one piece and the queued event, so content is dropped
for the terminal pair and a piece may meet a full queue; the reply may be longer
than what was streamed by one piece, which is what `emit_final` has to add;
the second request has the same content, so that failures are shared, and its
message is never answered (`MaxTexts` is 0), only put off or given up: it
competes for the stream, for the inbound queue and for the agent.

Names of bounds: `MaxTime`, `MaxMsgs`, `CallerKinds`, `MaxModeChanges`,
`MaxFaults`, `MaxCrashes`, `MaxOps`, `MaxAsked`, `MaxMishaps`, `MaxTexts`,
`MaxPieces`; the code has none of these. `Transport` needs none: its threads go round for ever. `MaxMsgs` and
`MaxTime` stop the runs of `BgTimer` and `Lease` in the middle of a behaviour,
but those check safety only. Symmetry is used for guards, owners and kinds of
`Lease`, whose specification treats them alike, and in no run with a liveness
property.

Each property has a seeded fault: an operator before a definition, marked
"Seeded fault", that changes it as a plausible bug would; replacing the
definition by it breaks the property under the run's own configuration.

## 5. Fairness

`outbound_host`: weak fairness of the worker and the sender threads (they
share no lock and only sleep), of the gate's timer and the clock, and of the
end of a mode that forbids sending; strong fairness of a successful attempt of
the sender of a reliable channel, since a platform that answers every attempt
with an error for ever owes nothing. No fairness of producers, and none of the
other channel, which has no sink and takes nothing. `DeferredLeaves` speaks of a
message with only reliable channels' messages ahead of it: another may wait
behind it, arrive later, fill the buffer and fail every replay.

`inbound`: weak fairness of the agent's thread alone. Its waits have a
timeout (`INBOUND_POLL_SLICE_MS`) and a turn ends: each of its HTTP calls has
a timeout and its rounds are counted. Users, senders and the delayed queue may
do what they like, which includes filling the user queue for ever.

`write_back`: weak fairness of the agent loop's calls, of its poll
(`service_write_back_tasks`, once per turn of its loop), of the steps of
workers taken together (one runs at a time), of the end of a load or the coming
due of a job, and of the next attempt's time. None of the retry timer, which the
delayed queue may refuse: the poll makes up for it. That a load ends is the
device coming to rest, which the quiet window is about.

`transport`: weak fairness of each gateway's thread, of the voice thread and of
each configuration request. The steps that end by a timeout in the code (a
handshake, an exchange over the session) are among them; what nobody has to do
is not: begin a voice session or a request, close a session from the other
side, reach a deadline, end a caller's exchange, pass the activity's window.
`SuspensionTakesHold` excepts a wait during which the mode allows sessions
again (`MayConnect`): the phase of a configuration request is one variable, and
another request that ends replaces it; then gateways are not told to stop and
the wait runs into its deadline, after which the write is refused with a 503.

`chat_stream`: weak fairness of the thread of each request once it has opened
its stream; each of its waits has a timeout (`CHAT_STREAM_RECV_TIMEOUT_SECS`).
Nothing is asked of the agent, which may stop in the middle of a turn, nor of
the client: `StreamEnds` is what the timeout alone is good for.

## 6. What is proved

All theorems hold for every value of the constants that satisfies the named
assumptions (`LimitsAssumption`, `TtlAssumption`, `GuardsAssumption`,
`ChannelAssumption`, `SenderAssumption`, `WorkerAssumption`,
`BufferAssumption`, `QueueAssumption`, `TimerAssumption`, `ReplayAssumption`,
`InboundAssumption`, `AgentAssumption`, `ThreadsAssumption`,
`MaxSessionsAssumption`, `ReliableAssumption`, `BrokerAssumption`,
`InboxAssumption`): that limits are naturals, positive where the code divides
or needs one, that null values are not values (`NoWrite` is no write), that a
stream's queue has room for a terminal pair, that a channel with a sender
thread has a breaker, that a low-priority or lane message is a system message,
that a store has a label of its own, and that the threads of different kinds
are different. TLC evaluates them in the runs.

**`LeaseProofs`**: `TypeCorrect`, `MutualExclusion`, `OwnerRecordUnique`,
`FreshTokens`, `HoldCountIsGuardCount`, `StaleGuardIsHarmless`. Exclusion alone
is not inductive: an owner with two records could release one and reenter the
other, so `ExclusionInv` adds that it has one. The step that matters is the
policy `Never`: expired records stay, and an acquisition beside them is safe
because `ReplacementForbidden` fails only if one of them is active. `HoldInv`
adds to fresh tokens and hold counts that a guard and a record with one token
have one kind and owner (`GuardsMatchRecords`), which makes the first match of a
scan the right one. Tokens are fresh until their counter saturates, after 2^64
acquisitions, and hold counts follow guards until a release without a token.

**`OutboundProofs`**: `TypeCorrect`, `LimitCorrect`, `PrimariesCorrect`,
`BreakerRespected`, `LossCorrect`, `OnePlaceCorrect`, `DeferredOrderCorrect`,
`SenderOrderCorrect`. `WorkInv` is about the worker alone: only primaries are in
its buffer or held for it, and while a replay sends a message the buffer is
below its limit and the cursor inside it, so that putting the message back
neither exceeds the limit nor misses its place. No step of another thread
touches what it speaks of. `BreakerRespected` needs besides that the senders
record failures of their own channels only, and that a channel's age does not
fall below the cooldown while time passes. For `LossCorrect` the worker must
tell a refused message from a replaced one: `FlowInv` says that no message is in
two of the places that lead to the buffer and in none of them twice, and
`HandedInv` that a sender has messages of its own channel. The lemmas on
`RemoveAt`, `InsertAt` and `TryPush` (`RemoveAtElements`, `InsertAtDistinct`,
`PushDistinct`, `PushLosses`) carry the steps. `SpreadInv` adds the places
behind the worker (the senders' slots and queues, what the platforms accepted,
the losses) and their sum with those before it, which makes `MessageInOnePlace`.
The orders follow from the same invariants by one argument (`OrderByShift`): a
step changes a sequence without repetitions around one place, so what stays
before it stays where it was, and what stays behind it is shifted as a whole.
`HandedTo` puts before a sender's slot and queue all that any platform accepted,
not this sender's part alone, which says more: nobody takes back or reorders a
delivery.

**`DelayedProofs`**: `TypeCorrect`, `QuotaCorrect`, `KeyCorrect`,
`DeferralCorrect`, `LatenessCorrect`, `LossesCorrect`, `PlaceCorrect`: every
safety property of the run `delayed`, and the quotas besides. Every call and
every retry goes through one case lemma (`OutcomeCases`, `CallCase`,
`RetryCase`), so each invariant is shown for an outcome and not for each caller.
`QueueInv` adds to quotas and keys that a keyed job's first time is the time its
key entered (`FirstIsSince`). `TimerInv` is the argument for lateness: before it
sleeps the timer's deadline is within a guard period of any job that is due, so
a missed notification costs no more. `PlaceInv` and `ShelfInv` count the
closures by their numbers.

**`InboundProofs`**: `TypeCorrect`, `MirrorCorrect`, `LossCorrect`,
`ShareCorrect`, `OnePlaceCorrect`. `PathInv` gathers slot, queues, hand and
senders. `SlotInv` needs that the mirror is not loaded before the boot read it,
and that the slot is not empty between the replay and its clearing. `ShareInv`
is the argument for the share: the user messages that have overtaken a waiting
system message are among those the agent has counted since (`Counted`), and the
agent looks at the system queue first when the count is reached. `PlaceInv`
strengthens `MessageInOnePlace`: no queue holds a message twice, a message that
has not come is nowhere, a file without an entry in its mirror holds one of the
excepted messages (`stale`), and between the replay at boot and the clearing of
the slot the message is in both and counted in the queue.

**`WriteBackProofs`**: `WriteBackTypes`, `OneWriteBackWorker`,
`PendingAlwaysHasFlush`, `FlagAlwaysCovered`, from the invariant `WriteBackInv`
(`WriteBackAlways`). `PendingHasFlush` alone is not inductive: a write that
finds `flush_scheduled` up asks for nothing and relies on whoever raised it.
`FlagIsCovered` is what that reliance needs: the flag is up only while a flush
of the store is queued, in a batch, running before its clear, or being asked
for. `OneWorker` needs that a worker outside a flush has no batch
(`WorkersAreConsistent`); it makes `FlagIsCovered` hold when a flush clears the
flag.

**`WriteBehindProofs`**: `WriteBackImplements`, the refinement. Each step is
mapped through the lines of the chats: most leave every line alone, a caller's
write joins one (`Promise`, where what a clear undoes is gone), `Apply` takes a
front of one to the storage (`Persist`), `ApplyFails` is `Fail`, and
`RestoreFailed`, which puts all failed writes of the store back at once, is a
stutter. The last is why `InHand` counts a failed write only until a clear is
pending behind it: with a map that counted it until it is put back, two chats
that failed in one flush would change their lines in one step, which no step of
`WriteBehind` does; with one chat, as in the run, the difference does not show.
`BufferInv` is what the map needs besides `WriteBackInv`: a map store's write
replaces the value, no entry is the number that stands for a wipe, a chat's
write is still to be applied or has failed, not both, and a worker outside the
writing of a flush holds nothing.

**`TransportProofs`**: `TypeCorrect` (no unsigned counter goes below zero),
`SuspenderIsAlone`, `TwoSessions`, from `TransportInv` (`TransportAlways`). The
counters of attempts and of requests are the numbers of threads at the places
that hold them (`AttemptInv`, `RequestInv`), so a thread that waits or has
waited keeps `requests` above zero (`AskedIsCounted`). `GoneInv` starts at the
second of the three looks: a thread that has seen no lease finds that no gateway
has a session or is past its second look at the requests, and one that takes the
lease later meets the request there. That is why the drain must read leases
before it is done, and why the first look of `connect_external_wss` is not
enough. Neither `MaxSessions` nor the mode has a part in it.

**`ChatProofs`**: `TypeCorrect`, `Answered`, `EndedOnceOnly`, from `ChatInv`
(`ChatInvariant`), and `WholeReplyShown`, from `SharedInv` (`SharedAlways`).
Four may end a stream: its thread, when the message is refused or a wait times
out, the agent with the reply or an error, and the receiver that goes.
`StreamOK` says that the table is what decides: a stream in it is open and
nobody is about to end it, and whoever takes it out closes it in a step of its
own, `Ending` until then. `QueueOK` follows: a queue that is open has no end in
it or before it, so the one pair that closes it is the only one (`PairEnds`),
and a frame that is read stays where it was in the whole (`ReadKeepsLog`). The
whole reply needs two things more. `PlaceInv`: the message of a request is in
one place, and in none once its stream has a final, so no second turn streams
into an answered stream. `TextInv`: an open stream's log has the pieces of the
text in hand up to the one the agent is at, each once and in order (`PhaseOK`),
and its count is the farthest piece of any text (`CountOK`). When `emit_final`
looks the stream up, the two meet: if the reader was shown no other text, the
count is the number of pieces told of this one (`AllCounted`), so what is passed
over is what the reader has.

Left to TLC is liveness, which needs ENABLED and fairness: `DeferredLeaves`,
`SystemServed`, `WritesAreFlushed`, `SuspensionTakesHold`, `GatewaysComeBack`
and `StreamEnds`; and the four properties that the code violates, of course.

## 7. Where code and documentation differ

1. A test of `runtime/delayed_task.rs` says that a key keeps its latest job; a
   retry that finds the queue full replaces a newer one (`delayed_latest`).
2. `constants.rs` says that a saved message is given up after a number of
   replays; the slot counts saves, and a message inherits the count of the one
   it overwrites, so the third message saved between two boots is discarded
   without a replay (`inbound_replay_limit`).
3. `runtime/write_back.rs` says that the background plane takes over the small
   writes; a flush that finds nothing clears `flush_scheduled` without the
   second look the other path takes, over a write that has just come in and
   relies on that flag: it has no flush ahead until its store is written again
   (`write_back_stranded`).
4. `agent/loop/reply_finalize.rs` says that the canonical reply is produced once
   and delivery only transports it; `emit_final` transports what lies beyond
   the bytes that were streamed, of whatever text: after a round with narration,
   a provider that failed half-way or a review that rewrote the reply, the
   reader gets a text and the rest of another (`chat_canonical_reply`).

Two facts of the outbound side have no run of their own. The header of
`channels/dispatch.rs` says that the breaker of each channel keeps one channel from dragging down the
rest. The replay stops at the first message that is not sent
(`dispatch.rs:402-406`), and a channel without a breaker, or whose failures do
not count, never opens one: a reply to a webhook has no sink, and is dropped when
it is live; deferred, because it came while a mode forbade sending, it fails at
every replay, is put back and holds back all that waits behind it for ever. That
is the model's behaviour too: `DeferredLeaves` stated for every deferred message
of a reliable channel, without the condition on what is ahead of it, fails under
the bounds of `outbound_host`. And a message handed to a sender's queue counts as
a success of the channel, which starts the count of the sender's failures again.

## 8. What is not modelled

The components marked `not_modelled` in `PROJECT.json`: those of steps 7 to 9
and 11 to 12 are to come, the others are data (memory, reasoning, documents, prompts), I/O
(drivers, TLS, HTTP, display) or code outside the program. Within the modelled
parts:

- the text and size of messages, formatting and chunking, logging, metrics;
- the orchestrator's verdicts, which are free choices: no property here says
  when a message is admitted;
- the turn, which is one step with any outcome in `InboundLoop` and texts of
  any number of pieces in `ChatAgent`;
- the delayed queue as the inbound side sees it, which may refuse a job and
  run it at any later time: `DelayedTask` says what it does in full;
- a crash in the middle of a file write: a write replaces the file as a whole,
  as on a host; on ESP it does not (see the hazards);
- closures that take long on the timer thread, and a delayed message whose queue
  has lost its receiver, which ends with the process;
- in the outbound worker, the sleeps between the check of the mode and the first
  attempt, and in the write-back scheduler the moments between a push, the look
  for due jobs and the admission: these are one step, and of the scheduler's
  the same questions are asked again before a worker is started;
- a task of a flush that panics, which the code catches and logs;
- crashes of the outbound side, where nothing is persisted, and of the
  write-back plane, whose pending writes a crash loses by design;
- reads through the buffered stores and the cache of the turn ledger; the
  removal of stale sessions by gc, which touches no chat in use; the ordering of
  jobs within a batch; the storage lease, which has no other holder;
- of the transport: the flags and counters of reasons that only the status page
  reads, `set_external_wss_managed_present`, the modes Upgrade, Booting and
  Recovery, the window of the realtime admission, a gateway's own request for
  its URL, the slot of streamed responses, and the host build, which takes no
  TLS permit;
- of the chat streams: the split of a text into frames (a piece is one) and the
  limit of a frame's bytes, the refusal of a request before it opens a stream
  (404, 503), the client's bytes, and the other channels' messages in the inbound
  queue.
