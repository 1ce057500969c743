------------------------------ MODULE BgTimer ------------------------------
(***************************************************************************)
(* The background timer thread of src/src/bg_timer.rs and the threads that *)
(* schedule delayed tasks for it.  The inbound queues its jobs send to     *)
(* have many other senders, so a queue may be full at any attempt.  One    *)
(* tick of the clock is long next to a step of a thread: time passes only  *)
(* while the timer sleeps.                                                 *)
(***************************************************************************)
EXTENDS DelayedTask

CONSTANTS
  Delays,       \* how far ahead callers schedule
  RetryDelay,   \* BACKGROUND_DEFER_DELAY_MS, the wait after a full queue
  GuardPeriod,  \* AGENT_GUARD_INTERVAL_SECS
  WaitMax,      \* HEARTBEAT_INTERVAL_SECS, the longest sleep the jobs allow
  CallerKinds,  \* bound: the closures that callers schedule here
  MaxMsgs,      \* bound: closures scheduled in one behaviour
  MaxTime       \* bound: ticks in one behaviour

ASSUME TimerAssumption ==
  /\ Delays \subseteq 0..MaxDefer
  /\ RetryDelay \in 1..MaxDefer
  /\ GuardPeriod \in Nat \ {0} /\ WaitMax \in Nat \ {0}
  /\ CallerKinds \subseteq Kinds

VARIABLES
  now,
  allowBestEffort,  \* the runtime mode's allow_best_effort_delayed_tasks
  pending,          \* DelayedTaskState.pending
  unnotified,       \* callers between their push and notify_deadline_changed
  news,             \* the wake generation differs from the observed one
  pc,               \* where the timer thread is
  deadline,         \* next_wake_at
  nextGuard,        \* next_agent_guard_at
  batch,            \* the due jobs taken and not yet run
  nextMsg,          \* numbers the closures in the order they are scheduled
  done,             \* ghost: closures that ran, or sent their message
  superseded,       \* ghost: closures another one with their key replaced
  lost,             \* ghost: accepted closures that were thrown away
  since,            \* ghost: when each key last entered the queue
  allowedSince      \* ghost: when the mode last let best-effort jobs run

jobVars == <<pending, done, superseded, lost, since>>
timerVars == <<pc, deadline, nextGuard, batch>>
vars == <<now, allowBestEffort, allowedSince, unnotified, news, nextMsg,
          jobVars, timerVars>>

Job(msg, kind, key, delay) ==
  [msg |-> msg, kind |-> kind, key |-> key, first |-> now, due |-> now + delay]

\* Why an accepted closure was thrown away, and what the queue held then.
Loss(job, why) ==
  [msg |-> job.msg, critical |-> Critical(job), why |-> why,
   nCritical |-> Cardinality(CriticalJobs(pending)),
   nBestEffort |-> Cardinality(BestEffortJobs(pending))]

\* What a call of schedule_... does to the jobs it throws out.
Displace(outcome, job, lostToo) ==
  LET replaced == {j \in outcome.out : j.key # NoKey /\ j.key = job.key}
      evicted == outcome.out \ replaced
  IN  /\ pending' = outcome.pending
      /\ since' = IF job.key = NoKey \/ SameKey(pending, job) # {} THEN since
                  ELSE [since EXCEPT ![job.key] = now]
      /\ superseded' = superseded \cup {j.msg : j \in replaced}
      /\ lost' = lost \cup {Loss(j, "evicted") : j \in evicted} \cup lostToo

-----------------------------------------------------------------------------
Init ==
  /\ now = 0 /\ allowBestEffort = FALSE /\ allowedSince = 0
  /\ pending = {} /\ unnotified = 0 /\ news = FALSE
  /\ pc = "plan" /\ deadline = 0 /\ nextGuard = GuardPeriod /\ batch = {}
  /\ nextMsg = 1
  /\ done = {} /\ superseded = {} /\ lost = {} /\ since = [k \in Keys |-> 0]

(* A caller on any thread.  A replacement that comes due sooner notifies   *)
(* under the queue's mutex, a push after it is released; a refused caller  *)
(* gets its closure back.                                                  *)
Announce(outcome, job) ==
  LET replaced == {j \in outcome.out : j.key # NoKey /\ j.key = job.key}
  IN  \/ /\ replaced # {}
         /\ news' = (news \/ \E j \in replaced, k \in outcome.in : k.due < j.due)
         /\ UNCHANGED unnotified
      \/ /\ replaced = {}
         /\ unnotified' = unnotified + Cardinality(outcome.in)
         /\ UNCHANGED news

Call(job) ==
  \E outcome \in Schedule(pending, job) :
    /\ nextMsg <= MaxMsgs /\ job.kind \in CallerKinds
    /\ nextMsg' = IF outcome.in = {} THEN nextMsg ELSE nextMsg + 1
    /\ Displace(outcome, job, {})
    /\ Announce(outcome, job)
    /\ UNCHANGED <<now, allowBestEffort, allowedSince, done, timerVars>>

\* schedule_system_inbound_msg
ScheduleSystem == \E d \in Delays : Call(Job(nextMsg, "system", NoKey, d))
\* schedule_bounded_keyed_system_inbound_msg
ScheduleKeyed == \E d \in Delays, k \in Keys : Call(Job(nextMsg, "keyed", k, d))
\* schedule_user_inbound_retry
ScheduleUser == \E d \in Delays : Call(Job(nextMsg, "user", NoKey, d))
\* schedule_critical_delayed_task with a closure that sends nothing
SchedulePlain == \E d \in Delays : Call(Job(nextMsg, "plain", NoKey, d))

Notify ==
  /\ unnotified > 0
  /\ unnotified' = unnotified - 1
  /\ news' = TRUE
  /\ UNCHANGED <<now, allowBestEffort, allowedSince, nextMsg, jobVars, timerVars>>

ModeChanges ==
  /\ allowBestEffort' = ~allowBestEffort
  /\ allowedSince' = IF allowBestEffort THEN 0 ELSE now
  /\ UNCHANGED <<now, unnotified, news, nextMsg, jobVars, timerVars>>

-----------------------------------------------------------------------------
\* next_delayed_task_wait_with_policy, as the one point in time
NextJobTimes ==
  LET times == {j.due : j \in {k \in pending : Eligible(k, allowBestEffort)}}
               \cup {now + WaitMax}
  IN  {Later(t, now) : t \in {u \in times : \A v \in times : u <= v}}

(* Seeded fault: the sleep is set by the jobs alone.                       *)
WakeForJobs == NextJobTimes

\* the part of next_wake_at that bounds the sleep
WakeTimes == {Earlier(t, nextGuard) : t \in NextJobTimes}

Plan ==
  /\ pc = "plan" /\ pc' = "observe"
  /\ deadline' \in WakeTimes
  /\ UNCHANGED <<now, allowBestEffort, allowedSince, unnotified, news, nextMsg,
                 jobVars, nextGuard, batch>>

\* wait_until_or_notified reads the generation it will compare with.
Observe ==
  /\ pc = "observe" /\ pc' = "wait"
  /\ news' = FALSE
  /\ UNCHANGED <<now, allowBestEffort, allowedSince, unnotified, nextMsg, jobVars,
                 deadline, nextGuard, batch>>

Wakes == pc = "wait" /\ (deadline <= now \/ news)

Wake ==
  /\ Wakes /\ pc' = "service"
  /\ deadline' = 0
  /\ UNCHANGED <<now, allowBestEffort, allowedSince, unnotified, news, nextMsg,
                 jobVars, nextGuard, batch>>

\* service_delayed_tasks takes the due jobs and runs them without the lock.
TakeBatch ==
  /\ pc = "service" /\ pc' = "run"
  /\ batch' = DueJobs(pending, now, allowBestEffort)
  /\ pending' = pending \ batch'
  /\ since' = [k \in Keys |-> IF \E j \in batch' : j.key = k THEN 0 ELSE since[k]]
  /\ UNCHANGED <<now, allowBestEffort, allowedSince, unnotified, news, nextMsg,
                 done, superseded, lost, deadline, nextGuard>>

(* Seeded fault: the message is queued and scheduled again all the same.   *)
RetryAfterSending(job) ==
  LET again == Job(job.msg, job.kind, job.key, RetryDelay)
  IN  \E outcome \in Schedule(pending, again) :
        /\ Displace(outcome, again, {})
        /\ done' = done \cup {job.msg}

\* The closure found its queue full and schedules itself again; a refusal is
\* ignored.  The timer itself is awake, so its own notification is moot.
Retry(job) ==
  LET again == Job(job.msg, job.kind, job.key, RetryDelay)
  IN  \E outcome \in Schedule(pending, again) :
        /\ Displace(outcome, again,
                    IF outcome.in = {} THEN {Loss(job, "refused")} ELSE {})
        /\ done' = done

\* The closure runs to its end: a message is queued for the agent.
Finish(job) ==
  /\ done' = done \cup {job.msg}
  /\ UNCHANGED <<pending, superseded, lost, since>>

RunPlain(job) == job.kind = "plain" /\ Finish(job)
RunSystem(job) == job.kind \in {"system", "keyed"} /\ (Finish(job) \/ Retry(job))
RunUser(job) == job.kind = "user" /\ (Finish(job) \/ Retry(job))

RunJob ==
  /\ pc = "run"
  /\ \E job \in Soonest(batch) :
       /\ batch' = batch \ {job}
       /\ RunPlain(job) \/ RunSystem(job) \/ RunUser(job)
  /\ UNCHANGED <<now, allowBestEffort, allowedSince, unnotified, news, nextMsg,
                 pc, deadline, nextGuard>>

(* Seeded fault: the loop goes on before the batch has been run.           *)
EndLoopEarly ==
  /\ pc = "run" /\ pc' = "plan"
  /\ UNCHANGED <<now, allowBestEffort, allowedSince, unnotified, news, nextMsg,
                 jobVars, deadline, nextGuard, batch>>

\* The rest of the loop: the agent guard's turn, if it is due.
EndLoop ==
  /\ pc = "run" /\ batch = {} /\ pc' = "plan"
  /\ \/ nextGuard > now /\ nextGuard' = nextGuard
     \/ /\ nextGuard <= now
        /\ nextGuard' \in {t \in now + 1..now + GuardPeriod :
                            (t - nextGuard) % GuardPeriod = 0}
  /\ UNCHANGED <<now, allowBestEffort, allowedSince, unnotified, news, nextMsg,
                 jobVars, deadline, batch>>

Tick ==
  /\ pc = "wait" /\ ~Wakes /\ unnotified = 0 /\ now < MaxTime
  /\ now' = now + 1
  /\ UNCHANGED <<allowBestEffort, allowedSince, unnotified, news, nextMsg, jobVars,
                 timerVars>>

Callers == ScheduleSystem \/ ScheduleKeyed \/ ScheduleUser \/ SchedulePlain \/ Notify
Timer == Plan \/ Observe \/ Wake \/ TakeBatch \/ RunJob \/ EndLoop

Next == Callers \/ ModeChanges \/ Timer \/ Tick
Spec == Init /\ [][Next]_vars
=============================================================================
