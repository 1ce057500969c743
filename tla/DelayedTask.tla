---------------------------- MODULE DelayedTask ----------------------------
(***************************************************************************)
(* The delayed task queue of src/src/runtime/delayed_task.rs: a bounded    *)
(* Vec of jobs under one mutex.  Best-effort jobs have a limit of their    *)
(* own, and a few slots beyond it are kept for critical ones.              *)
(*                                                                         *)
(* The Vec is a set here: swap_remove leaves no order to rely on, and the  *)
(* scans look for the only match or for the least due time.                *)
(***************************************************************************)
EXTENDS Integers, FiniteSets

CONSTANTS
  BestEffortMax,     \* DELAYED_TASK_BEST_EFFORT_MAX
  CriticalReserved,  \* DELAYED_TASK_CRITICAL_RESERVED
  MaxDefer,          \* POST_REPLY_BACKGROUND_MAX_DEFER_MS, in ticks
  Keys,              \* coalesce keys
  NoKey              \* coalesce_key: None

ASSUME QueueAssumption ==
  /\ BestEffortMax \in Nat /\ CriticalReserved \in Nat /\ MaxDefer \in Nat
  /\ NoKey \notin Keys

(* What a job's closure does: send a message to the system queue, the same *)
(* under a coalesce key, replay a message to the user queue, or run        *)
(* anything else (a write-back wake, a restart, an acknowledgement).       *)
Kinds == {"system", "keyed", "user", "plain"}

TotalMax == BestEffortMax + CriticalReserved

Critical(job) == job.kind \in {"user", "plain"}
BestEffortJobs(pending) == {j \in pending : ~Critical(j)}
CriticalJobs(pending) == {j \in pending : Critical(j)}

Eligible(job, allowBestEffort) == Critical(job) \/ allowBestEffort

\* take_due_jobs_locked_with_policy
DueJobs(pending, now, allowBestEffort) ==
  {j \in pending : j.due <= now /\ Eligible(j, allowBestEffort)}

Soonest(jobs) == {j \in jobs : \A k \in jobs : j.due <= k.due}

SameKey(pending, job) == {j \in pending : j.key # NoKey /\ j.key = job.key}

Earlier(a, b) == IF a <= b THEN a ELSE b
Later(a, b) == IF a <= b THEN b ELSE a

(* Seeded fault: the job that takes over starts its own deferral.          *)
CoalesceAfresh(old, job) ==
  [job EXCEPT !.due = Earlier(job.due, job.first + MaxDefer)]

\* The existing job takes over the new closure and its due time, but never
\* one beyond MaxDefer of the time it was first scheduled.
Coalesce(old, job) ==
  [job EXCEPT !.first = old.first, !.due = Earlier(job.due, old.first + MaxDefer)]

(* schedule_delayed_task_with_priority_key_and_bound, under the mutex: the *)
(* jobs afterwards, the ones that went, and whether the new one came in.   *)
Outcome(pending, out, in) ==
  [pending |-> (pending \ out) \cup in, out |-> out, in |-> in]

Coalesced(pending, job) ==
  {Outcome(pending, {old}, {Coalesce(old, job)}) : old \in SameKey(pending, job)}

HasRoom(pending, job) ==
  /\ Cardinality(pending) < TotalMax
  /\ Critical(job) \/ Cardinality(BestEffortJobs(pending)) < BestEffortMax

(* Seeded fault: a critical job makes room before the queue is full.       *)
EvictableEarly(pending, job) ==
  {j \in Soonest(BestEffortJobs(pending)) :
     Critical(job) /\ Cardinality(pending) >= BestEffortMax}

Evictable(pending, job) ==
  {j \in Soonest(BestEffortJobs(pending)) :
     Critical(job) /\ Cardinality(pending) >= TotalMax}

Pushed(pending, job) ==
  IF Evictable(pending, job) # {}
    THEN {Outcome(pending, {old}, {job}) : old \in Evictable(pending, job)}
    ELSE {Outcome(pending, {}, IF HasRoom(pending, job) THEN {job} ELSE {})}

(* Seeded fault: a keyed job is pushed beside the one with its key.        *)
ScheduleWithoutCoalescing(pending, job) == Pushed(pending, job)

Schedule(pending, job) ==
  IF SameKey(pending, job) # {} THEN Coalesced(pending, job)
                                ELSE Pushed(pending, job)
=============================================================================
