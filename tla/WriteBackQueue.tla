--------------------------- MODULE WriteBackQueue ---------------------------
(***************************************************************************)
(* The write-back scheduler of src/src/runtime/write_back.rs: the queue of *)
(* flush and maintenance jobs, the admission that waits for a quiet device,*)
(* the retry timer, and the calls that wake the worker.  A job is known by *)
(* its label.  The scheduler's mutex is taken for moments at a time; at[t] *)
(* says where thread t is between two of them.  A push, the look for due   *)
(* jobs that follows it, the admission and the retry it may arm are one    *)
(* action: what another thread does in between is met again at "ensure",   *)
(* where the same questions are asked once more.                           *)
(*                                                                         *)
(* Times are kept as what they decide: a job is due or it is not, the next *)
(* attempt (or the end of the quiet window, which puts it off likewise)    *)
(* lies ahead or it does not.  A deadline may be reached at any moment.    *)
(***************************************************************************)
EXTENDS Naturals, FiniteSets, SequencesExt, FiniteSetsExt

CONSTANTS
  Callers,       \* threads that write: the agent loop, HTTP handlers...
  Timer,         \* the background timer thread
  Workers,       \* write-back worker threads that may exist at once
  Labels,        \* the jobs' labels: a buffered store each, and Gc
  Maintenance,   \* and of those, the maintenance tasks'
  Coalescible,   \* is_coalescible_write_back_label
  QueueMax,      \* WRITE_BACK_QUEUE_MAX
  BatchMax,      \* WRITE_BACK_DRAIN_BATCH_MAX
  NoLabel,       \* a call of service_write_back_tasks: no job of its own
  MaxMishaps     \* bound: loads of the device, refused threads and timers,
                 \* failing writes of the storage

Threads == Callers \cup {Timer} \cup Workers

ASSUME QueueAssumption ==
  /\ QueueMax \in Nat \ {0} /\ BatchMax \in Nat \ {0}
  /\ IsFiniteSet(Labels) /\ NoLabel \notin Labels /\ Coalescible \subseteq Labels /\ Maintenance \subseteq Labels
  /\ Timer \notin Callers /\ Workers \cap (Callers \cup {Timer}) = {}

VARIABLES
  due,           \* number of queued jobs of a label whose time has come
  later,         \* and of those whose time has not
  started,       \* worker_started
  nextAttempt,   \* next_attempt_at, or the quiet window's end, lies ahead
  quiet,         \* quiet_started_at is set
  retry,         \* retry_scheduled, its timer in the delayed queue
  busy,          \* what admissions see: activity, pressure or scarce memory
  troubles,      \* loads and refusals so far
  faults,        \* failing writes of the storage so far
  at,            \* where a thread is in a call
  target         \* the label it schedules, or NoLabel

queueVars == <<due, later, started, nextAttempt, quiet, retry>>
envVars   == <<busy, troubles, faults>>
callVars  == <<at, target>>

QueueInit ==
  /\ due = [l \in Labels |-> 0] /\ later = [l \in Labels |-> 0]
  /\ started = FALSE /\ nextAttempt = FALSE
  /\ quiet = FALSE /\ retry = FALSE
  /\ busy = FALSE /\ troubles = 0 /\ faults = 0
  /\ at = [t \in Threads |-> "idle"] /\ target = [t \in Threads |-> NoLabel]

Count(jobs)   == FoldFunction(LAMBDA n, sum : n + sum, 0, jobs)
JobsDue       == \E l \in Labels : due[l] > 0
JobsQueued    == \E l \in Labels : due[l] + later[l] > 0
NumberQueued  == Count(due) + Count(later)

GoTo(t, place) == at' = [at EXCEPT ![t] = place]
Leave(t) == GoTo(t, "idle") /\ target' = [target EXCEPT ![t] = NoLabel]

-----------------------------------------------------------------------------
(* Pieces of the scheduler's code, each inside one hold of its mutex.      *)

\* One more mishap: a thread or a timer slot that is not to be had.
Refused ==
  /\ troubles + faults < MaxMishaps
  /\ troubles' = troubles + 1 /\ UNCHANGED <<busy, faults>>

\* schedule_write_back_retry: an armed retry that comes first is kept, else
\* there is a new one, unless the delayed queue refuses it.
ArmRetry ==
  \/ retry' = TRUE /\ UNCHANGED envVars
  \/ retry' = FALSE /\ Refused

\* write_back_admission_delay_for_resource_now: granted when the device is
\* idle and has been for a quiet window; otherwise the next attempt is put off.
Granted == ~nextAttempt /\ ~busy /\ quiet

PutOff ==
  \/ nextAttempt /\ UNCHANGED quiet
  \/ ~nextAttempt /\ busy /\ quiet' = FALSE
  \/ ~nextAttempt /\ ~busy /\ ~quiet /\ quiet' = TRUE

-----------------------------------------------------------------------------
(* service_write_back_tasks_from_scheduled_wake, and the same steps at the *)
(* end of schedule_write_back_task, over the queue as a push left it.      *)

\* No job is due: a retry for the time when one will be, if none is armed.
LookLater(t, armed) ==
  /\ ~JobsDue'
  /\ \/ (~JobsQueued' \/ armed) /\ retry' = armed /\ UNCHANGED <<nextAttempt, envVars>>
     \/ JobsQueued' /\ ArmRetry /\ nextAttempt' = TRUE
  /\ Leave(t)
  /\ UNCHANGED quiet

\* The admission is denied: the next attempt is recorded, a retry armed.
LookDenied(t) ==
  /\ JobsDue'
  /\ PutOff /\ nextAttempt' = TRUE /\ ArmRetry
  /\ Leave(t)

LookGranted(t, armed) ==
  /\ JobsDue' /\ Granted
  /\ GoTo(t, "ensure") /\ target' = [target EXCEPT ![t] = NoLabel]
  /\ retry' = armed
  /\ UNCHANGED <<quiet, nextAttempt, envVars>>

Look(t, armed) == LookLater(t, armed) \/ LookDenied(t) \/ LookGranted(t, armed)

-----------------------------------------------------------------------------
(* schedule_write_back_task.  A flush is due after a short delay,          *)
(* maintenance at once, and only an idle device is asked for it            *)
(* (schedule_storage_maintenance_task).                                    *)

AsksToFlush(t, l)    == at[t] = "push" /\ target[t] = l
AsksToMaintain(t, l) == at[t] = "idle" /\ l \in Maintenance /\ ~busy

Push(t, l) ==
  /\ l \in Coalescible => due[l] + later[l] = 0
  /\ NumberQueued < QueueMax
  /\ \/ AsksToFlush(t, l) /\ later' = [later EXCEPT ![l] = @ + 1] /\ UNCHANGED due
     \/ AsksToMaintain(t, l) /\ due' = [due EXCEPT ![l] = @ + 1] /\ UNCHANGED later
  /\ Look(t, retry)
  /\ UNCHANGED started

\* The queue has a job with this label already: it is enough, and it comes
\* forward when the new one would have been earlier.
Coalesce(t, l) ==
  /\ l \in Coalescible /\ due[l] + later[l] > 0
  /\ \/ AsksToFlush(t, l) /\ UNCHANGED <<due, later>>
     \/ /\ AsksToMaintain(t, l) /\ due[l] = 0
        /\ due' = [due EXCEPT ![l] = 1] /\ later' = [later EXCEPT ![l] = @ - 1]
  /\ Leave(t)
  /\ UNCHANGED <<started, nextAttempt, quiet, retry, envVars>>

\* The queue is full: a flush's caller will clear flush_scheduled.
Reject(t, l) ==
  /\ NumberQueued >= QueueMax
  /\ l \in Coalescible => due[l] + later[l] = 0
  /\ AsksToFlush(t, l)
  /\ GoTo(t, "reject")
  /\ UNCHANGED <<target, queueVars, envVars>>

-----------------------------------------------------------------------------
(* ensure_write_back_worker_started_inner.                                 *)

\* The queue and the admission are asked again; when the answer has changed
\* the call ends without arming a retry.
EnsureStops(t) ==
  /\ at[t] = "ensure"
  /\ \/ ~JobsDue /\ UNCHANGED <<quiet, nextAttempt>>
     \/ JobsDue /\ PutOff /\ nextAttempt' = TRUE
  /\ Leave(t)
  /\ UNCHANGED <<due, later, started, retry, envVars>>

\* A worker is started already, or no thread is to be had; in either case
\* nobody here arms a retry.
StartedAlready(t) ==
  /\ at[t] = "ensure" /\ JobsDue /\ Granted /\ started
  /\ Leave(t)
  /\ UNCHANGED <<queueVars, envVars>>

SpawnFails(t) ==
  /\ at[t] = "ensure" /\ JobsDue /\ Granted /\ ~started
  /\ Refused
  /\ Leave(t)
  /\ UNCHANGED queueVars

-----------------------------------------------------------------------------
(* The retry timer, the agent loop's poll, and the passing of time.        *)

RetryFires ==
  /\ retry /\ at[Timer] = "idle"
  /\ UNCHANGED <<due, later, started>>
  /\ Look(Timer, FALSE)

Poll(t) ==
  /\ at[t] = "idle"
  /\ UNCHANGED <<due, later, started>>
  /\ Look(t, retry)

\* Seeded fault: the wait of a job that is due already ends once more.
BecomesDueTwice(l) ==
  /\ due[l] + later[l] > 0
  /\ later' = [later EXCEPT ![l] = @ - 1] /\ due' = [due EXCEPT ![l] = @ + 1]
  /\ UNCHANGED <<started, nextAttempt, quiet, retry, envVars, callVars>>

BecomesDue(l) ==
  /\ later[l] > 0
  /\ later' = [later EXCEPT ![l] = @ - 1] /\ due' = [due EXCEPT ![l] = @ + 1]
  /\ UNCHANGED <<started, nextAttempt, quiet, retry, envVars, callVars>>

AttemptTimeComes ==
  /\ nextAttempt /\ nextAttempt' = FALSE
  /\ UNCHANGED <<due, later, started, quiet, retry, envVars, callVars>>

LoadComes ==
  /\ ~busy /\ busy' = TRUE
  /\ troubles + faults < MaxMishaps /\ troubles' = troubles + 1
  /\ UNCHANGED <<queueVars, faults, callVars>>

\* The device comes to rest when it has done what it had to do.
LoadEnds ==
  /\ busy /\ busy' = FALSE
  /\ UNCHANGED <<queueVars, troubles, faults, callVars>>
=============================================================================
