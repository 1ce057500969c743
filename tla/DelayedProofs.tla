---------------------------- MODULE DelayedProofs ----------------------------
(***************************************************************************)
(* Proofs, for any limits, keys, delays, periods and number of callers, of *)
(* what DelayedWork states about the delayed task queue and the timer.     *)
(***************************************************************************)
EXTENDS DelayedWork, FiniteSetTheorems, WellFoundedInduction, TLAPS

-----------------------------------------------------------------------------
(* The four things a call of schedule_... can do to the queue.             *)

Replaces(P, job, old, o) ==
  /\ old \in SameKey(P, job)
  /\ o = Outcome(P, {old}, {Coalesce(old, job)})

Evicts(P, job, old, o) ==
  /\ SameKey(P, job) = {}
  /\ old \in Evictable(P, job)
  /\ o = Outcome(P, {old}, {job})

Enters(P, job, o) ==
  /\ SameKey(P, job) = {}
  /\ HasRoom(P, job)
  /\ o = Outcome(P, {}, {job})

IsRefused(P, job, o) ==
  /\ SameKey(P, job) = {}
  /\ Evictable(P, job) = {}
  /\ ~HasRoom(P, job)
  /\ o = Outcome(P, {}, {})

\* A call replaces the job of its key, evicts one, enters, or is refused.
LEMMA OutcomeCases ==
  ASSUME NEW P, NEW job, NEW o \in Schedule(P, job)
  PROVE  \/ \E old \in P : Replaces(P, job, old, o)
         \/ \E old \in P : Evicts(P, job, old, o)
         \/ Enters(P, job, o)
         \/ IsRefused(P, job, o)
<1>1. CASE SameKey(P, job) # {}
  <2>1. o \in Coalesced(P, job)
    BY <1>1 DEF Schedule
  <2>2. PICK old \in SameKey(P, job) : o = Outcome(P, {old}, {Coalesce(old, job)})
    BY <2>1 DEF Coalesced
  <2>3. old \in P
    BY <2>2 DEF SameKey
  <2> QED
    BY <2>2, <2>3 DEF Replaces
<1>2. CASE SameKey(P, job) = {}
  <2>1. o \in Pushed(P, job)
    BY <1>2 DEF Schedule
  <2>2. CASE Evictable(P, job) # {}
    <3>1. PICK old \in Evictable(P, job) : o = Outcome(P, {old}, {job})
      BY <2>1, <2>2 DEF Pushed
    <3>2. old \in P
      BY <3>1 DEF Evictable, Soonest, BestEffortJobs
    <3> QED
      BY <1>2, <3>1, <3>2 DEF Evicts
  <2>3. CASE Evictable(P, job) = {} /\ HasRoom(P, job)
    <3>1. o = Outcome(P, {}, {job})
      BY <2>1, <2>3 DEF Pushed
    <3> QED
      BY <1>2, <2>3, <3>1 DEF Enters
  <2>4. CASE Evictable(P, job) = {} /\ ~HasRoom(P, job)
    <3>1. o = Outcome(P, {}, {})
      BY <2>1, <2>4 DEF Pushed
    <3> QED
      BY <1>2, <2>4, <3>1 DEF IsRefused
  <2> QED
    BY <2>2, <2>3, <2>4
<1> QED
  BY <1>1, <1>2

-----------------------------------------------------------------------------
(* What a job is, whoever schedules it.                                    *)
FreshJob(job) ==
  /\ job \in Jobs
  /\ job.key # NoKey <=> job.kind = "keyed"
  /\ job.first = now
  /\ now <= job.due /\ job.due <= now + MaxDefer

(* Every step that schedules: a caller's, and a retry of the timer's.      *)
Schedules(job, o, refused) ==
  /\ FreshJob(job)
  /\ o \in Schedule(pending, job)
  /\ \/ refused = {}
     \/ /\ refused = {Loss(job, "refused")}
        /\ o.in = {}
  /\ Displace(o, job, refused)
  /\ UNCHANGED <<now, allowBestEffort, allowedSince, pc, deadline, nextGuard>>

CallStep(job, o) ==
  /\ Schedules(job, o, {})
  /\ Announce(o, job)
  /\ job.msg = nextMsg
  /\ nextMsg' = IF o.in = {} THEN nextMsg ELSE nextMsg + 1
  /\ UNCHANGED <<batch, done>>

RetryStep(job, o, refused) ==
  /\ Schedules(job, o, refused)
  /\ refused = IF o.in = {} THEN {Loss(job, "refused")} ELSE {}
  /\ \E old \in batch : job.msg = old.msg /\ batch' = batch \ {old}
  /\ pc = "run"
  /\ UNCHANGED <<unnotified, news, nextMsg, done>>

FinishStep ==
  /\ \E job \in batch : Finish(job) /\ batch' = batch \ {job}
  /\ pc = "run"
  /\ UNCHANGED <<now, allowBestEffort, allowedSince, unnotified, news, nextMsg,
                 pc, deadline, nextGuard>>

\* A caller's step, opened up.
LEMMA CallCase ==
  ASSUME TypeOK,
         NEW kind \in Kinds, NEW key \in Keys \cup {NoKey}, NEW delay \in Delays,
         key # NoKey <=> kind = "keyed",
         Call(Job(nextMsg, kind, key, delay))
  PROVE  \E job, o : CallStep(job, o)
<1>1. PICK job : job = Job(nextMsg, kind, key, delay)
  OBVIOUS
<1>2. FreshJob(job)
  BY <1>1, QueueAssumption, TimerAssumption DEF FreshJob, Job, Jobs, TypeOK
<1>3. PICK o \in Schedule(pending, job) :
        /\ Displace(o, job, {})
        /\ Announce(o, job)
        /\ nextMsg' = IF o.in = {} THEN nextMsg ELSE nextMsg + 1
        /\ UNCHANGED <<now, allowBestEffort, allowedSince, done, timerVars>>
  BY <1>1 DEF Call, Displace, Announce
<1>4. Schedules(job, o, {})
  BY <1>2, <1>3 DEF Schedules, timerVars
<1>5. job.msg = nextMsg
  BY <1>1 DEF Job
<1>6. CallStep(job, o)
  BY <1>3, <1>4, <1>5 DEF CallStep, timerVars
<1> QED
  BY <1>6

\* A retry of the timer thread's, opened up.
LEMMA RetryCase ==
  ASSUME TypeOK, NEW job \in batch, Retry(job),
         batch' = batch \ {job}, pc = "run",
         UNCHANGED <<now, allowBestEffort, allowedSince, unnotified, news, nextMsg,
                     pc, deadline, nextGuard>>
  PROVE  \E again, o, refused : RetryStep(again, o, refused)
<1>1. PICK again : again = Job(job.msg, job.kind, job.key, RetryDelay)
  OBVIOUS
<1>2. FreshJob(again)
  BY <1>1, QueueAssumption, TimerAssumption DEF FreshJob, Job, Jobs, TypeOK
<1>3. Loss(job, "refused") = Loss(again, "refused")
  BY <1>1 DEF Loss, Job, Critical
<1>4. PICK o \in Schedule(pending, again) :
        Displace(o, again, IF o.in = {} THEN {Loss(again, "refused")} ELSE {})
  BY <1>1, <1>3 DEF Retry, Displace
<1>5. PICK refused : refused = IF o.in = {} THEN {Loss(again, "refused")} ELSE {}
  OBVIOUS
<1>6. Displace(o, again, refused)
  BY <1>4, <1>5 DEF Displace
<1>7. Schedules(again, o, refused)
  BY <1>2, <1>5, <1>6 DEF Schedules
<1>8. again.msg = job.msg
  BY <1>1 DEF Job
<1>9. RetryStep(again, o, refused)
  BY <1>5, <1>7, <1>8 DEF RetryStep, Retry
<1> QED
  BY <1>9

(* The steps of the system, with the calls and retries opened up.          *)
LEMMA StepCases ==
  ASSUME TypeOK, [Next]_vars
  PROVE  \/ \E job, o : CallStep(job, o)
         \/ \E job, o, refused : RetryStep(job, o, refused)
         \/ Notify \/ ModeChanges \/ Plan \/ Observe \/ Wake \/ TakeBatch
         \/ FinishStep \/ EndLoop \/ Tick \/ UNCHANGED vars
<1>1. CASE ScheduleSystem \/ ScheduleKeyed \/ ScheduleUser \/ SchedulePlain
  <2>1. CASE ScheduleSystem
    BY <2>1, CallCase, QueueAssumption DEF ScheduleSystem, Kinds
  <2>2. CASE ScheduleKeyed
    BY <2>2, CallCase, QueueAssumption DEF ScheduleKeyed, Kinds
  <2>3. CASE ScheduleUser
    BY <2>3, CallCase, QueueAssumption DEF ScheduleUser, Kinds
  <2>4. CASE SchedulePlain
    BY <2>4, CallCase, QueueAssumption DEF SchedulePlain, Kinds
  <2> QED
    BY <1>1, <2>1, <2>2, <2>3, <2>4
<1>2. CASE RunJob
  <2>1. PICK job \in Soonest(batch) :
          /\ batch' = batch \ {job}
          /\ RunPlain(job) \/ RunSystem(job) \/ RunUser(job)
    BY <1>2 DEF RunJob
  <2>2. /\ job \in batch /\ batch' = batch \ {job} /\ pc = "run"
        /\ UNCHANGED <<now, allowBestEffort, allowedSince, unnotified, news, nextMsg,
                       pc, deadline, nextGuard>>
    BY <1>2, <2>1 DEF Soonest, RunJob
  <2>3. CASE Retry(job)
    BY <2>2, <2>3, RetryCase
  <2>4. CASE Finish(job)
    BY <2>2, <2>4 DEF FinishStep
  <2> QED
    BY <2>1, <2>3, <2>4 DEF RunPlain, RunSystem, RunUser
<1> QED
  BY <1>1, <1>2 DEF Next, Callers, Timer

-----------------------------------------------------------------------------
(* Types                                                                   *)

\* The job that takes over has the new kind and key and the old start.
LEMMA CoalesceFields ==
  ASSUME NEW old \in Jobs, NEW job \in Jobs
  PROVE  /\ Coalesce(old, job) \in Jobs
         /\ Coalesce(old, job).kind = job.kind
         /\ Coalesce(old, job).key = job.key
         /\ Coalesce(old, job).first = old.first
         /\ Coalesce(old, job).due = Earlier(job.due, old.first + MaxDefer)
<1>1. Earlier(job.due, old.first + MaxDefer) \in Nat
  BY QueueAssumption DEF Jobs, Earlier
<1> HIDE DEF Earlier
<1> QED
  BY <1>1 DEF Coalesce, Jobs

KeyFits(job) == job.key # NoKey <=> job.kind = "keyed"

\* At most one job comes in, and what goes was there.
Exchanges(P, o) ==
  /\ o.out \subseteq P
  /\ o.pending = (P \ o.out) \cup o.in
  /\ \/ o.in = {}
     \/ \E j \in Jobs : o.in = {j} /\ KeyFits(j)

\* The queue of schedule_... stays a finite set of jobs.
LEMMA OutcomeTypes ==
  ASSUME NEW P, P \subseteq Jobs, IsFiniteSet(P), \A j \in P : KeyFits(j),
         NEW job \in Jobs, KeyFits(job),
         NEW o \in Schedule(P, job)
  PROVE  /\ o.pending \subseteq Jobs /\ IsFiniteSet(o.pending)
         /\ \A j \in o.pending : KeyFits(j)
         /\ o.out \subseteq P
         /\ Cardinality(o.in) \in Nat
<1>1. \A out, x : Outcome(P, out, x).pending = (P \ out) \cup x
                 /\ Outcome(P, out, x).out = out
                 /\ Outcome(P, out, x).in = x
  BY DEF Outcome
<1>2. Exchanges(P, o)
  <2>1. ASSUME NEW old \in P, Replaces(P, job, old, o)
        PROVE  Exchanges(P, o)
    <3>1. Coalesce(old, job) \in Jobs /\ KeyFits(Coalesce(old, job))
      BY CoalesceFields DEF KeyFits
    <3> QED
      BY <1>1, <2>1, <3>1 DEF Replaces, Exchanges
  <2>2. CASE \E old \in P : Evicts(P, job, old, o)
    BY <1>1, <2>2 DEF Evicts, Exchanges
  <2>3. CASE Enters(P, job, o)
    BY <1>1, <2>3 DEF Enters, Exchanges
  <2>4. CASE IsRefused(P, job, o)
    BY <1>1, <2>4 DEF IsRefused, Exchanges
  <2> QED
    BY <2>1, <2>2, <2>3, <2>4, OutcomeCases
<1>3. IsFiniteSet(o.in) /\ Cardinality(o.in) \in Nat
  <2>1. o.in = {} \/ \E j : o.in = {j}
    BY <1>2 DEF Exchanges
  <2>2. IsFiniteSet(o.in)
    BY <2>1, FS_EmptySet, FS_Singleton
  <2> QED
    BY <2>2, FS_CardinalityType
<1>4. IsFiniteSet(P \ o.out)
  BY FS_Difference
<1>5. IsFiniteSet(o.pending)
  <2>1. IsFiniteSet((P \ o.out) \cup o.in)
    BY <1>3, <1>4, FS_Union
  <2> QED
    BY <1>2, <2>1 DEF Exchanges
<1> QED
  BY <1>2, <1>3, <1>5 DEF Exchanges

TypeInv == TypeOK /\ IsFiniteSet(pending)

\* A step that schedules keeps the queue's and the ghosts' types.
LEMMA SchedulesTypes ==
  ASSUME TypeInv, NEW job, NEW o, NEW refused, Schedules(job, o, refused)
  PROVE  /\ pending' \subseteq Jobs /\ IsFiniteSet(pending')
         /\ \A j \in pending' : KeyFits(j)
         /\ since' \in [Keys -> Nat] /\ superseded' \subseteq Nat
         /\ lost' \subseteq Losses
         /\ Cardinality(o.in) \in Nat
<1>1. /\ pending \subseteq Jobs /\ IsFiniteSet(pending)
      /\ \A j \in pending : KeyFits(j)
      /\ job \in Jobs /\ KeyFits(job) /\ now \in Nat
      /\ o \in Schedule(pending, job)
  BY DEF TypeInv, TypeOK, KeyFits, Schedules, FreshJob
<1>2. /\ o.pending \subseteq Jobs /\ IsFiniteSet(o.pending)
      /\ \A j \in o.pending : KeyFits(j)
      /\ o.out \subseteq pending
      /\ Cardinality(o.in) \in Nat
  BY <1>1, OutcomeTypes
<1>3. pending' = o.pending
  BY DEF Schedules, Displace
<1>4. since' \in [Keys -> Nat]
  BY <1>1 DEF Schedules, Displace, TypeInv, TypeOK
<1>5. superseded' \subseteq Nat
  <2>1. PICK replaced : replaced = {j \in o.out : j.key # NoKey /\ j.key = job.key}
    OBVIOUS
  <2>2. superseded' = superseded \cup {j.msg : j \in replaced}
    BY <2>1 DEF Schedules, Displace
  <2>3. \A j \in replaced : j.msg \in Nat
    BY <1>1, <1>2, <2>1 DEF Jobs
  <2>4. superseded \subseteq Nat
    BY DEF TypeInv, TypeOK
  <2> QED
    BY <2>2, <2>3, <2>4
<1>6. \A j \in Jobs, why \in {"evicted", "refused"} : Loss(j, why) \in Losses
  <2>1. /\ Cardinality(CriticalJobs(pending)) \in Nat
        /\ Cardinality(BestEffortJobs(pending)) \in Nat
    BY <1>1, FS_Subset, FS_CardinalityType DEF CriticalJobs, BestEffortJobs
  <2>2. \A j \in Jobs : j.msg \in Nat /\ Critical(j) \in BOOLEAN
    BY DEF Jobs, Critical
  <2> QED
    BY <2>1, <2>2 DEF Loss, Losses
<1>7. lost' \subseteq Losses
  <2>1. refused \subseteq Losses
    BY <1>1, <1>6 DEF Schedules
  <2>2. \A j \in o.out : Loss(j, "evicted") \in Losses
    BY <1>1, <1>2, <1>6
  <2>3. lost \subseteq Losses
    BY DEF TypeInv, TypeOK
  <2> QED
    BY <2>1, <2>2, <2>3 DEF Schedules, Displace
<1> QED
  BY <1>2, <1>3, <1>4, <1>5, <1>7

\* The types hold when the timer thread starts.
LEMMA InitTypes == Init => TypeInv
<1> SUFFICES ASSUME Init PROVE TypeInv
  OBVIOUS
<1>1. IsFiniteSet(pending)
  BY FS_EmptySet DEF Init
<1>2. since \in [Keys -> Nat] /\ nextGuard \in Nat
  BY TimerAssumption DEF Init
<1>3. pending \subseteq Jobs /\ batch \subseteq Jobs /\ pending \cup batch = {}
  BY DEF Init
<1>4. done \subseteq Nat /\ superseded \subseteq Nat /\ lost \subseteq Losses
  BY DEF Init
<1>5. now \in Nat /\ deadline \in Nat /\ allowedSince \in Nat
      /\ nextMsg \in Nat \ {0} /\ unnotified \in Nat
  BY DEF Init
<1>6. allowBestEffort \in BOOLEAN /\ news \in BOOLEAN
  BY DEF Init
<1>7. pc \in {"plan", "observe", "wait", "service", "run"}
      /\ (pc # "run" => batch = {})
  BY DEF Init
<1>8. TypeOK
  BY <1>2, <1>3, <1>4, <1>5, <1>6, <1>7 DEF TypeOK
<1> QED
  BY <1>1, <1>8 DEF TypeInv

\* The planned wake-up is a point in time.
LEMMA WakeTypes ==
  ASSUME TypeOK
  PROVE  \A d \in WakeTimes : d \in Nat
<1> SUFFICES ASSUME NEW d \in WakeTimes PROVE d \in Nat
  OBVIOUS
<1>1. PICK times :
        times = {j.due : j \in {k \in pending : Eligible(k, allowBestEffort)}}
                \cup {now + WaitMax}
  OBVIOUS
<1>2. times \subseteq Nat
  <2>1. \A j \in pending : j.due \in Nat
    BY DEF TypeOK, Jobs
  <2>2. now + WaitMax \in Nat
    BY TimerAssumption DEF TypeOK
  <2> QED
    BY <1>1, <2>1, <2>2
<1>3. NextJobTimes \subseteq {Later(t, now) : t \in times}
  BY <1>1 DEF NextJobTimes
<1>4. PICK t \in times : d = Earlier(Later(t, now), nextGuard)
  BY <1>3 DEF WakeTimes
<1> QED
  BY <1>2, <1>4 DEF Earlier, Later, TypeOK

\* Every step keeps the types.
LEMMA NextTypes ==
  ASSUME TypeInv, [Next]_vars
  PROVE  TypeInv'
<1> USE DEF TypeInv
<1>1. ASSUME NEW job, NEW o, CallStep(job, o)
      PROVE  TypeInv'
  <2>1. Schedules(job, o, {})
    BY <1>1 DEF CallStep
  <2>2. /\ pending' \subseteq Jobs /\ IsFiniteSet(pending')
        /\ \A j \in pending' : KeyFits(j)
        /\ since' \in [Keys -> Nat] /\ superseded' \subseteq Nat
        /\ lost' \subseteq Losses
        /\ Cardinality(o.in) \in Nat
    BY <2>1, SchedulesTypes
  <2>3. unnotified' \in Nat
    BY <1>1, <2>2 DEF CallStep, Announce, TypeOK
  <2>4. news' \in BOOLEAN
    <3>1. news \in BOOLEAN
      BY DEF TypeOK
    <3>2. \/ \E b : news' = (news \/ b)
          \/ news' = news
      BY <1>1, Zenon DEF CallStep, Announce
    <3> QED
      BY <3>1, <3>2, Zenon
  <2> QED
    BY <1>1, <2>1, <2>2, <2>3, <2>4 DEF CallStep, Schedules, TypeOK, KeyFits
<1>2. ASSUME NEW job, NEW o, NEW refused, RetryStep(job, o, refused)
      PROVE  TypeInv'
  <2>1. Schedules(job, o, refused)
    BY <1>2 DEF RetryStep
  <2>2. /\ pending' \subseteq Jobs /\ IsFiniteSet(pending')
        /\ \A j \in pending' : KeyFits(j)
        /\ since' \in [Keys -> Nat] /\ superseded' \subseteq Nat
        /\ lost' \subseteq Losses
    BY <2>1, SchedulesTypes
  <2> QED
    BY <1>2, <2>1, <2>2 DEF RetryStep, Schedules, TypeOK, KeyFits
<1>3. CASE Notify
  BY <1>3 DEF Notify, TypeOK, jobVars, timerVars
<1>4. CASE ModeChanges
  BY <1>4 DEF ModeChanges, TypeOK, jobVars, timerVars
<1>5. CASE Plan
  <2>1. deadline' \in Nat
    BY <1>5, WakeTypes DEF Plan
  <2> QED
    BY <1>5, <2>1 DEF Plan, TypeOK, jobVars
<1>6. CASE Observe
  BY <1>6 DEF Observe, TypeOK, jobVars
<1>7. CASE Wake
  BY <1>7 DEF Wake, Wakes, TypeOK, jobVars
<1>8. CASE TakeBatch
  <2>1. batch' \subseteq pending /\ pending' \subseteq pending
    BY <1>8 DEF TakeBatch, DueJobs
  <2>2. IsFiniteSet(pending')
    BY <2>1, FS_Subset
  <2>3. since' \in [Keys -> Nat]
    BY <1>8 DEF TakeBatch, TypeOK
  <2> QED
    BY <1>8, <2>1, <2>2, <2>3 DEF TakeBatch, TypeOK
<1>9. CASE FinishStep
  <2>1. PICK job \in batch : Finish(job)
    BY <1>9 DEF FinishStep
  <2>2. job.msg \in Nat
    BY DEF TypeOK, Jobs
  <2> QED
    BY <1>9, <2>1, <2>2 DEF FinishStep, Finish, TypeOK
<1>10. CASE EndLoop
  BY <1>10, TimerAssumption DEF EndLoop, TypeOK, jobVars
<1>11. CASE Tick
  BY <1>11 DEF Tick, TypeOK, jobVars, timerVars
<1>12. CASE UNCHANGED vars
  BY <1>12 DEF vars, TypeOK, jobVars, timerVars
<1> QED
  BY <1>1, <1>2, <1>3, <1>4, <1>5, <1>6, <1>7, <1>8, <1>9, <1>10, <1>11, <1>12,
     StepCases

\* The queue, the timer and the ghosts keep their types.
THEOREM TypeCorrect == Spec => []TypeOK
<1>1. Spec => []TypeInv
  BY InitTypes, NextTypes, PTL DEF Spec
<1> QED
  BY <1>1, PTL DEF TypeInv

-----------------------------------------------------------------------------
(* The queue's limits and keys                                             *)

Quota(P) ==
  /\ Cardinality(BestEffortJobs(P)) <= BestEffortMax
  /\ Cardinality(P) <= TotalMax

Unique(P) == \A j, k \in P : j.key # NoKey /\ j.key = k.key => j = k

\* One element more.
LEMMA AddBound ==
  ASSUME NEW S, IsFiniteSet(S), NEW x
  PROVE  /\ IsFiniteSet(S \cup {x})
         /\ Cardinality(S \cup {x}) \in Nat
         /\ Cardinality(S \cup {x}) <= Cardinality(S) + 1
<1>1. Cardinality(S) \in Nat
  BY FS_CardinalityType
<1>2. /\ IsFiniteSet(S \cup {x})
      /\ \/ Cardinality(S \cup {x}) = Cardinality(S)
         \/ Cardinality(S \cup {x}) = Cardinality(S) + 1
  BY FS_AddElement, Zenon
<1> QED
  BY <1>1, <1>2

\* One element for another.
LEMMA SwapBound ==
  ASSUME NEW S, IsFiniteSet(S), NEW old \in S, NEW x
  PROVE  /\ IsFiniteSet((S \ {old}) \cup {x})
         /\ Cardinality((S \ {old}) \cup {x}) \in Nat
         /\ Cardinality((S \ {old}) \cup {x}) <= Cardinality(S)
<1>1. /\ IsFiniteSet(S \ {old})
      /\ Cardinality(S \ {old}) = Cardinality(S) - 1
  BY FS_RemoveElement
<1>2. /\ IsFiniteSet((S \ {old}) \cup {x})
      /\ Cardinality((S \ {old}) \cup {x}) \in Nat
      /\ Cardinality((S \ {old}) \cup {x}) <= Cardinality(S \ {old}) + 1
  BY <1>1, AddBound
<1>3. Cardinality(S) \in Nat
  BY FS_CardinalityType
<1> QED
  BY <1>1, <1>2, <1>3

\* The fields of an outcome.
LEMMA OutcomeFields ==
  ASSUME NEW P, NEW out, NEW in
  PROVE  /\ Outcome(P, out, in).pending = (P \ out) \cup in
         /\ Outcome(P, out, in).out = out
         /\ Outcome(P, out, in).in = in
         /\ Outcome(P, {}, in).pending = P \cup in
         /\ Outcome(P, {}, {}).pending = P
<1>1. /\ Outcome(P, out, in).pending = (P \ out) \cup in
      /\ Outcome(P, out, in).out = out
      /\ Outcome(P, out, in).in = in
      /\ Outcome(P, {}, in).pending = (P \ {}) \cup in
      /\ Outcome(P, {}, {}).pending = (P \ {}) \cup {}
  BY DEF Outcome
<1>2. (P \ {}) \cup in = P \cup in /\ (P \ {}) \cup {} = P
  OBVIOUS
<1> QED
  BY <1>1, <1>2

\* The limits hold whatever is scheduled.
LEMMA ScheduleKeepsQuota ==
  ASSUME NEW P, P \subseteq Jobs, IsFiniteSet(P), \A j \in P : KeyFits(j),
         NEW job \in Jobs, KeyFits(job),
         NEW o \in Schedule(P, job), Quota(P)
  PROVE  Quota(o.pending)
<1> DEFINE BE(Q) == BestEffortJobs(Q)
<1>1. /\ IsFiniteSet(BE(P)) /\ Cardinality(BE(P)) \in Nat
      /\ Cardinality(P) \in Nat
      /\ BestEffortMax \in Nat /\ TotalMax \in Nat
  <2>1. BE(P) \subseteq P
    BY DEF BestEffortJobs
  <2> QED
    BY <2>1, FS_Subset, FS_CardinalityType, QueueAssumption DEF TotalMax
<1>2. ASSUME NEW old \in P, Replaces(P, job, old, o)
      PROVE  Quota(o.pending)
  <2>1. PICK c : c = Coalesce(old, job)
    OBVIOUS
  <2>2. o.pending = (P \ {old}) \cup {c}
    BY <1>2, <2>1, OutcomeFields DEF Replaces
  <2>3. old.key # NoKey /\ job.key = old.key
    BY <1>2 DEF Replaces, SameKey
  <2>4. c.kind = job.kind
    BY <2>1, CoalesceFields
  <2>5. ~Critical(old) /\ ~Critical(c)
    BY <2>3, <2>4 DEF KeyFits, Critical
  <2>6. BE(o.pending) = (BE(P) \ {old}) \cup {c} /\ old \in BE(P)
    BY <2>2, <2>5 DEF BestEffortJobs
  <2>7. Cardinality(o.pending) <= Cardinality(P)
    BY <2>2, SwapBound
  <2>8. Cardinality(BE(o.pending)) <= Cardinality(BE(P))
    BY <1>1, <2>6, SwapBound
  <2>9. Cardinality(BE(o.pending)) \in Nat /\ Cardinality(o.pending) \in Nat
    BY <1>1, <2>2, <2>6, SwapBound
  <2> QED
    BY <1>1, <2>7, <2>8, <2>9 DEF Quota
<1>3. ASSUME NEW old \in P, Evicts(P, job, old, o)
      PROVE  Quota(o.pending)
  <2>1. o.pending = (P \ {old}) \cup {job}
    BY <1>3, OutcomeFields DEF Evicts
  <2>2. Critical(job)
    BY <1>3 DEF Evicts, Evictable
  <2>3. BE(o.pending) \in SUBSET BE(P)
    BY <2>1, <2>2 DEF BestEffortJobs
  <2>4. /\ Cardinality(BE(o.pending)) <= Cardinality(BE(P))
        /\ Cardinality(BE(o.pending)) \in Nat
    BY <1>1, <2>3, FS_Subset, FS_CardinalityType
  <2>5. /\ Cardinality(o.pending) <= Cardinality(P)
        /\ Cardinality(o.pending) \in Nat
    BY <2>1, SwapBound
  <2> QED
    BY <1>1, <2>4, <2>5 DEF Quota
<1>4. ASSUME Enters(P, job, o)
      PROVE  Quota(o.pending)
  <2>1. o.pending = P \cup {job} /\ HasRoom(P, job)
    BY <1>4, OutcomeFields DEF Enters
  <2>2. /\ Cardinality(o.pending) <= Cardinality(P) + 1
        /\ Cardinality(o.pending) \in Nat
    BY <1>1, <2>1, AddBound
  <2>3. CASE Critical(job)
    <3>1. BE(o.pending) = BE(P)
      BY <2>1, <2>3 DEF BestEffortJobs
    <3> QED
      BY <1>1, <2>1, <2>2, <3>1 DEF Quota, HasRoom
  <2>4. CASE ~Critical(job)
    <3>1. BE(o.pending) = BE(P) \cup {job}
      BY <2>1, <2>4 DEF BestEffortJobs
    <3>2. /\ Cardinality(BE(o.pending)) <= Cardinality(BE(P)) + 1
          /\ Cardinality(BE(o.pending)) \in Nat
      BY <1>1, <3>1, AddBound
    <3> QED
      BY <1>1, <2>1, <2>2, <2>4, <3>2 DEF Quota, HasRoom
  <2> QED
    BY <2>3, <2>4
<1>5. ASSUME IsRefused(P, job, o)
      PROVE  Quota(o.pending)
  <2>1. o.pending = P
    BY <1>5, OutcomeFields DEF IsRefused
  <2> QED
    BY <2>1
<1> QED
  BY <1>2, <1>3, <1>4, <1>5, OutcomeCases

\* A key's job is the only one, whatever is scheduled.
LEMMA ScheduleKeepsUnique ==
  ASSUME NEW P, P \subseteq Jobs, \A j \in P : KeyFits(j),
         NEW job \in Jobs, KeyFits(job),
         NEW o \in Schedule(P, job), Unique(P)
  PROVE  Unique(o.pending)
<1>1. ASSUME NEW old \in P, Replaces(P, job, old, o)
      PROVE  Unique(o.pending)
  <2>1. PICK c : c = Coalesce(old, job)
    OBVIOUS
  <2>2. o.pending = (P \ {old}) \cup {c}
    BY <1>1, <2>1, OutcomeFields DEF Replaces
  <2>3. c.key = old.key
    BY <1>1, <2>1, CoalesceFields DEF Replaces, SameKey
  <2>4. \A j \in P \ {old} : j.key # NoKey => j.key # c.key
    BY <2>3 DEF Unique
  <2> QED
    BY <2>2, <2>4 DEF Unique
<1>2. ASSUME SameKey(P, job) = {}
      PROVE  Unique(P \cup {job})
  BY <1>2 DEF SameKey, Unique
<1>3. ASSUME NEW old \in P, Evicts(P, job, old, o)
      PROVE  Unique(o.pending)
  <2>1. o.pending \subseteq P \cup {job}
    BY <1>3, OutcomeFields DEF Evicts
  <2>2. Unique(P \cup {job})
    BY <1>2, <1>3 DEF Evicts
  <2> QED
    BY <2>1, <2>2 DEF Unique
<1>4. ASSUME Enters(P, job, o)
      PROVE  Unique(o.pending)
  <2>1. o.pending = P \cup {job}
    BY <1>4, OutcomeFields DEF Enters
  <2>2. SameKey(P, job) = {}
    BY <1>4 DEF Enters
  <2> QED
    BY <1>2, <2>1, <2>2
<1>5. ASSUME IsRefused(P, job, o)
      PROVE  Unique(o.pending)
  <2>1. o.pending = P
    BY <1>5, OutcomeFields DEF IsRefused
  <2> QED
    BY <2>1
<1> QED
  BY <1>1, <1>3, <1>4, <1>5, OutcomeCases

-----------------------------------------------------------------------------
(* A keyed job's deferral is measured from the time its key entered.       *)

FirstIsSince ==
  \A j \in pending :
    j.key # NoKey => /\ j.first = since[j.key]
                     /\ j.due <= j.first + MaxDefer

QueueInv == WithinQuota /\ OneJobPerKey /\ FirstIsSince

\* A scheduled job's start is when its key entered the queue.
LEMMA SchedulesKeepFirst ==
  ASSUME TypeInv, QueueInv, NEW job, NEW o, NEW refused, Schedules(job, o, refused)
  PROVE  FirstIsSince'
<1>1. /\ pending \subseteq Jobs /\ \A j \in pending : KeyFits(j)
      /\ job \in Jobs /\ KeyFits(job)
      /\ job.first = now /\ job.due <= now + MaxDefer
      /\ o \in Schedule(pending, job)
      /\ since \in [Keys -> Nat] /\ now \in Nat
  BY DEF TypeInv, TypeOK, KeyFits, Schedules, FreshJob
<1>2. /\ pending' = o.pending
      /\ since' = IF job.key = NoKey \/ SameKey(pending, job) # {} THEN since
                  ELSE [since EXCEPT ![job.key] = now]
  BY DEF Schedules, Displace
<1>3. \A j \in pending : j.key # NoKey => /\ j.first = since[j.key]
                                          /\ j.due <= j.first + MaxDefer
  BY DEF QueueInv, FirstIsSince
<1>4. \A j \in Jobs : j.key # NoKey => j.key \in Keys
  BY DEF Jobs
<1>5. ASSUME NEW old \in pending, Replaces(pending, job, old, o)
      PROVE  FirstIsSince'
  <2>1. PICK c : c = Coalesce(old, job)
    OBVIOUS
  <2>2. o.pending = (pending \ {old}) \cup {c}
    BY <1>5, <2>1, OutcomeFields DEF Replaces
  <2>3. since' = since
    BY <1>2, <1>5 DEF Replaces
  <2>4. c.key = old.key /\ old.key # NoKey
    BY <1>1, <1>5, <2>1, CoalesceFields DEF Replaces, SameKey
  <2>5. c.first = old.first /\ c.due = Earlier(job.due, old.first + MaxDefer)
    BY <1>1, <2>1, CoalesceFields
  <2>6. c.due <= c.first + MaxDefer
    BY <1>1, <2>5, QueueAssumption DEF Earlier, Jobs
  <2>7. c.first = since[c.key]
    BY <1>3, <2>4, <2>5
  <2> QED
    BY <1>2, <1>3, <2>2, <2>3, <2>6, <2>7 DEF FirstIsSince
<1>6. ASSUME NEW old \in pending, Evicts(pending, job, old, o)
      PROVE  FirstIsSince'
  <2>1. o.pending = (pending \ {old}) \cup {job}
    BY <1>6, OutcomeFields DEF Evicts
  <2>2. job.key = NoKey
    BY <1>1, <1>6 DEF Evicts, Evictable, Critical, KeyFits
  <2>3. since' = since
    BY <1>2, <2>2
  <2> QED
    BY <1>2, <1>3, <2>1, <2>2, <2>3 DEF FirstIsSince
<1>7. ASSUME SameKey(pending, job) = {}
      PROVE  \A j \in pending : j.key # NoKey =>
               /\ j.first = since'[j.key] /\ j.due <= j.first + MaxDefer
  <2> SUFFICES ASSUME NEW j \in pending, j.key # NoKey
               PROVE  j.first = since'[j.key] /\ j.due <= j.first + MaxDefer
    OBVIOUS
  <2>1. j.key # job.key
    BY <1>7 DEF SameKey
  <2>2. since'[j.key] = since[j.key]
    BY <1>1, <1>2, <1>4, <2>1
  <2> QED
    BY <1>3, <2>2
<1>8. ASSUME Enters(pending, job, o)
      PROVE  FirstIsSince'
  <2>1. o.pending = pending \cup {job} /\ SameKey(pending, job) = {}
    BY <1>8, OutcomeFields DEF Enters
  <2>2. job.key # NoKey => since'[job.key] = now
    BY <1>1, <1>2, <1>4, <2>1
  <2> QED
    BY <1>1, <1>2, <1>7, <2>1, <2>2 DEF FirstIsSince
<1>9. ASSUME IsRefused(pending, job, o)
      PROVE  FirstIsSince'
  <2>1. o.pending = pending /\ SameKey(pending, job) = {}
    BY <1>9, OutcomeFields DEF IsRefused
  <2> QED
    BY <1>2, <1>7, <2>1 DEF FirstIsSince
<1> QED
  BY <1>1, <1>5, <1>6, <1>8, <1>9, OutcomeCases

\* A step that schedules keeps the limits, the keys and the starts.
LEMMA SchedulesKeepQueue ==
  ASSUME TypeInv, QueueInv, NEW job, NEW o, NEW refused, Schedules(job, o, refused)
  PROVE  QueueInv'
<1>1. /\ pending \subseteq Jobs /\ IsFiniteSet(pending)
      /\ \A j \in pending : KeyFits(j)
      /\ job \in Jobs /\ KeyFits(job)
      /\ o \in Schedule(pending, job)
      /\ pending' = o.pending
  BY DEF TypeInv, TypeOK, KeyFits, Schedules, FreshJob, Displace
<1>2. Quota(pending) /\ Unique(pending)
  BY DEF QueueInv, WithinQuota, OneJobPerKey, Quota, Unique
<1>3. Quota(o.pending)
  BY <1>1, <1>2, ScheduleKeepsQuota
<1>4. Unique(o.pending)
  BY <1>1, <1>2, ScheduleKeepsUnique
<1>5. WithinQuota' /\ OneJobPerKey'
  BY <1>1, <1>3, <1>4 DEF WithinQuota, OneJobPerKey, Quota, Unique, BestEffortJobs
<1> QED
  BY <1>5, SchedulesKeepFirst DEF QueueInv

\* The empty queue is within its limits.
LEMMA InitQueue == Init => QueueInv
<1> SUFFICES ASSUME Init PROVE QueueInv
  OBVIOUS
<1>1. pending = {} /\ BestEffortJobs(pending) = {}
  BY DEF Init, BestEffortJobs
<1>2. BestEffortMax \in Nat /\ TotalMax \in Nat
  BY QueueAssumption DEF TotalMax
<1>3. WithinQuota
  BY <1>1, <1>2, FS_EmptySet DEF WithinQuota
<1> QED
  BY <1>1, <1>3 DEF QueueInv, OneJobPerKey, FirstIsSince

\* Every step keeps the limits, the keys and the starts.
LEMMA NextQueue ==
  ASSUME TypeInv, QueueInv, [Next]_vars
  PROVE  QueueInv'
<1>0. TypeOK
  BY DEF TypeInv
<1>1. ASSUME NEW job, NEW o, NEW refused, Schedules(job, o, refused)
      PROVE  QueueInv'
  BY <1>1, SchedulesKeepQueue
<1>2. CASE TakeBatch
  <2>1. /\ pending' = pending \ batch' /\ batch' \subseteq pending
        /\ since' = [k \in Keys |->
                      IF \E j \in batch' : j.key = k THEN 0 ELSE since[k]]
    BY <1>2 DEF TakeBatch, DueJobs
  <2>2. WithinQuota'
    <3>1. /\ pending' \in SUBSET pending
          /\ BestEffortJobs(pending)' \in SUBSET BestEffortJobs(pending)
          /\ BestEffortJobs(pending) \in SUBSET pending
      BY <2>1 DEF BestEffortJobs
    <3>2. IsFiniteSet(pending) /\ IsFiniteSet(BestEffortJobs(pending))
      BY <3>1, FS_Subset DEF TypeInv
    <3>3. /\ Cardinality(pending') <= Cardinality(pending)
          /\ Cardinality(BestEffortJobs(pending)') <= Cardinality(BestEffortJobs(pending))
      BY <3>1, <3>2, FS_Subset
    <3>4. IsFiniteSet(pending') /\ IsFiniteSet(BestEffortJobs(pending)')
      BY <3>1, <3>2, FS_Subset
    <3>5. /\ Cardinality(pending) \in Nat /\ Cardinality(pending') \in Nat
          /\ Cardinality(BestEffortJobs(pending)) \in Nat
          /\ Cardinality(BestEffortJobs(pending)') \in Nat
          /\ BestEffortMax \in Nat /\ TotalMax \in Nat
      BY <3>2, <3>4, FS_CardinalityType, QueueAssumption DEF TotalMax
    <3> QED
      BY <3>3, <3>5 DEF QueueInv, WithinQuota
  <2>3. OneJobPerKey'
    BY <2>1 DEF QueueInv, OneJobPerKey
  <2>4. FirstIsSince'
    <3> SUFFICES ASSUME NEW j \in pending', j.key # NoKey
                 PROVE  j.first = since'[j.key] /\ j.due <= j.first + MaxDefer
      BY DEF FirstIsSince
    <3>1. j \in pending /\ j \notin batch'
      BY <2>1
    <3>2. j.key \in Keys
      BY <1>0, <3>1 DEF TypeOK, Jobs
    <3>3. ~\E i \in batch' : i.key = j.key
      BY <2>1, <3>1 DEF QueueInv, OneJobPerKey
    <3>4. since'[j.key] = since[j.key]
      BY <2>1, <3>2, <3>3
    <3> QED
      BY <3>1, <3>4 DEF QueueInv, FirstIsSince
  <2> QED
    BY <2>2, <2>3, <2>4 DEF QueueInv
<1>3. CASE UNCHANGED <<pending, since>>
  BY <1>3 DEF QueueInv, WithinQuota, OneJobPerKey, FirstIsSince, BestEffortJobs
<1> QED
  BY <1>0, <1>1, <1>2, <1>3, StepCases
  DEF CallStep, RetryStep, FinishStep, Finish, Notify, ModeChanges, Plan, Observe,
      Wake, EndLoop, Tick, vars, jobVars

\* The queue's invariant, as it is used for the properties below.
LEMMA Queues == Spec => [](TypeInv /\ QueueInv)
BY InitTypes, NextTypes, InitQueue, NextQueue, PTL DEF Spec

\* The limits of the queue hold for any limits, callers and retries.
THEOREM QuotaCorrect == Spec => []WithinQuota
<1>1. TypeInv /\ QueueInv => WithinQuota
  BY DEF QueueInv
<1> QED
  BY <1>1, Queues, PTL

\* A key never has two jobs in the queue.
THEOREM KeyCorrect == Spec => []OneJobPerKey
<1>1. TypeInv /\ QueueInv => OneJobPerKey
  BY DEF QueueInv
<1> QED
  BY <1>1, Queues, PTL

\* Replacements put no job off for longer than MaxDefer.
THEOREM DeferralCorrect == Spec => []DeferralBounded
<1>1. TypeInv /\ QueueInv => DeferralBounded
  BY DEF QueueInv, FirstIsSince, DeferralBounded
<1> QED
  BY <1>1, Queues, PTL

-----------------------------------------------------------------------------
(* Lateness.  A job may be late as long as the timer's own wake-up is not  *)
(* planned beyond a guard period after the job was due, or allowed.        *)

InTime(t, j) ==
  /\ Critical(j) => t <= j.due + GuardPeriod
  /\ Eligible(j, allowBestEffort) => t <= Later(j.due, allowedSince) + GuardPeriod

TimerInv ==
  /\ nextGuard <= now + GuardPeriod
  /\ allowedSince <= now
  /\ \A j \in pending : InTime(now, j)
  /\ pc \in {"observe", "wait"} => /\ deadline <= now + GuardPeriod
                                   /\ \A j \in pending : InTime(deadline, j)

\* What is scheduled is due soon enough for any time within a guard period
\* that was soon enough for the jobs before.
LEMMA SchedulesKeepTime ==
  ASSUME TypeInv, QueueInv, NEW job, NEW o, NEW refused, Schedules(job, o, refused),
         NEW t \in Nat, t <= now + GuardPeriod, \A j \in pending : InTime(t, j)
  PROVE  \A j \in pending' : InTime(t, j)'
<1>1. /\ pending \subseteq Jobs /\ \A j \in pending : KeyFits(j)
      /\ job \in Jobs /\ KeyFits(job) /\ now <= job.due
      /\ o \in Schedule(pending, job)
      /\ now \in Nat /\ allowedSince \in Nat /\ GuardPeriod \in Nat /\ MaxDefer \in Nat
  BY TimerAssumption, QueueAssumption
  DEF TypeInv, TypeOK, KeyFits, Schedules, FreshJob
<1>2. pending' = o.pending
  BY DEF Schedules, Displace
<1>3. allowBestEffort' = allowBestEffort /\ allowedSince' = allowedSince
  BY DEF Schedules
<1>4. \A j : InTime(t, j)' <=> InTime(t, j)
  BY <1>3 DEF InTime
<1>5. InTime(t, job)
  BY <1>1 DEF InTime, Later, Jobs
<1>6. o.pending \subseteq pending \cup {job}
         \/ \E old \in pending : Replaces(pending, job, old, o)
  <2>1. ASSUME NEW old \in pending, Evicts(pending, job, old, o)
        PROVE  o.pending \subseteq pending \cup {job}
    BY <2>1, OutcomeFields DEF Evicts
  <2>2. ASSUME Enters(pending, job, o)
        PROVE  o.pending \subseteq pending \cup {job}
    BY <2>2, OutcomeFields DEF Enters
  <2>3. ASSUME IsRefused(pending, job, o)
        PROVE  o.pending \subseteq pending \cup {job}
    BY <2>3, OutcomeFields DEF IsRefused
  <2> QED
    BY <1>1, <2>1, <2>2, <2>3, OutcomeCases
<1>7. ASSUME NEW old \in pending, Replaces(pending, job, old, o)
      PROVE  \A j \in o.pending : InTime(t, j)
  <2>1. PICK c : c = Coalesce(old, job)
    OBVIOUS
  <2>2. o.pending = (pending \ {old}) \cup {c}
    BY <1>7, <2>1, OutcomeFields DEF Replaces
  <2>3. old.key # NoKey /\ job.key = old.key
    BY <1>7 DEF Replaces, SameKey
  <2>4. c.kind = job.kind /\ c.due = Earlier(job.due, old.first + MaxDefer)
    BY <1>1, <2>1, CoalesceFields
  <2>5. ~Critical(c) /\ ~Critical(job) /\ ~Critical(old)
    BY <1>1, <2>3, <2>4 DEF KeyFits, Critical
  <2>6. ASSUME allowBestEffort
        PROVE  t <= Later(c.due, allowedSince) + GuardPeriod
    <3>1. \/ c.due = job.due
          \/ c.due = old.first + MaxDefer
      BY <2>4 DEF Earlier
    <3>2. /\ t <= Later(job.due, allowedSince) + GuardPeriod
          /\ t <= Later(old.due, allowedSince) + GuardPeriod
      BY <1>5, <2>6 DEF InTime, Eligible
    <3>3. old.due <= old.first + MaxDefer
      BY <2>3 DEF QueueInv, FirstIsSince
    <3>4. old.due \in Nat /\ old.first \in Nat
      BY <1>1 DEF Jobs
    <3> QED
      BY <1>1, <3>1, <3>2, <3>3, <3>4 DEF Later
  <2>7. InTime(t, c)
    BY <2>5, <2>6 DEF InTime, Eligible
  <2> QED
    BY <2>2, <2>7
<1> QED
  BY <1>2, <1>4, <1>5, <1>6, <1>7

\* The wake-up that the loop plans.
LEMMA PlanInTime ==
  ASSUME TypeOK, TimerInv, NEW d \in WakeTimes
  PROVE  /\ d <= now + GuardPeriod
         /\ \A j \in pending : InTime(d, j)
<1>1. PICK times :
        times = {j.due : j \in {k \in pending : Eligible(k, allowBestEffort)}}
                \cup {now + WaitMax}
  OBVIOUS
<1>2. NextJobTimes = {Later(t, now) : t \in {u \in times : \A v \in times : u <= v}}
  BY <1>1 DEF NextJobTimes
<1>3. PICK t \in times :
        /\ \A v \in times : t <= v
        /\ d = Earlier(Later(t, now), nextGuard)
  BY <1>2 DEF WakeTimes
<1>4. /\ now \in Nat /\ nextGuard \in Nat /\ allowedSince \in Nat
      /\ nextGuard <= now + GuardPeriod
      /\ GuardPeriod \in Nat /\ WaitMax \in Nat
  BY TimerAssumption DEF TypeOK, TimerInv
<1>5. \A j \in pending : j.due \in Nat
  BY DEF TypeOK, Jobs
<1>6. t \in Nat
  BY <1>1, <1>3, <1>4, <1>5
<1>7. d <= now + GuardPeriod /\ d <= Later(t, now) /\ d \in Nat
  BY <1>3, <1>4, <1>6 DEF Earlier, Later
<1>8. ASSUME NEW j \in pending
      PROVE  InTime(d, j)
  <2>1. CASE ~Eligible(j, allowBestEffort)
    BY <2>1 DEF InTime, Eligible
  <2>2. CASE Eligible(j, allowBestEffort)
    <3>1. t <= j.due
      BY <1>1, <1>3, <2>2
    <3>2. d <= Later(j.due, now)
      BY <1>4, <1>5, <1>6, <1>7, <3>1 DEF Later
    <3>3. InTime(now, j)
      BY DEF TimerInv
    <3>4. d <= j.due \/ d <= now
      BY <3>2 DEF Later
    <3> QED
      BY <1>4, <1>5, <1>7, <3>3, <3>4 DEF InTime, Later
  <2> QED
    BY <2>1, <2>2
<1> QED
  BY <1>7, <1>8

\* Nothing is late when the timer thread starts.
LEMMA InitTimer == Init => TimerInv
BY TimerAssumption DEF Init, TimerInv

\* Every step keeps the jobs in time: the clock moves only up to the wake-up.
LEMMA NextTimer ==
  ASSUME TypeInv, QueueInv, TimerInv, [Next]_vars
  PROVE  TimerInv'
<1>0. /\ TypeOK /\ TypeOK'
      /\ now \in Nat /\ deadline \in Nat /\ allowedSince \in Nat
      /\ nextGuard \in Nat /\ GuardPeriod \in Nat
      /\ \A j \in pending : j.due \in Nat
  BY NextTypes, TimerAssumption DEF TypeInv, TypeOK, Jobs
<1>1. ASSUME NEW job, NEW o, NEW refused, Schedules(job, o, refused)
      PROVE  TimerInv'
  <2>1. /\ now' = now /\ nextGuard' = nextGuard /\ allowedSince' = allowedSince
        /\ pc' = pc /\ deadline' = deadline
    BY <1>1 DEF Schedules
  <2>2. PICK n, d : n = now /\ d = deadline
    OBVIOUS
  <2>3. n <= now + GuardPeriod /\ \A j \in pending : InTime(n, j)
    BY <1>0, <2>2 DEF TimerInv
  <2>4. \A j \in pending' : InTime(n, j)'
    BY <1>0, <1>1, <2>2, <2>3, SchedulesKeepTime
  <2>5. pc \in {"observe", "wait"} => \A j \in pending' : InTime(d, j)'
    <3>1. pc \in {"observe", "wait"} => /\ d <= now + GuardPeriod
                                        /\ \A j \in pending : InTime(d, j)
      BY <2>2 DEF TimerInv
    <3> QED
      BY <1>0, <1>1, <2>2, <3>1, SchedulesKeepTime
  <2>6. n = now' /\ d = deadline'
    BY <2>1, <2>2
  <2> QED
    BY <2>1, <2>4, <2>5, <2>6 DEF TimerInv, InTime
<1>2. CASE ModeChanges
  <2>1. /\ allowBestEffort' = ~allowBestEffort
        /\ allowedSince' = (IF allowBestEffort THEN 0 ELSE now)
        /\ now' = now /\ nextGuard' = nextGuard /\ pending' = pending
        /\ pc' = pc /\ deadline' = deadline
    BY <1>2 DEF ModeChanges, jobVars, timerVars
  <2>2. ASSUME NEW t \in Nat, t <= now + GuardPeriod,
               NEW j \in pending, InTime(t, j)
        PROVE  InTime(t, j)'
    <3>1. j.due \in Nat /\ Later(j.due, allowedSince') \in Nat
      BY <1>0, <2>1 DEF Later
    <3>2. Critical(j) => t <= j.due + GuardPeriod
      BY <2>2 DEF InTime
    <3>3. CASE allowBestEffort
      <4>1. Eligible(j, allowBestEffort') => Critical(j)
        BY <2>1, <3>3 DEF Eligible
      <4>2. j.due <= Later(j.due, allowedSince')
        BY <1>0, <2>1, <3>1, <3>3 DEF Later
      <4> QED
        BY <1>0, <3>1, <3>2, <4>1, <4>2 DEF InTime
    <3>4. CASE ~allowBestEffort
      <4>1. now <= Later(j.due, allowedSince')
        BY <1>0, <2>1, <3>1, <3>4 DEF Later
      <4> QED
        BY <1>0, <2>2, <3>1, <3>2, <4>1 DEF InTime
    <3> QED
      BY <3>3, <3>4
  <2>3. PICK n, d : n = now /\ d = deadline
    OBVIOUS
  <2>4. \A j \in pending : InTime(n, j)'
    BY <1>0, <2>2, <2>3 DEF TimerInv
  <2>5. pc \in {"observe", "wait"} => \A j \in pending : InTime(d, j)'
    BY <1>0, <2>2, <2>3 DEF TimerInv
  <2>6. n = now' /\ d = deadline'
    BY <2>1, <2>3
  <2>7. allowedSince' <= now'
    BY <1>0, <2>1
  <2>8. /\ \A j \in pending' : InTime(n, j)'
        /\ pc' \in {"observe", "wait"} => \A j \in pending' : InTime(d, j)'
    BY <2>1, <2>4, <2>5
  <2> QED
    BY <2>1, <2>6, <2>7, <2>8 DEF TimerInv, InTime
<1>3. CASE Plan
  BY <1>0, <1>3, PlanInTime DEF Plan, TimerInv, jobVars, InTime
<1>4. CASE Wake \/ TakeBatch \/ FinishStep
  <2>1. /\ pending' \subseteq pending
        /\ pc' \notin {"observe", "wait"}
        /\ UNCHANGED <<now, allowBestEffort, allowedSince, nextGuard>>
    BY <1>4 DEF Wake, Wakes, TakeBatch, FinishStep, Finish, jobVars
  <2> QED
    BY <2>1 DEF TimerInv, InTime
<1>5. CASE EndLoop
  <2>1. /\ pending' = pending /\ pc' = "plan"
        /\ UNCHANGED <<now, allowBestEffort, allowedSince>>
        /\ nextGuard' <= now + GuardPeriod
    BY <1>0, <1>5 DEF EndLoop, TimerInv, jobVars
  <2> QED
    BY <2>1 DEF TimerInv, InTime
<1>6. CASE Tick
  <2>1. /\ pc = "wait" /\ pc' = pc /\ now + 1 <= deadline
        /\ pending' = pending /\ now' = now + 1
        /\ UNCHANGED <<allowBestEffort, allowedSince, nextGuard, deadline>>
    BY <1>0, <1>6 DEF Tick, Wakes, jobVars, timerVars
  <2>2. \A j \in pending : InTime(deadline, j)
    BY <2>1 DEF TimerInv
  <2>3. ASSUME NEW j \in pending
        PROVE  InTime(now + 1, j)
    <3>1. /\ j.due \in Nat /\ Later(j.due, allowedSince) \in Nat
          /\ InTime(deadline, j)
      BY <1>0, <2>2 DEF Later
    <3> QED
      BY <1>0, <2>1, <3>1 DEF InTime
  <2> QED
    BY <1>0, <2>1, <2>2, <2>3 DEF TimerInv, InTime
<1>7. CASE Notify \/ Observe \/ UNCHANGED vars
  <2>1. /\ UNCHANGED <<now, allowBestEffort, allowedSince, nextGuard, deadline, pending>>
        /\ pc' \in {"observe", "wait"} => pc \in {"observe", "wait"}
    BY <1>7 DEF Notify, Observe, vars, jobVars, timerVars
  <2> QED
    BY <2>1 DEF TimerInv, InTime
<1> QED
  BY <1>0, <1>1, <1>2, <1>3, <1>4, <1>5, <1>6, <1>7, StepCases
  DEF CallStep, RetryStep

\* The timer's invariant.
LEMMA Timers == Spec => [](TypeInv /\ QueueInv /\ TimerInv)
BY InitTypes, NextTypes, InitQueue, NextQueue, InitTimer, NextTimer, PTL DEF Spec

\* No job waits for more than a guard period after it was due, whatever
\* notifications are missed and however often the mode changes.
THEOREM LatenessCorrect == Spec => []LateByAtMostAPeriod
<1>1. TypeInv /\ QueueInv /\ TimerInv => LateByAtMostAPeriod
  BY DEF TimerInv, InTime, LateByAtMostAPeriod
<1> QED
  BY <1>1, Timers, PTL

-----------------------------------------------------------------------------
(* Losses                                                                  *)

\* Some best-effort job is the soonest due, if there is any.
LEMMA SoonestExists ==
  ASSUME NEW S, S \subseteq Jobs, S # {}
  PROVE  Soonest(S) # {}
<1>1. PICK dues : dues = {j.due : j \in S}
  OBVIOUS
<1>2. dues \subseteq Nat /\ dues # {}
  BY <1>1 DEF Jobs
<1>3. PICK t \in dues : \A u \in dues : ~(<<u, t>> \in OpToRel(<, Nat))
  BY <1>2, NatLessThanWellFounded, WFMin
<1>4. \A u \in dues : ~(u < t)
  BY <1>2, <1>3 DEF OpToRel
<1>5. \A u \in dues : t <= u
  <2>1. \A u \in dues : u \in Nat
    BY <1>2
  <2>2. \A a, b \in Nat : ~(a < b) => b <= a
    OBVIOUS
  <2> QED
    BY <1>3, <1>4, <2>1, <2>2
<1>6. PICK j \in S : j.due = t
  BY <1>1
<1>7. \A k \in S : j.due <= k.due
  <2>1. \A k \in S : k.due \in dues
    BY <1>1
  <2> QED
    BY <1>5, <1>6, <2>1
<1> QED
  BY <1>7 DEF Soonest

Explained(l) ==
  LET full == l.nCritical + l.nBestEffort = TotalMax
  IN  /\ l.critical => l.why = "refused" /\ l.nCritical = TotalMax
      /\ l.why = "evicted" => full /\ l.nCritical >= CriticalReserved
      /\ l.why = "refused" => full \/ l.nBestEffort = BestEffortMax

\* Critical and best-effort jobs make up the queue.
LEMMA Census ==
  ASSUME NEW P, IsFiniteSet(P)
  PROVE  /\ Cardinality(CriticalJobs(P)) \in Nat
         /\ Cardinality(BestEffortJobs(P)) \in Nat
         /\ Cardinality(P) = Cardinality(CriticalJobs(P))
                             + Cardinality(BestEffortJobs(P))
<1>1. /\ CriticalJobs(P) \in SUBSET P /\ BestEffortJobs(P) \in SUBSET P
      /\ CriticalJobs(P) \cup BestEffortJobs(P) = P
      /\ CriticalJobs(P) \cap BestEffortJobs(P) = {}
  BY DEF CriticalJobs, BestEffortJobs
<1>2. IsFiniteSet(CriticalJobs(P)) /\ IsFiniteSet(BestEffortJobs(P))
  BY <1>1, FS_Subset
<1>3. /\ Cardinality(CriticalJobs(P)) \in Nat
      /\ Cardinality(BestEffortJobs(P)) \in Nat
  BY <1>2, FS_CardinalityType
<1>4. Cardinality(CriticalJobs(P) \cup BestEffortJobs(P))
        = Cardinality(CriticalJobs(P)) + Cardinality(BestEffortJobs(P))
          - Cardinality(CriticalJobs(P) \cap BestEffortJobs(P))
  BY <1>2, FS_Union
<1> QED
  BY <1>1, <1>3, <1>4, FS_EmptySet

\* What a call throws away has a stated reason.
LEMMA SchedulesExplain ==
  ASSUME TypeInv, QueueInv, LossExplained,
         NEW job, NEW o, NEW refused, Schedules(job, o, refused)
  PROVE  LossExplained'
<1>1. /\ pending \subseteq Jobs /\ IsFiniteSet(pending)
      /\ job \in Jobs /\ o \in Schedule(pending, job)
      /\ BestEffortMax \in Nat /\ CriticalReserved \in Nat
      /\ TotalMax = BestEffortMax + CriticalReserved
  BY QueueAssumption DEF TypeInv, TypeOK, Schedules, FreshJob, TotalMax
<1>2. PICK replaced : replaced = {j \in o.out : j.key # NoKey /\ j.key = job.key}
  OBVIOUS
<1>3. lost' = lost \cup {Loss(j, "evicted") : j \in o.out \ replaced} \cup refused
  BY <1>2 DEF Schedules, Displace
<1>4. PICK nC, nB : /\ nC = Cardinality(CriticalJobs(pending))
                    /\ nB = Cardinality(BestEffortJobs(pending))
  OBVIOUS
<1>5. /\ nC \in Nat /\ nB \in Nat /\ Cardinality(pending) = nC + nB
      /\ nB <= BestEffortMax /\ nC + nB <= TotalMax
  BY <1>1, <1>4, Census DEF QueueInv, WithinQuota
<1>6. \A j, why : /\ Loss(j, why).critical = Critical(j)
                  /\ Loss(j, why).why = why
                  /\ Loss(j, why).nCritical = nC
                  /\ Loss(j, why).nBestEffort = nB
  BY <1>4 DEF Loss
<1>7. ASSUME NEW j \in o.out \ replaced
      PROVE  Explained(Loss(j, "evicted"))
  <2>1. PICK old \in pending : o.out = {old} /\ (Replaces(pending, job, old, o)
                                                   \/ Evicts(pending, job, old, o))
    <3>1. ASSUME Enters(pending, job, o) \/ IsRefused(pending, job, o)
          PROVE  o.out = {}
      BY <3>1, OutcomeFields DEF Enters, IsRefused
    <3>2. ASSUME NEW old \in pending,
                 Replaces(pending, job, old, o) \/ Evicts(pending, job, old, o)
          PROVE  o.out = {old}
      BY <3>2, OutcomeFields DEF Replaces, Evicts
    <3> QED
      BY <1>1, <1>7, <3>1, <3>2, OutcomeCases
  <2>2. ~Replaces(pending, job, old, o)
    BY <1>2, <1>7, <2>1 DEF Replaces, SameKey
  <2>3. old \in Evictable(pending, job) /\ j = old
    BY <1>7, <2>1, <2>2 DEF Evicts
  <2>4. ~Critical(old) /\ Cardinality(pending) >= TotalMax
    BY <2>3 DEF Evictable, Soonest, BestEffortJobs
  <2> QED
    BY <1>1, <1>5, <1>6, <2>3, <2>4 DEF Explained
<1>8. ASSUME o.in = {}
      PROVE  Explained(Loss(job, "refused"))
  <2>1. IsRefused(pending, job, o)
    <3>1. ASSUME NEW old \in pending,
                 Replaces(pending, job, old, o) \/ Evicts(pending, job, old, o)
          PROVE  o.in # {}
      BY <3>1, OutcomeFields DEF Replaces, Evicts
    <3>2. ASSUME Enters(pending, job, o) PROVE o.in # {}
      BY <3>2, OutcomeFields DEF Enters
    <3> QED
      BY <1>1, <1>8, <3>1, <3>2, OutcomeCases
  <2>2. CASE Critical(job)
    <3>1. Cardinality(pending) >= TotalMax
      BY <1>1, <1>5, <2>1, <2>2 DEF IsRefused, HasRoom
    <3>2. Soonest(BestEffortJobs(pending)) = {}
      BY <2>1, <2>2, <3>1 DEF IsRefused, Evictable
    <3>3. BestEffortJobs(pending) = {}
      <4>1. BestEffortJobs(pending) \subseteq Jobs
        BY <1>1 DEF BestEffortJobs
      <4> QED
        BY <3>2, <4>1, SoonestExists
    <3>4. nB = 0
      BY <1>4, <3>3, FS_EmptySet
    <3> QED
      BY <1>1, <1>5, <1>6, <3>1, <3>4 DEF Explained
  <2>3. CASE ~Critical(job)
    <3>1. Cardinality(pending) >= TotalMax \/ nB >= BestEffortMax
      BY <1>1, <1>4, <1>5, <2>1, <2>3 DEF IsRefused, HasRoom
    <3> QED
      BY <1>1, <1>5, <1>6, <2>3, <3>1 DEF Explained
  <2> QED
    BY <2>2, <2>3
<1>9. \A l \in refused : Explained(l)
  BY <1>8 DEF Schedules
<1>10. \A l \in lost : Explained(l)
  BY DEF LossExplained, Explained
<1>11. \A l \in lost' : Explained(l)
  BY <1>3, <1>7, <1>9, <1>10
<1> QED
  BY <1>11 DEF LossExplained, Explained

\* Every step keeps the losses explained.
LEMMA NextLosses ==
  ASSUME TypeInv, QueueInv, LossExplained, [Next]_vars
  PROVE  LossExplained'
<1>0. TypeOK
  BY DEF TypeInv
<1>1. ASSUME NEW job, NEW o, NEW refused, Schedules(job, o, refused)
      PROVE  LossExplained'
  BY <1>1, SchedulesExplain
<1>2. CASE UNCHANGED lost
  BY <1>2 DEF LossExplained
<1> QED
  BY <1>0, <1>1, <1>2, StepCases
  DEF CallStep, RetryStep, FinishStep, Finish, Notify, ModeChanges, Plan, Observe,
      Wake, TakeBatch, EndLoop, Tick, vars, jobVars

\* Accepted work is thrown away for the two stated reasons only: in particular
\* a critical closure only when critical ones hold every slot.
THEOREM LossesCorrect == Spec => []LossExplained
<1>1. Init => LossExplained
  BY DEF Init, LossExplained
<1> QED
  BY <1>1, InitTypes, NextTypes, InitQueue, NextQueue, NextLosses, PTL DEF Spec

-----------------------------------------------------------------------------
(* Where each accepted closure is                                          *)

Msgs(S) == {x.msg : x \in S}
Distinct(S) == \A x, y \in S : x.msg = y.msg => x = y

\* The closures that are queued, replaced or lost.
Shelved == Msgs(pending) \cup superseded \cup Msgs(lost)

ShelfInv ==
  /\ Distinct(pending) /\ Distinct(lost)
  /\ Msgs(pending) \cap superseded = {}
  /\ Msgs(pending) \cap Msgs(lost) = {}
  /\ superseded \cap Msgs(lost) = {}

PlaceInv ==
  /\ ShelfInv /\ Distinct(batch)
  /\ Msgs(batch) \cap Shelved = {}
  /\ done \cap Shelved = {}
  /\ Msgs(batch) \cap done = {}
  /\ Msgs(batch) \cup done \cup Shelved = 1..(nextMsg - 1)

\* The messages of a set of jobs or losses, one element more or less.
LEMMA MsgsFacts ==
  /\ \A S, x : x \in S => x.msg \in Msgs(S)
  /\ \A S, m : m \in Msgs(S) => \E x \in S : m = x.msg
  /\ \A S, x : Msgs(S \cup {x}) = Msgs(S) \cup {x.msg}
  /\ \A S, x : Distinct(S) /\ x \in S => /\ Msgs(S \ {x}) = Msgs(S) \ {x.msg}
                                         /\ Distinct(S \ {x})
  /\ \A S, x : Distinct(S) /\ x.msg \notin Msgs(S) => Distinct(S \cup {x})
<1>1. \A S, x : Msgs(S \cup {x}) = Msgs(S) \cup {x.msg}
  BY DEF Msgs
<1>2. ASSUME NEW S, NEW x, Distinct(S), x \in S
      PROVE  Msgs(S \ {x}) = Msgs(S) \ {x.msg} /\ Distinct(S \ {x})
  BY <1>2 DEF Msgs, Distinct
<1>3. ASSUME NEW S, NEW x, Distinct(S), x.msg \notin Msgs(S)
      PROVE  Distinct(S \cup {x})
  BY <1>3 DEF Msgs, Distinct
<1>4. \A S, x : x \in S => x.msg \in Msgs(S)
  BY DEF Msgs
<1>5. \A S, m : m \in Msgs(S) => \E x \in S : m = x.msg
  BY DEF Msgs
<1> QED
  BY <1>1, <1>2, <1>3, <1>4, <1>5

\* A new message.
LEMMA MsgsAdd ==
  ASSUME NEW S, Distinct(S), NEW x, x.msg \notin Msgs(S)
  PROVE  Distinct(S \cup {x}) /\ Msgs(S \cup {x}) = Msgs(S) \cup {x.msg}
BY MsgsFacts

\* A new message for an old one.
LEMMA MsgsSwap ==
  ASSUME NEW S, Distinct(S), NEW x \in S, NEW y, y.msg \notin Msgs(S)
  PROVE  /\ Distinct((S \ {x}) \cup {y})
         /\ Msgs((S \ {x}) \cup {y}) = (Msgs(S) \ {x.msg}) \cup {y.msg}
<1>1. Distinct(S \ {x}) /\ Msgs(S \ {x}) = Msgs(S) \ {x.msg}
  BY MsgsFacts
<1>2. y.msg \notin Msgs(S \ {x})
  BY <1>1
<1> QED
  BY <1>1, <1>2, MsgsAdd

\* A call puts the new closure on a shelf, or leaves all where they are; what
\* it moves stays on one shelf.
LEMMA SchedulesShelve ==
  ASSUME ShelfInv, TypeInv, NEW job, NEW o, NEW refused,
         Schedules(job, o, refused), job.msg \notin Shelved
  PROVE  /\ ShelfInv'
         /\ o.in = {} /\ refused = {} => Shelved' = Shelved
         /\ o.in # {} \/ refused # {} => Shelved' = Shelved \cup {job.msg}
<1>1. PICK replaced : replaced = {j \in o.out : j.key # NoKey /\ j.key = job.key}
  OBVIOUS
<1>2. /\ pending' = o.pending /\ o \in Schedule(pending, job)
      /\ superseded' = superseded \cup Msgs(replaced)
      /\ lost' = lost \cup {Loss(j, "evicted") : j \in o.out \ replaced} \cup refused
      /\ pending \subseteq Jobs /\ job \in Jobs
      /\ \A j \in pending : KeyFits(j)
      /\ KeyFits(job)
  BY <1>1 DEF Schedules, Displace, Msgs, FreshJob, TypeInv, TypeOK, KeyFits
<1>3. \A j, why : Loss(j, why).msg = j.msg
  BY DEF Loss
<1>4. /\ Msgs({}) = {} /\ \A x : Msgs({x}) = {x.msg}
      /\ Distinct(pending) /\ Distinct(lost) /\ job.msg \notin Msgs(pending)
      /\ job.msg \notin Msgs(lost)
  BY DEF Msgs, ShelfInv, Shelved
<1>5. ASSUME NEW old \in pending, Replaces(pending, job, old, o)
      PROVE  /\ ShelfInv' /\ o.in # {}
             /\ Shelved' = Shelved \cup {job.msg}
  <2>1. PICK c : c = Coalesce(old, job)
    OBVIOUS
  <2>2. o.pending = (pending \ {old}) \cup {c} /\ o.out = {old} /\ o.in = {c}
    BY <1>5, <2>1, OutcomeFields DEF Replaces
  <2>3. c.msg = job.msg
    BY <1>2, <2>1 DEF Coalesce, Jobs
  <2>4. replaced = {old}
    BY <1>1, <1>5, <2>2 DEF Replaces, SameKey
  <2>5. refused = {}
    BY <2>2 DEF Schedules
  <2>6. superseded' = superseded \cup {old.msg} /\ lost' = lost
    BY <1>2, <1>4, <2>2, <2>4, <2>5
  <2>7. /\ Distinct((pending \ {old}) \cup {c})
        /\ Msgs((pending \ {old}) \cup {c}) = (Msgs(pending) \ {old.msg}) \cup {job.msg}
    <3>1. c.msg \notin Msgs(pending)
      BY <1>4, <2>3
    <3>2. /\ Distinct((pending \ {old}) \cup {c})
          /\ Msgs((pending \ {old}) \cup {c}) = (Msgs(pending) \ {old.msg}) \cup {c.msg}
      <4>1. Distinct(pending) /\ old \in pending
        BY <1>4
      <4> QED
        BY <3>1, <4>1, MsgsSwap
    <3> QED
      BY <2>3, <3>2
  <2>8. /\ Distinct(pending')
        /\ Msgs(pending') = (Msgs(pending) \ {old.msg}) \cup {job.msg}
    BY <1>2, <2>2, <2>7
  <2>9. old.msg \in Msgs(pending)
    BY MsgsFacts
  <2> QED
    BY <2>2, <2>6, <2>8, <2>9 DEF ShelfInv, Shelved
<1>6. ASSUME NEW old \in pending, Evicts(pending, job, old, o)
      PROVE  /\ ShelfInv' /\ o.in # {}
             /\ Shelved' = Shelved \cup {job.msg}
  <2>1. o.pending = (pending \ {old}) \cup {job} /\ o.out = {old} /\ o.in = {job}
    BY <1>6, OutcomeFields DEF Evicts
  <2>2. replaced = {}
    BY <1>1, <1>6, <2>1 DEF Evicts, SameKey
  <2>3. refused = {}
    BY <2>1 DEF Schedules
  <2>4. superseded' = superseded /\ lost' = lost \cup {Loss(old, "evicted")}
    BY <1>2, <1>4, <2>1, <2>2, <2>3
  <2>5. /\ Distinct((pending \ {old}) \cup {job})
        /\ Msgs((pending \ {old}) \cup {job}) = (Msgs(pending) \ {old.msg}) \cup {job.msg}
    BY <1>4, MsgsSwap
  <2>6. /\ Distinct(pending')
        /\ Msgs(pending') = (Msgs(pending) \ {old.msg}) \cup {job.msg}
    BY <1>2, <2>1, <2>5
  <2>7. old.msg \in Msgs(pending)
    BY MsgsFacts
  <2>8. /\ Msgs(lost') = Msgs(lost) \cup {old.msg}
        /\ Distinct(lost')
    <3>1. Loss(old, "evicted").msg = old.msg /\ old.msg \notin Msgs(lost)
      BY <1>3, <2>7 DEF ShelfInv
    <3> QED
      BY <1>4, <2>4, <3>1, MsgsAdd
  <2> QED
    BY <2>1, <2>4, <2>6, <2>7, <2>8 DEF ShelfInv, Shelved
<1>7. ASSUME Enters(pending, job, o)
      PROVE  /\ ShelfInv' /\ o.in # {}
             /\ Shelved' = Shelved \cup {job.msg}
  <2>1. o.pending = pending \cup {job} /\ o.out = {} /\ o.in = {job}
    BY <1>7, OutcomeFields DEF Enters
  <2>2. refused = {} /\ replaced = {}
    BY <1>1, <2>1 DEF Schedules
  <2>3. superseded' = superseded /\ lost' = lost
    BY <1>2, <1>4, <2>1, <2>2
  <2>4. Distinct(pending') /\ Msgs(pending') = Msgs(pending) \cup {job.msg}
    BY <1>2, <1>4, <2>1, MsgsAdd
  <2> QED
    BY <2>1, <2>3, <2>4 DEF ShelfInv, Shelved
<1>8. ASSUME IsRefused(pending, job, o)
      PROVE  /\ ShelfInv' /\ o.in = {}
             /\ refused = {} => Shelved' = Shelved
             /\ refused # {} => Shelved' = Shelved \cup {job.msg}
  <2>1. o.pending = pending /\ o.out = {} /\ o.in = {}
    BY <1>8, OutcomeFields DEF IsRefused
  <2>2. replaced = {}
    BY <1>1, <2>1
  <2>3. superseded' = superseded /\ lost' = lost \cup refused
    BY <1>2, <1>4, <2>1, <2>2
  <2>4. CASE refused = {}
    BY <1>2, <2>1, <2>3, <2>4 DEF ShelfInv, Shelved
  <2>5. CASE refused = {Loss(job, "refused")}
    <3>1. /\ Msgs(lost') = Msgs(lost) \cup {job.msg}
          /\ Distinct(lost')
      <4>1. Loss(job, "refused").msg = job.msg
        BY <1>3
      <4> QED
        BY <1>4, <2>3, <2>5, <4>1, MsgsAdd
    <3> QED
      BY <1>2, <2>1, <2>3, <2>5, <3>1 DEF ShelfInv, Shelved
  <2> QED
    BY <2>1, <2>4, <2>5 DEF Schedules
<1> QED
  BY <1>2, <1>5, <1>6, <1>7, <1>8, OutcomeCases

\* Every step keeps each closure in one place.
LEMMA NextPlaces ==
  ASSUME TypeInv, PlaceInv, [Next]_vars
  PROVE  PlaceInv'
<1>0. TypeOK /\ nextMsg \in Nat \ {0} /\ ShelfInv
  BY DEF TypeInv, TypeOK, PlaceInv
<1>1. ASSUME NEW job, NEW o, CallStep(job, o)
      PROVE  PlaceInv'
  <2>1. Schedules(job, o, {}) /\ job.msg = nextMsg
    BY <1>1 DEF CallStep
  <2>2. nextMsg \notin 1..(nextMsg - 1)
    BY <1>0
  <2>3. job.msg \notin Shelved
    BY <2>1, <2>2 DEF PlaceInv
  <2>4. /\ ShelfInv'
        /\ o.in = {} => Shelved' = Shelved
        /\ o.in # {} => Shelved' = Shelved \cup {nextMsg}
    BY <1>0, <2>1, <2>3, SchedulesShelve
  <2>5. batch' = batch /\ done' = done
        /\ (o.in = {} => nextMsg' = nextMsg) /\ (o.in # {} => nextMsg' = nextMsg + 1)
    BY <1>1 DEF CallStep
  <2>6. 1..(nextMsg + 1 - 1) = 1..(nextMsg - 1) \cup {nextMsg}
    BY <1>0
  <2>7. CASE o.in = {}
    BY <2>4, <2>5, <2>7 DEF PlaceInv, Distinct, Msgs
  <2>8. CASE o.in # {}
    <3>1. Msgs(batch') = Msgs(batch) /\ Distinct(batch') /\ done' = done
      BY <2>5 DEF PlaceInv
    <3>2. nextMsg \notin Msgs(batch) /\ nextMsg \notin done
      BY <2>2 DEF PlaceInv
    <3>3. 1..(nextMsg' - 1) = 1..(nextMsg - 1) \cup {nextMsg}
      BY <2>5, <2>6, <2>8
    <3> QED
      BY <2>4, <2>8, <3>1, <3>2, <3>3 DEF PlaceInv
  <2> QED
    BY <2>7, <2>8
<1>2. ASSUME NEW job, NEW o, NEW refused, RetryStep(job, o, refused)
      PROVE  PlaceInv'
  <2>1. /\ Schedules(job, o, refused)
        /\ o.in # {} \/ refused # {}
        /\ done' = done /\ nextMsg' = nextMsg
    BY <1>2 DEF RetryStep
  <2>2. PICK old \in batch : job.msg = old.msg /\ batch' = batch \ {old}
    BY <1>2 DEF RetryStep
  <2>3. job.msg \in Msgs(batch) /\ Distinct(batch)
    BY <2>2, MsgsFacts DEF PlaceInv
  <2>4. job.msg \notin Shelved /\ job.msg \notin done
    BY <2>3 DEF PlaceInv
  <2>5. ShelfInv' /\ Shelved' = Shelved \cup {job.msg}
    BY <1>0, <2>1, <2>4, SchedulesShelve
  <2>6. Msgs(batch') = Msgs(batch) \ {job.msg} /\ Distinct(batch')
    BY <2>2, <2>3, MsgsFacts
  <2> QED
    BY <2>1, <2>3, <2>4, <2>5, <2>6 DEF PlaceInv
<1>3. CASE FinishStep
  <2>1. PICK old \in batch : /\ done' = done \cup {old.msg}
                             /\ batch' = batch \ {old}
    BY <1>3 DEF FinishStep, Finish
  <2>2. /\ pending' = pending /\ superseded' = superseded /\ lost' = lost
        /\ nextMsg' = nextMsg
    BY <1>3 DEF FinishStep, Finish
  <2>3. ShelfInv' /\ Shelved' = Shelved
    BY <1>0, <2>2 DEF ShelfInv, Shelved
  <2>4. old.msg \in Msgs(batch) /\ Distinct(batch)
    BY <2>1, MsgsFacts DEF PlaceInv
  <2>5. Msgs(batch') = Msgs(batch) \ {old.msg} /\ Distinct(batch')
    BY <2>1, <2>4, MsgsFacts
  <2> QED
    BY <2>1, <2>2, <2>3, <2>4, <2>5 DEF PlaceInv
<1>4. CASE TakeBatch
  <2>1. /\ batch' \subseteq pending /\ pending' = pending \ batch'
        /\ done' = done /\ superseded' = superseded /\ lost' = lost
        /\ nextMsg' = nextMsg /\ batch = {}
    BY <1>0, <1>4 DEF TakeBatch, DueJobs, TypeOK
  <2>2. /\ Msgs(batch') \cup Msgs(pending') = Msgs(pending)
        /\ Msgs(batch') \cap Msgs(pending') = {}
        /\ Distinct(batch') /\ Distinct(pending')
    BY <1>0, <2>1 DEF ShelfInv, Msgs, Distinct
  <2>3. Msgs(batch) = {}
    BY <2>1 DEF Msgs
  <2>4. ShelfInv'
    BY <1>0, <2>1, <2>2 DEF ShelfInv
  <2> QED
    BY <1>0, <2>1, <2>2, <2>3, <2>4 DEF PlaceInv, ShelfInv, Shelved
<1>5. CASE UNCHANGED <<pending, batch, done, superseded, lost, nextMsg>>
  BY <1>5 DEF PlaceInv, ShelfInv, Shelved, Distinct, Msgs
<1> QED
  BY <1>0, <1>1, <1>2, <1>3, <1>4, <1>5, StepCases
  DEF Notify, ModeChanges, Plan, Observe, Wake, EndLoop, Tick, vars, jobVars, timerVars

\* A message is counted once where it is, and not elsewhere.
LEMMA OneWithMsg ==
  ASSUME NEW S, Distinct(S), NEW m
  PROVE  /\ m \in Msgs(S) => Cardinality({x \in S : x.msg = m}) = 1
         /\ m \notin Msgs(S) => Cardinality({x \in S : x.msg = m}) = 0
<1>1. CASE m \in Msgs(S)
  <2>1. PICK x \in S : x.msg = m
    BY <1>1, MsgsFacts
  <2>2. {y \in S : y.msg = m} = {x}
    BY <2>1 DEF Distinct
  <2> QED
    BY <1>1, <2>2, FS_Singleton
<1>2. CASE m \notin Msgs(S)
  <2>1. {y \in S : y.msg = m} = {}
    BY <1>2 DEF Msgs
  <2> QED
    BY <1>2, <2>1, FS_EmptySet
<1> QED
  BY <1>1, <1>2

\* The same for a set of messages.
LEMMA OneOfSet ==
  ASSUME NEW S, NEW m
  PROVE  /\ m \in S => Cardinality({m} \cap S) = 1
         /\ m \notin S => Cardinality({m} \cap S) = 0
<1>1. m \in S => {m} \cap S = {m}
  OBVIOUS
<1>2. m \notin S => {m} \cap S = {}
  OBVIOUS
<1> QED
  BY <1>1, <1>2, FS_Singleton, FS_EmptySet

\* No accepted closure is run twice, or vanishes, whatever calls, evictions,
\* batches and retries happen.
THEOREM PlaceCorrect == Spec => []ClosureInOnePlace
<1>1. Init => PlaceInv
  <2> SUFFICES ASSUME Init PROVE PlaceInv
    OBVIOUS
  <2>1. /\ pending = {} /\ batch = {} /\ done = {} /\ superseded = {} /\ lost = {}
        /\ nextMsg = 1
    BY DEF Init
  <2>2. 1..(nextMsg - 1) = {}
    BY <2>1
  <2>3. Msgs({}) = {} /\ Distinct({})
    BY DEF Msgs, Distinct
  <2> QED
    BY <2>1, <2>2, <2>3 DEF PlaceInv, ShelfInv, Shelved
<1>2. PlaceInv => ClosureInOnePlace
  <2> SUFFICES ASSUME PlaceInv, NEW m \in 1..(nextMsg - 1)
               PROVE  PlacesOf(m) = 1
    BY DEF ClosureInOnePlace
  <2>1. /\ m \in Msgs(pending) => Cardinality({j \in pending : j.msg = m}) = 1
        /\ m \notin Msgs(pending) => Cardinality({j \in pending : j.msg = m}) = 0
    BY OneWithMsg DEF PlaceInv, ShelfInv
  <2>2. /\ m \in Msgs(batch) => Cardinality({j \in batch : j.msg = m}) = 1
        /\ m \notin Msgs(batch) => Cardinality({j \in batch : j.msg = m}) = 0
    BY OneWithMsg DEF PlaceInv
  <2>3. /\ m \in Msgs(lost) => Cardinality({l \in lost : l.msg = m}) = 1
        /\ m \notin Msgs(lost) => Cardinality({l \in lost : l.msg = m}) = 0
    BY OneWithMsg DEF PlaceInv, ShelfInv
  <2>4. /\ m \in done => Cardinality({m} \cap done) = 1
        /\ m \notin done => Cardinality({m} \cap done) = 0
        /\ m \in superseded => Cardinality({m} \cap superseded) = 1
        /\ m \notin superseded => Cardinality({m} \cap superseded) = 0
    BY OneOfSet
  <2>5. \/ m \in Msgs(pending) \/ m \in Msgs(batch) \/ m \in done
        \/ m \in superseded \/ m \in Msgs(lost)
    BY DEF PlaceInv, Shelved
  <2>6. /\ m \in Msgs(pending) => /\ m \notin Msgs(batch) /\ m \notin done
                                  /\ m \notin superseded /\ m \notin Msgs(lost)
        /\ m \in Msgs(batch) => /\ m \notin done /\ m \notin superseded
                                /\ m \notin Msgs(lost)
        /\ m \in done => m \notin superseded /\ m \notin Msgs(lost)
        /\ m \in superseded => m \notin Msgs(lost)
    BY DEF PlaceInv, ShelfInv, Shelved
  <2> QED
    BY <2>1, <2>2, <2>3, <2>4, <2>5, <2>6 DEF PlacesOf
<1>3. Spec => [](TypeInv /\ PlaceInv)
  BY <1>1, InitTypes, NextTypes, NextPlaces, PTL DEF Spec
<1> QED
  BY <1>2, <1>3, PTL
=============================================================================
