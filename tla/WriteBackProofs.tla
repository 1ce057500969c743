--------------------------- MODULE WriteBackProofs ---------------------------
(***************************************************************************)
(* Theorems about the write-back plane: its types, that there is one       *)
(* worker, and that nothing pending is without a flush but for the known   *)
(* gap.                                                                    *)
(***************************************************************************)
EXTENDS WriteBack, TLAPS

\* What flush_scheduled stands for.
Covered(s) ==
  \/ \E l \in Labels : FlushOf(l) = s /\ due[l] + later[l] > 0
  \/ \E w \in Workers, l \in Labels : FlushOf(l) = s /\ batch[w][l] > 0
  \/ \E w \in Workers : flushing[w] = s /\ stage[w] \in {"nothing", "apply", "clear"}
  \/ \E t \in Threads : target[t] = s /\ at[t] \in {"push", "reject"}

FlagIsCovered == \A s \in Stores : flag[s] => Covered(s)

Unlooked(s) == flag[s] /\ \E w \in Workers : flushing[w] = s /\ stage[w] = "nothing"
PendingIsCovered ==
  \A s \in Stores : HasPending(s) => FlushAhead(s) \/ stranded[s] # "no" \/ Unlooked(s)

WorkersAreConsistent ==
  \A w \in Workers :
    /\ stage[w] \in {"off", "poll"} => batch[w] = NoJobs
    /\ stage[w] \in {"admit", "nothing", "apply", "clear", "check"} => at[w] = "idle"
    /\ stage[w] \in {"nothing", "apply", "clear", "check"} => flushing[w] \in Stores

FlushInv == OneWorker /\ WorkersAreConsistent /\ FlagIsCovered /\ PendingIsCovered

-----------------------------------------------------------------------------
(* Types.                                                                  *)
Places == {"idle", "swap", "push", "reject", "ensure"}
Stages == {"off", "poll", "admit", "run", "nothing", "apply", "clear", "check"}
Writes == [Chats -> Write \cup {NoWrite}]

QueueTypes ==
  /\ due \in [Labels -> Nat] /\ later \in [Labels -> Nat]
  /\ started \in BOOLEAN /\ nextAttempt \in BOOLEAN /\ quiet \in BOOLEAN /\ retry \in BOOLEAN
EnvTypes  == busy \in BOOLEAN /\ troubles \in 0..MaxMishaps /\ faults \in 0..MaxMishaps
CallTypes == at \in [Threads -> Places] /\ target \in [Threads -> Labels \cup {NoLabel}]
BufferTypes ==
  /\ pending \in [Stores -> Writes] /\ stored \in [Stores -> [Chats -> Seq(Nat)]]
  /\ flag \in [Stores -> BOOLEAN] /\ stranded \in [Stores -> {"no", "refused", "overlooked"}]
  /\ ops \in 0..MaxOps /\ asked \in 0..MaxAsked
WorkerTypes ==
  /\ stage \in [Workers -> Stages]
  /\ batch \in [Workers -> [Labels -> Nat]] /\ flushing \in [Workers -> Stores \cup {NoLabel}]
  /\ drained \in [Workers -> Writes] /\ failed \in [Workers -> Writes]

Types == QueueTypes /\ EnvTypes /\ CallTypes /\ BufferTypes /\ WorkerTypes

Assumptions == QueueAssumption /\ WorkerAssumption /\ AgentAssumption

LEMMA TypesAreTypeOK == Types <=> TypeOK
BY Zenon DEF Types, QueueTypes, EnvTypes, CallTypes, BufferTypes, WorkerTypes, TypeOK,
       Places, Stages, Writes

LEMMA ConstantTypes ==
  ASSUME Assumptions
  PROVE  /\ Session \in Stores /\ MapStores \subseteq Stores /\ Stores \subseteq Labels
         /\ Gc \in Labels /\ Gc \notin Stores /\ NoLabel \notin Labels
         /\ Labels = Stores \cup {Gc} /\ Maintenance \subseteq Labels
         /\ Callers \subseteq Threads /\ Workers \subseteq Threads /\ Timer \in Threads
         /\ Agent \in Callers /\ Callers \cap Workers = {} /\ Timer \notin Workers
         /\ MaxOps \in Nat /\ MaxAsked \in Nat /\ MaxMishaps \in Nat /\ BatchMax \in Nat
BY DEF Assumptions, QueueAssumption, WorkerAssumption, AgentAssumption, Stores, Threads

LEMMA WriteTypes ==
  ASSUME NEW v \in Nat, NEW w \in Write \cup {NoWrite}
  PROVE  SetWrite(v) \in Write /\ ClearWrite \in Write /\ Appended(w, v) \in Write
<1>1. SetWrite(v) \in Write /\ ClearWrite \in Write BY DEF SetWrite, ClearWrite, Write
<1>2. Appended(w, v) \in Write
  <2>1. CASE w = NoWrite BY <2>1 DEF Appended, Write
  <2>2. CASE w # NoWrite
    <3>1. w \in [clear : BOOLEAN, entries : Seq(Nat)] BY <2>2 DEF Write
    <3>2. Append(w.entries, v) \in Seq(Nat) BY <3>1
    <3> QED BY <2>2, <3>1, <3>2 DEF Appended, Write
  <2> QED BY <2>1, <2>2
<1> QED BY <1>1, <1>2

LEMMA WrittenTypes ==
  ASSUME NEW contents \in Seq(Nat), NEW w \in Write \cup {NoWrite}
  PROVE  Written(contents, w) \in Seq(Nat)
BY DEF Written, Write

LEMMA RestoredTypes ==
  ASSUME NEW s, NEW x \in Write \cup {NoWrite}, NEW y \in Write \cup {NoWrite}
  PROVE  Restored(s, x, y) \in Write \cup {NoWrite}
<1>1. RestoredSet(x, y) \in Write \cup {NoWrite} BY DEF RestoredSet
<1>2. RestoredLog(x, y) \in Write \cup {NoWrite}
  <2>1. CASE x = NoWrite \/ y = NoWrite BY <2>1 DEF RestoredLog
  <2>2. CASE x # NoWrite /\ y # NoWrite
    <3>1. x \in Write /\ y \in Write BY <2>2
    <3>2. y.entries \o x.entries \in Seq(Nat) /\ y.clear \in BOOLEAN BY <3>1 DEF Write
    <3>3. [clear |-> y.clear, entries |-> y.entries \o x.entries] \in Write BY <3>2 DEF Write
    <3> QED BY <2>2, <3>1, <3>3 DEF RestoredLog
  <2> QED BY <2>1, <2>2
<1> QED BY <1>1, <1>2 DEF Restored

LEMMA FailureTypes ==
  ASSUME NEW s, NEW contents \in Seq(Nat), NEW w \in Write,
         NEW o \in AfterFailure(s, contents, w)
  PROVE  o \in Seq(Nat)
<1>1. CASE o = contents BY <1>1
<1>2. CASE o # contents
  <2>1. PICK n \in 0..Len(w.entries) :
          o = Written(contents, [clear |-> w.clear, entries |-> SubSeq(w.entries, 1, n)])
    BY <1>2 DEF AfterFailure
  <2>2. w.entries \in Seq(Nat) BY DEF Write
  <2>3. SubSeq(w.entries, 1, n) \in Seq(Nat) BY <2>2
  <2>4. [clear |-> w.clear, entries |-> SubSeq(w.entries, 1, n)] \in Write BY <2>3 DEF Write
  <2> QED BY <2>1, <2>4, WrittenTypes
<1> QED BY <1>1, <1>2

\* What every piece of the scheduler's code keeps of its types.
CallStep ==
  /\ nextAttempt' \in BOOLEAN /\ quiet' \in BOOLEAN /\ retry' \in BOOLEAN
  /\ EnvTypes' /\ CallTypes'

LEMMA ArmTypes ==
  ASSUME Assumptions, Types, ArmRetry
  PROVE  retry' \in BOOLEAN /\ EnvTypes'
<1> USE ConstantTypes
<1>1. CASE retry' = TRUE /\ UNCHANGED envVars
  BY <1>1 DEF Types, EnvTypes, envVars
<1>2. CASE retry' = FALSE /\ Refused
  <2>1. EnvTypes' BY <1>2 DEF Refused, Types, EnvTypes
  <2>2. retry' \in BOOLEAN BY Zenon, <1>2
  <2> QED BY <2>1, <2>2
<1> QED BY <1>1, <1>2 DEF ArmRetry

LEMMA MoveTypes ==
  ASSUME Assumptions, Types, NEW t \in Threads, NEW place \in Places, GoTo(t, place),
         UNCHANGED target \/ \E l \in Labels \cup {NoLabel} : target' = [target EXCEPT ![t] = l]
  PROVE  CallTypes'
BY DEF GoTo, Types, CallTypes

LEMMA LeaveTypes ==
  ASSUME Assumptions, Types, NEW t \in Threads, Leave(t)
  PROVE  CallTypes'
BY MoveTypes DEF Leave, Places

LEMMA LookTypes ==
  ASSUME Assumptions, Types, NEW t \in Threads, NEW armed \in BOOLEAN, Look(t, armed)
  PROVE  CallStep
<1>1. CASE LookLater(t, armed)
  <2>1. CallTypes' BY <1>1, LeaveTypes DEF LookLater
  <2>2. quiet' \in BOOLEAN BY <1>1 DEF LookLater, Types, QueueTypes
  <2>3. CASE retry' = armed /\ UNCHANGED <<nextAttempt, envVars>>
    BY <2>1, <2>2, <2>3 DEF CallStep, Types, QueueTypes, EnvTypes, envVars
  <2>4. CASE ArmRetry /\ nextAttempt' = TRUE
    BY <2>1, <2>2, <2>4, ArmTypes DEF CallStep
  <2> QED BY <1>1, <2>3, <2>4 DEF LookLater
<1>2. CASE LookDenied(t)
  <2>1. CallTypes' BY <1>2, LeaveTypes DEF LookDenied
  <2>2. quiet' \in BOOLEAN BY <1>2 DEF LookDenied, PutOff, Types, QueueTypes
  <2> QED BY <1>2, <2>1, <2>2, ArmTypes DEF CallStep, LookDenied
<1>3. CASE LookGranted(t, armed)
  <2>1. CallTypes' BY <1>3, MoveTypes DEF LookGranted, Places
  <2> QED BY <1>3, <2>1 DEF CallStep, LookGranted, Types, QueueTypes, EnvTypes, envVars
<1> QED BY <1>1, <1>2, <1>3 DEF Look

\* The steps of the queue alone.
QueueStep(t) ==
  \/ \E l \in Labels : Push(t, l) \/ Coalesce(t, l) \/ Reject(t, l)
  \/ EnsureStops(t) \/ StartedAlready(t) \/ SpawnFails(t)

LEMMA PushTypes ==
  ASSUME Assumptions, Types, NEW t \in Threads, NEW l \in Labels, Push(t, l)
  PROVE  QueueTypes' /\ CallStep
<1>1. retry \in BOOLEAN BY DEF Types, QueueTypes
<1>2. CallStep BY <1>1, LookTypes DEF Push
<1>3. due' \in [Labels -> Nat] /\ later' \in [Labels -> Nat]
  BY DEF Push, Types, QueueTypes
<1> QED BY <1>2, <1>3 DEF QueueTypes, CallStep, Push, Types

LEMMA CoalesceTypes ==
  ASSUME Assumptions, Types, NEW t \in Threads, NEW l \in Labels, Coalesce(t, l)
  PROVE  QueueTypes' /\ CallStep
<1>1. CallTypes' BY LeaveTypes DEF Coalesce
<1>2. due' \in [Labels -> Nat] /\ later' \in [Labels -> Nat]
  <2>1. CASE UNCHANGED <<due, later>> BY <2>1 DEF Types, QueueTypes
  <2>2. CASE /\ due[l] = 0 /\ due' = [due EXCEPT ![l] = 1]
             /\ later' = [later EXCEPT ![l] = @ - 1]
    <3>1. later[l] > 0 BY <2>2 DEF Coalesce, Types, QueueTypes
    <3>2. later[l] - 1 \in Nat BY <3>1 DEF Types, QueueTypes
    <3> QED BY <2>2, <3>2 DEF Types, QueueTypes
  <2> QED BY <2>1, <2>2 DEF Coalesce
<1> QED BY <1>1, <1>2 DEF Coalesce, QueueTypes, CallStep, Types, EnvTypes, envVars

LEMMA QueueStepTypes ==
  ASSUME Assumptions, Types, NEW t \in Threads, QueueStep(t)
  PROVE  QueueTypes' /\ CallStep
<1>1. CASE \E l \in Labels : Push(t, l) BY <1>1, PushTypes
<1>2. CASE \E l \in Labels : Coalesce(t, l) BY <1>2, CoalesceTypes
<1>3. CASE \E l \in Labels : Reject(t, l)
  <2>1. CallTypes' BY <1>3, MoveTypes DEF Reject, Places
  <2> QED BY <1>3, <2>1 DEF Reject, QueueTypes, CallStep, Types, EnvTypes, envVars, queueVars
<1>4. CASE EnsureStops(t)
  <2>1. CallTypes' BY <1>4, LeaveTypes DEF EnsureStops
  <2>2. quiet' \in BOOLEAN /\ nextAttempt' \in BOOLEAN
    BY <1>4 DEF EnsureStops, PutOff, Types, QueueTypes
  <2> QED BY <1>4, <2>1, <2>2 DEF EnsureStops, QueueTypes, CallStep, Types, EnvTypes, envVars
<1>5. CASE StartedAlready(t)
  <2>1. CallTypes' BY <1>5, LeaveTypes DEF StartedAlready
  <2> QED BY <1>5, <2>1 DEF StartedAlready, QueueTypes, CallStep, Types, EnvTypes, envVars, queueVars
<1>6. CASE SpawnFails(t)
  <2>1. CallTypes' BY <1>6, LeaveTypes DEF SpawnFails
  <2>2. EnvTypes' BY <1>6, ConstantTypes DEF SpawnFails, Refused, Types, EnvTypes
  <2> QED BY <1>6, <2>1, <2>2 DEF SpawnFails, QueueTypes, CallStep, Types, queueVars
<1> QED BY <1>1, <1>2, <1>3, <1>4, <1>5, <1>6 DEF QueueStep

LEMMA WakeTypes ==
  ASSUME Assumptions, Types, RetryFires \/ Poll(Agent)
  PROVE  QueueTypes' /\ CallStep
<1> USE ConstantTypes
<1>1. CallStep
  BY LookTypes DEF RetryFires, Poll, Types, QueueTypes
<1> QED BY <1>1 DEF RetryFires, Poll, QueueTypes, CallStep, Types

LEMMA TimeTypes ==
  ASSUME Assumptions, Types,
         (\E l \in Labels : BecomesDue(l)) \/ AttemptTimeComes \/ LoadComes \/ LoadEnds
  PROVE  QueueTypes' /\ CallStep
<1> USE ConstantTypes
<1>1. CASE \E l \in Labels : BecomesDue(l)
  <2>1. PICK l \in Labels : BecomesDue(l) BY <1>1
  <2>2. later[l] - 1 \in Nat /\ due[l] + 1 \in Nat BY <2>1 DEF BecomesDue, Types, QueueTypes
  <2>3. due' \in [Labels -> Nat] /\ later' \in [Labels -> Nat]
    BY <2>1, <2>2 DEF BecomesDue, Types, QueueTypes
  <2> QED BY <2>1, <2>3 DEF BecomesDue, QueueTypes, CallStep, Types, EnvTypes, CallTypes, envVars, callVars
<1>2. CASE AttemptTimeComes
  BY <1>2 DEF AttemptTimeComes, QueueTypes, CallStep, Types, EnvTypes, CallTypes, envVars, callVars
<1>3. CASE LoadComes
  BY <1>3 DEF LoadComes, QueueTypes, CallStep, Types, EnvTypes, CallTypes, queueVars, callVars
<1>4. CASE LoadEnds
  BY <1>4 DEF LoadEnds, QueueTypes, CallStep, Types, EnvTypes, CallTypes, queueVars, callVars
<1> QED BY <1>1, <1>2, <1>3, <1>4

-----------------------------------------------------------------------------
(* The types of the buffers and of the workers.                            *)

LEMMA AcceptTypes ==
  ASSUME Assumptions, Types, NEW t \in Callers, NEW s \in Stores, NEW c \in Chats,
         NEW write \in Write, Accept(t, s, c, write)
  PROVE  Types'
<1> USE ConstantTypes
<1>1. CallTypes' BY MoveTypes DEF Accept, Places
<1>2. pending' \in [Stores -> Writes] BY DEF Accept, Types, BufferTypes, Writes
<1>3. ops' \in 0..MaxOps BY DEF Accept, Types, BufferTypes
<1> QED BY <1>1, <1>2, <1>3
     DEF Accept, Types, QueueTypes, EnvTypes, BufferTypes, WorkerTypes, queueVars, envVars, workerVars

LEMMA CallerTypes ==
  ASSUME Assumptions, Types, NEW t \in Callers, CallStarts(t)
  PROVE  Types'
<1> USE ConstantTypes
<1>0. ops + 1 \in Nat BY DEF Types, BufferTypes
<1>1. CASE \E s \in MapStores, c \in Chats : Set(t, s, c)
  BY <1>0, <1>1, AcceptTypes, WriteTypes DEF Set
<1>2. CASE \E c \in Chats : AppendTo(t, c)
  <2>1. PICK c \in Chats : AppendTo(t, c) BY <1>2
  <2>2. pending[Session][c] \in Write \cup {NoWrite} BY DEF Types, BufferTypes, Writes
  <2> QED BY <1>0, <2>1, <2>2, AcceptTypes, WriteTypes DEF AppendTo
<1>3. CASE \E c \in Chats : Clear(t, c)
  BY <1>0, <1>3, AcceptTypes, WriteTypes DEF Clear
<1>4. CASE /\ \E l \in Maintenance : Push(t, l) \/ Coalesce(t, l)
           /\ asked < MaxAsked /\ asked' = asked + 1
           /\ UNCHANGED <<pending, stored, flag, stranded, ops, workerVars>>
  <2>1. QueueTypes' /\ CallStep BY <1>4, PushTypes, CoalesceTypes
  <2>2. BufferTypes' BY <1>4 DEF Types, BufferTypes
  <2> QED BY <1>4, <2>1, <2>2 DEF CallStep, Types, WorkerTypes, workerVars
<1> QED BY <1>1, <1>2, <1>3, <1>4 DEF CallStarts

LEMMA MarkTypes ==
  ASSUME Assumptions, Types, NEW t \in Threads, NEW s \in Stores,
         MarkScheduled(t, s) \/ ClearAfterReject(t, s)
  PROVE  Types'
<1> USE ConstantTypes
<1>1. CASE MarkScheduled(t, s)
  <2>1. CallTypes' BY <1>1, MoveTypes, LeaveTypes DEF MarkScheduled, Places
  <2>2. BufferTypes' BY <1>1 DEF MarkScheduled, Types, BufferTypes
  <2> QED BY <1>1, <2>1, <2>2
       DEF MarkScheduled, Types, QueueTypes, EnvTypes, WorkerTypes, queueVars, envVars, workerVars
<1>2. CASE ClearAfterReject(t, s)
  <2>1. CallTypes' BY <1>2, LeaveTypes DEF ClearAfterReject
  <2>2. BufferTypes' BY <1>2 DEF ClearAfterReject, Types, BufferTypes
  <2> QED BY <1>2, <2>1, <2>2
       DEF ClearAfterReject, Types, QueueTypes, EnvTypes, WorkerTypes, queueVars, envVars, workerVars
<1> QED BY <1>1, <1>2

LEMMA SpawnTypes ==
  ASSUME Assumptions, Types, NEW t \in Threads, Spawn(t)
  PROVE  Types'
<1>1. CallTypes' BY LeaveTypes DEF Spawn
<1>2. stage' \in [Workers -> Stages] BY DEF Spawn, Stage, Types, WorkerTypes, Stages
<1> QED BY <1>1, <1>2
     DEF Spawn, Types, QueueTypes, EnvTypes, BufferTypes, WorkerTypes, envVars, bufferVars

LEMMA StageTypes ==
  ASSUME Types, NEW w \in Workers, NEW place \in Stages, Stage(w, place)
  PROVE  stage' \in [Workers -> Stages]
BY DEF Stage, Types, WorkerTypes

LEMMA TakeJobsTypes ==
  ASSUME Assumptions, Types, NEW w \in Workers, TakeJobs(w)
  PROVE  Types'
<1>1. stage' \in [Workers -> Stages] BY StageTypes DEF TakeJobs, Stages
<1>2. PICK b \in Batches :
        LET left == [l \in Labels |-> due[l] - b[l]]
        IN  /\ batch' = [batch EXCEPT ![w] = b]
            /\ due'   = IF Count(b) = BatchMax THEN NoJobs ELSE left
            /\ later' = IF Count(b) = BatchMax THEN [l \in Labels |-> later[l] + left[l]]
                                               ELSE later
  BY DEF TakeJobs
<1> DEFINE left == [l \in Labels |-> due[l] - b[l]]
<1>3. b \in [Labels -> Nat] /\ left \in [Labels -> Nat]
  <2>1. b \in [Labels -> 0..BatchMax] /\ \A l \in Labels : b[l] <= due[l] BY DEF Batches
  <2>2. \A l \in Labels : b[l] \in Nat /\ due[l] - b[l] \in Nat
    BY <2>1, ConstantTypes DEF Types, QueueTypes
  <2> QED BY <2>1, <2>2
<1>4. due' \in [Labels -> Nat] /\ later' \in [Labels -> Nat] /\ batch' \in [Workers -> [Labels -> Nat]]
  <2>1. due' = NoJobs \/ due' = left BY <1>2
  <2>2. later' = later \/ later' = [l \in Labels |-> later[l] + left[l]] BY <1>2
  <2>3. \A l \in Labels : later[l] + left[l] \in Nat BY <1>3 DEF Types, QueueTypes
  <2>4. batch' = [batch EXCEPT ![w] = b] BY <1>2
  <2> HIDE DEF left
  <2> QED BY <1>3, <2>1, <2>2, <2>3, <2>4 DEF Types, QueueTypes, WorkerTypes, NoJobs
<1> HIDE DEF left
<1> QED BY <1>1, <1>4
     DEF TakeJobs, Types, QueueTypes, EnvTypes, CallTypes, BufferTypes, WorkerTypes, envVars, callVars, bufferVars

LEMMA LoopTypes ==
  ASSUME Assumptions, Types, NEW w \in Workers,
         StopIdle(w) \/ RunJobs(w) \/ PutJobsBack(w) \/ JobsDone(w)
  PROVE  Types'
<1>1. CASE StopIdle(w)
  <2>1. stage' \in [Workers -> Stages] BY <1>1, StageTypes DEF StopIdle, Stages
  <2> QED BY <1>1, <2>1
       DEF StopIdle, Types, QueueTypes, EnvTypes, CallTypes, BufferTypes, WorkerTypes, envVars, callVars, bufferVars
<1>2. CASE RunJobs(w)
  <2>1. stage' \in [Workers -> Stages] BY <1>2, StageTypes DEF RunJobs, Stages
  <2> QED BY <1>2, <2>1
       DEF RunJobs, Types, QueueTypes, EnvTypes, CallTypes, BufferTypes, WorkerTypes, queueVars, envVars, callVars, bufferVars
<1>3. CASE JobsDone(w)
  <2>1. stage' \in [Workers -> Stages] BY <1>3, StageTypes DEF JobsDone, Stages
  <2> QED BY <1>3, <2>1
       DEF JobsDone, Types, QueueTypes, EnvTypes, CallTypes, BufferTypes, WorkerTypes, queueVars, envVars, callVars, bufferVars
<1>4. CASE PutJobsBack(w)
  <2>1. stage' \in [Workers -> Stages] BY <1>4, StageTypes DEF PutJobsBack, Stages
  <2>2. EnvTypes' /\ retry' \in BOOLEAN BY <1>4, ArmTypes DEF PutJobsBack
  <2>3. later' \in [Labels -> Nat] BY <1>4 DEF PutJobsBack, Types, QueueTypes, WorkerTypes
  <2>4. batch' \in [Workers -> [Labels -> Nat]] BY <1>4 DEF PutJobsBack, Types, WorkerTypes, NoJobs
  <2>5. QueueTypes' BY <1>4, <2>2, <2>3 DEF PutJobsBack, Types, QueueTypes
  <2> QED BY <1>4, <2>1, <2>2, <2>4, <2>5
       DEF PutJobsBack, Types, CallTypes, BufferTypes, WorkerTypes, callVars, bufferVars
<1> QED BY <1>1, <1>2, <1>3, <1>4

LEMMA FlushTypes ==
  ASSUME Assumptions, Types, NEW w \in Workers, FlushNext(w),
         \A x \in Workers : stage[x] \in {"nothing", "apply", "clear", "check"} => flushing[x] \in Stores
  PROVE  Types'
<1> USE ConstantTypes
<1>0. /\ \A s \in Stores, c \in Chats : /\ pending[s][c] \in Write \cup {NoWrite}
                                        /\ stored[s][c] \in Seq(Nat)
      /\ \A c \in Chats : /\ drained[w][c] \in Write \cup {NoWrite}
                          /\ failed[w][c] \in Write \cup {NoWrite}
  BY DEF Types, BufferTypes, WorkerTypes, Writes
<1>e. NoWrites \in Writes BY DEF NoWrites, Writes
<1>1. CASE \E l \in Labels : TakeAll(w, l)
  <2>1. PICK l \in Labels : TakeAll(w, l) BY <1>1
  <2>2. stage' \in [Workers -> Stages]
    <3>1. (IF HasPending(FlushOf(l)) THEN "apply" ELSE "nothing") \in Stages BY DEF Stages
    <3> QED BY <2>1, <3>1, StageTypes DEF TakeAll
  <2>3. FlushOf(l) \in Stores BY DEF FlushOf
  <2>4. batch' \in [Workers -> [Labels -> Nat]]
    <3>1. batch[w] \in [Labels -> Nat] /\ batch[w][l] - 1 \in Nat BY <2>1 DEF TakeAll, Types, WorkerTypes
    <3> QED BY <2>1, <3>1 DEF TakeAll, Types, WorkerTypes
  <2>5. pending' \in [Stores -> Writes] /\ drained' \in [Workers -> Writes]
        /\ flushing' \in [Workers -> Stores \cup {NoLabel}]
    BY <2>1, <2>3, <1>e DEF TakeAll, Types, BufferTypes, WorkerTypes
  <2>6. stranded' \in [Stores -> {"no", "refused", "overlooked"}]
    BY <2>1, <2>3 DEF TakeAll, Types, BufferTypes
  <2> QED BY <2>1, <2>2, <2>4, <2>5, <2>6
       DEF TakeAll, Types, QueueTypes, EnvTypes, CallTypes, BufferTypes, WorkerTypes, queueVars, envVars, callVars
<1>2. CASE ClearUnlooked(w)
  <2>1. flushing[w] \in Stores BY <1>2 DEF ClearUnlooked
  <2>2. stage' \in [Workers -> Stages] BY <1>2, StageTypes DEF ClearUnlooked, FlushDone, Stages
  <2>3. flushing' \in [Workers -> Stores \cup {NoLabel}]
    BY <1>2 DEF ClearUnlooked, FlushDone, Types, WorkerTypes
  <2>4. flag' \in [Stores -> BOOLEAN] BY <1>2, <2>1 DEF ClearUnlooked, Types, BufferTypes
  <2>5. stranded' \in [Stores -> {"no", "refused", "overlooked"}]
    BY <1>2, <2>1 DEF ClearUnlooked, Types, BufferTypes
  <2> QED BY <1>2, <2>2, <2>3, <2>4, <2>5
       DEF ClearUnlooked, FlushDone, Types, QueueTypes, EnvTypes, CallTypes, BufferTypes, WorkerTypes,
           queueVars, envVars, callVars
<1>3. CASE \E c \in Chats : Apply(w, c)
  <2>1. PICK c \in Chats : Apply(w, c) BY <1>3
  <2>2. flushing[w] \in Stores BY <2>1 DEF Apply
  <2>3. Written(stored[flushing[w]][c], drained[w][c]) \in Seq(Nat) BY <1>0, <2>2, WrittenTypes
  <2>4. stored' \in [Stores -> [Chats -> Seq(Nat)]]
    BY <2>1, <2>2, <2>3 DEF Apply, Types, BufferTypes
  <2>5. drained' \in [Workers -> Writes] BY <2>1 DEF Apply, Types, WorkerTypes, Writes
  <2> QED BY <2>1, <2>4, <2>5
       DEF Apply, Types, QueueTypes, EnvTypes, CallTypes, BufferTypes, WorkerTypes, queueVars, envVars, callVars
<1>4. CASE \E c \in Chats : ApplyFails(w, c)
  <2>1. PICK c \in Chats : ApplyFails(w, c) BY <1>4
  <2>2. flushing[w] \in Stores BY <2>1 DEF ApplyFails
  <2>3. PICK o \in AfterFailure(flushing[w], stored[flushing[w]][c], drained[w][c]) :
          stored' = [stored EXCEPT ![flushing[w]][c] = o]
    BY <2>1 DEF ApplyFails
  <2>4. drained[w][c] \in Write BY <1>0, <2>1 DEF ApplyFails
  <2>5. o \in Seq(Nat) BY <1>0, <2>2, <2>3, <2>4, FailureTypes
  <2>6. stored' \in [Stores -> [Chats -> Seq(Nat)]]
    BY <2>2, <2>3, <2>5 DEF Types, BufferTypes
  <2>7. drained' \in [Workers -> Writes] BY <2>1 DEF ApplyFails, Types, WorkerTypes, Writes
  <2>8. failed' \in [Workers -> Writes]
    <3>1. CASE failed' = [failed EXCEPT ![w][c] = drained[w][c]]
      BY <1>0, <3>1 DEF Types, WorkerTypes, Writes
    <3>2. CASE UNCHANGED failed BY <3>2 DEF Types, WorkerTypes
    <3> QED BY <2>1, <3>1, <3>2 DEF ApplyFails
  <2>9. EnvTypes'
    <3>1. faults' \in 0..MaxMishaps BY <2>1 DEF ApplyFails, Types, EnvTypes
    <3> QED BY <2>1, <3>1 DEF ApplyFails, Types, EnvTypes
  <2> QED BY <2>1, <2>6, <2>7, <2>8, <2>9
       DEF ApplyFails, Types, QueueTypes, CallTypes, BufferTypes, WorkerTypes, queueVars, callVars
<1>5. CASE RestoreFailed(w)
  <2>1. flushing[w] \in Stores BY <1>5 DEF RestoreFailed
  <2>2. stage' \in [Workers -> Stages] BY <1>5, StageTypes DEF RestoreFailed, Stages
  <2> DEFINE put == [c \in Chats |-> Restored(flushing[w], pending[flushing[w]][c], failed[w][c])]
  <2>3. put \in Writes BY <1>0, <2>1, RestoredTypes DEF Writes
  <2>4. pending' = [pending EXCEPT ![flushing[w]] = put] BY <1>5 DEF RestoreFailed
  <2> HIDE DEF put
  <2>5. pending' \in [Stores -> Writes] BY <2>1, <2>3, <2>4 DEF Types, BufferTypes
  <2>6. failed' \in [Workers -> Writes] BY <1>5, <1>e DEF RestoreFailed, Types, WorkerTypes
  <2> QED BY <1>5, <2>2, <2>5, <2>6
       DEF RestoreFailed, Types, QueueTypes, EnvTypes, CallTypes, BufferTypes, WorkerTypes, queueVars, envVars, callVars
<1>6. CASE ClearScheduled(w)
  <2>1. flushing[w] \in Stores BY <1>6 DEF ClearScheduled
  <2>2. stage' \in [Workers -> Stages] BY <1>6, StageTypes DEF ClearScheduled, Stages
  <2>3. flag' \in [Stores -> BOOLEAN] BY <1>6, <2>1 DEF ClearScheduled, Types, BufferTypes
  <2> QED BY <1>6, <2>2, <2>3
       DEF ClearScheduled, Types, QueueTypes, EnvTypes, CallTypes, BufferTypes, WorkerTypes, queueVars, envVars, callVars
<1>7. CASE CheckPending(w)
  <2>1. flushing[w] \in Stores BY <1>7 DEF CheckPending
  <2>2. stage' \in [Workers -> Stages] BY <1>7, StageTypes DEF CheckPending, FlushDone, Stages
  <2>3. flushing' \in [Workers -> Stores \cup {NoLabel}]
    BY <1>7 DEF CheckPending, FlushDone, Types, WorkerTypes
  <2>4. CallTypes'
    <3>1. CASE HasPending(flushing[w])
      <4>1. GoTo(w, "swap") /\ target' = [target EXCEPT ![w] = flushing[w]] BY <1>7, <3>1 DEF CheckPending
      <4>2. flushing[w] \in Labels \cup {NoLabel} /\ w \in Threads BY <2>1
      <4> QED BY <4>1, <4>2, MoveTypes DEF Places
    <3>2. CASE ~HasPending(flushing[w])
      BY <1>7, <3>2 DEF CheckPending, Types, CallTypes, callVars
    <3> QED BY <3>1, <3>2
  <2> QED BY <1>7, <2>2, <2>3, <2>4
       DEF CheckPending, FlushDone, Types, QueueTypes, EnvTypes, BufferTypes, WorkerTypes, queueVars, envVars, bufferVars
<1> QED BY <1>1, <1>2, <1>3, <1>4, <1>5, <1>6, <1>7 DEF FlushNext

LEMMA TypesKept ==
  ASSUME Assumptions, Types, WorkersAreConsistent, [Next]_vars
  PROVE  Types'
<1> USE ConstantTypes
<1>1. CASE \E t \in Threads : CallNext(t)
  <2>1. PICK t \in Threads : CallNext(t) BY <1>1
  <2>2. CASE QueueStep(t) /\ UNCHANGED <<bufferVars, workerVars>>
    BY <2>2, QueueStepTypes
    DEF CallStep, Types, BufferTypes, WorkerTypes, bufferVars, workerVars
  <2> QED BY <2>1, <2>2, MarkTypes, SpawnTypes DEF CallNext, QueueStep
<1>2. CASE \E t \in Callers : CallStarts(t) BY <1>2, CallerTypes
<1>3. CASE AgentPolls \/ RetryNext
  <2>1. QueueTypes' /\ CallStep BY <1>3, WakeTypes DEF AgentPolls, RetryNext
  <2> QED BY <1>3, <2>1
       DEF AgentPolls, RetryNext, CallStep, Types, BufferTypes, WorkerTypes, bufferVars, workerVars
<1>4. CASE TimeNext \/ LoadNext
  <2>1. QueueTypes' /\ CallStep BY <1>4, TimeTypes DEF TimeNext, LoadNext
  <2> QED BY <1>4, <2>1
       DEF TimeNext, LoadNext, CallStep, Types, BufferTypes, WorkerTypes, bufferVars, workerVars
<1>5. CASE \E w \in Workers : WorkerNext(w) \/ StopIdle(w)
  BY <1>5, TakeJobsTypes, LoopTypes, FlushTypes DEF WorkerNext, WorkersAreConsistent
<1>6. CASE UNCHANGED vars
  BY <1>6 DEF vars, queueVars, envVars, callVars, bufferVars, workerVars,
              Types, QueueTypes, EnvTypes, CallTypes, BufferTypes, WorkerTypes
<1> QED BY <1>1, <1>2, <1>3, <1>4, <1>5, <1>6 DEF Next

-----------------------------------------------------------------------------
(* The workers.                                                            *)

\* A step that leaves the worker and the calls of worker threads alone.
WorkersKept ==
  /\ UNCHANGED <<started, workerVars>>
  /\ \A w \in Workers : at'[w] = at[w] \/ at[w] # "idle"

LEMMA CallMoves ==
  ASSUME Types, NEW t \in Threads, NEW place, GoTo(t, place)
  PROVE  \A x \in Threads : (x # t => at'[x] = at[x]) /\ at'[t] = place
BY DEF GoTo, Types, CallTypes

LEMMA LookMoves ==
  ASSUME Types, NEW t \in Threads, NEW armed, Look(t, armed)
  PROVE  /\ \A x \in Threads : x # t => at'[x] = at[x] /\ target'[x] = target[x]
         /\ at'[t] \in {"idle", "ensure"} /\ target'[t] = NoLabel
<1>1. CASE Leave(t) BY <1>1 DEF Leave, GoTo, Types, CallTypes
<1>2. CASE GoTo(t, "ensure") /\ target' = [target EXCEPT ![t] = NoLabel]
  BY <1>2 DEF GoTo, Types, CallTypes
<1> QED BY <1>1, <1>2 DEF Look, LookLater, LookDenied, LookGranted

LEMMA WorkerInvKept ==
  ASSUME Assumptions, Types, OneWorker, WorkersAreConsistent, [Next]_vars
  PROVE  OneWorker' /\ WorkersAreConsistent'
<1> USE ConstantTypes
<1>1. CASE WorkersKept
  BY <1>1 DEF WorkersKept, workerVars, OneWorker, WorkersAreConsistent
<1>2. CASE \E t \in Threads : CallNext(t) /\ ~Spawn(t)
  <2>1. PICK t \in Threads : CallNext(t) /\ ~Spawn(t) BY <1>2
  <2>2. at[t] # "idle"
    BY <2>1 DEF CallNext, MarkScheduled, ClearAfterReject
  <2>3. UNCHANGED <<started, workerVars>>
    BY <2>1 DEF CallNext, MarkScheduled, ClearAfterReject, Push, Coalesce, Reject, EnsureStops,
                StartedAlready, SpawnFails, queueVars
  <2>4. \A x \in Threads : x # t => at'[x] = at[x]
    <3>1. \A place : GoTo(t, place) => \A x \in Threads : x # t => at'[x] = at[x] BY CallMoves
    <3>2. CASE \E l \in Labels : Push(t, l) BY <3>2, LookMoves DEF Push
    <3>3. CASE \E s \in Stores : MarkScheduled(t, s) \/ ClearAfterReject(t, s)
      BY <3>1, <3>3 DEF MarkScheduled, ClearAfterReject, Leave
    <3>4. CASE \E l \in Labels : Coalesce(t, l) \/ Reject(t, l)
      BY <3>1, <3>4 DEF Coalesce, Reject, Leave
    <3>5. CASE EnsureStops(t) \/ StartedAlready(t) \/ SpawnFails(t)
      BY <3>1, <3>5 DEF EnsureStops, StartedAlready, SpawnFails, Leave
    <3> QED BY <2>1, <3>2, <3>3, <3>4, <3>5 DEF CallNext
  <2> QED BY <1>1, <2>2, <2>3, <2>4 DEF WorkersKept
<1>3. CASE \E t \in Callers : CallStarts(t)
  <2>1. PICK t \in Callers : CallStarts(t) BY <1>3
  <2>2. UNCHANGED <<started, workerVars>>
    BY <2>1 DEF CallStarts, Set, Clear, AppendTo, Accept, Push, Coalesce, queueVars
  <2>3. \A x \in Threads : x # t => at'[x] = at[x]
    <3>1. \A place : GoTo(t, place) => \A x \in Threads : x # t => at'[x] = at[x] BY CallMoves
    <3>2. CASE \E l \in Labels : Push(t, l) BY <3>2, LookMoves DEF Push
    <3> QED BY <2>1, <3>1, <3>2 DEF CallStarts, Set, Clear, AppendTo, Accept, Coalesce, Leave
  <2> QED BY <1>1, <2>1, <2>2, <2>3 DEF WorkersKept
<1>4. CASE AgentPolls \/ RetryNext
  <2>1. UNCHANGED <<started, workerVars>> BY <1>4 DEF AgentPolls, RetryNext, Poll, RetryFires
  <2>2. \A x \in Threads : at'[x] = at[x] \/ x = Agent \/ x = Timer
    BY <1>4, LookMoves DEF AgentPolls, RetryNext, Poll, RetryFires
  <2> QED BY <1>1, <2>1, <2>2 DEF WorkersKept
<1>5. CASE TimeNext \/ LoadNext \/ UNCHANGED vars
  BY <1>1, <1>5 DEF WorkersKept, TimeNext, LoadNext, BecomesDue, AttemptTimeComes, LoadComes, LoadEnds,
                    vars, queueVars, callVars
<1>6. CASE \E t \in Threads : Spawn(t)
  <2>1. PICK t \in Threads : Spawn(t) BY <1>6
  <2>2. PICK w \in Workers : stage[w] = "off" /\ at[w] = "idle" /\ Stage(w, "poll")
    BY <2>1 DEF Spawn
  <2>3. /\ stage'[w] = "poll" /\ \A v \in Workers : v # w => stage'[v] = "off"
    BY <2>1, <2>2 DEF Spawn, Stage, OneWorker, Types, WorkerTypes
  <2>4. UNCHANGED <<batch, flushing>> /\ started' = TRUE BY <2>1 DEF Spawn
  <2>5. OneWorker' BY <2>3, <2>4 DEF OneWorker
  <2>6. batch[w] = NoJobs BY <2>2 DEF WorkersAreConsistent
  <2>7. \A v \in Workers : stage[v] = "off" => batch[v] = NoJobs BY DEF WorkersAreConsistent
  <2>8. \A v \in Workers : stage'[v] \in {"off", "poll"} /\ batch'[v] = NoJobs
    <3>1. \A v \in Workers : stage[v] = "off" BY <2>1 DEF Spawn, OneWorker
    <3> QED BY <2>3, <2>4, <2>7, <3>1
  <2> QED BY <2>5, <2>8 DEF WorkersAreConsistent
<1>7. CASE \E w \in Workers : WorkerNext(w) \/ StopIdle(w)
  <2>1. PICK w \in Workers : WorkerNext(w) \/ StopIdle(w) BY <1>7
  <2>2. stage[w] # "off" /\ \A v \in Workers : v # w => stage[v] = "off"
    BY <2>1 DEF WorkerNext, TakeJobs, RunJobs, PutJobsBack, JobsDone, StopIdle, FlushNext, TakeAll,
                ClearUnlooked, Apply, ApplyFails, RestoreFailed, ClearScheduled, CheckPending, OneWorker
  <2>3. started BY <2>2 DEF OneWorker
  <2>4. ASSUME NEW place \in Stages, Stage(w, place)
        PROVE  stage'[w] = place /\ \A v \in Workers : v # w => stage'[v] = "off"
    BY <2>2, <2>4 DEF Stage, Types, WorkerTypes
  <2>5. CASE TakeJobs(w)
    <3>1. stage'[w] = "admit" /\ \A v \in Workers : v # w => stage'[v] = "off"
      BY <2>4, <2>5 DEF TakeJobs, Stages
    <3>2. \A v \in Workers : v # w => batch'[v] = batch[v] BY <2>5 DEF TakeJobs, Types, WorkerTypes
    <3> QED BY <2>3, <2>5, <3>1, <3>2 DEF TakeJobs, OneWorker, WorkersAreConsistent, callVars
  <2>6. CASE StopIdle(w)
    <3>1. stage'[w] = "off" /\ \A v \in Workers : v # w => stage'[v] = "off"
      BY <2>4, <2>6 DEF StopIdle, Stages
    <3> QED BY <2>6, <3>1, <2>2 DEF StopIdle, OneWorker, WorkersAreConsistent, callVars
  <2>7. CASE RunJobs(w)
    <3>1. stage'[w] = "run" /\ \A v \in Workers : v # w => stage'[v] = "off"
      BY <2>4, <2>7 DEF RunJobs, Stages
    <3> QED BY <2>2, <2>3, <2>7, <3>1 DEF RunJobs, OneWorker, WorkersAreConsistent, callVars, queueVars
  <2>8. CASE PutJobsBack(w)
    <3>1. stage'[w] = "off" /\ \A v \in Workers : v # w => stage'[v] = "off"
      BY <2>4, <2>8 DEF PutJobsBack, Stages
    <3>2. batch'[w] = NoJobs /\ \A v \in Workers : v # w => batch'[v] = batch[v]
      BY <2>8 DEF PutJobsBack, Types, WorkerTypes
    <3> QED BY <2>2, <2>8, <3>1, <3>2 DEF PutJobsBack, OneWorker, WorkersAreConsistent, callVars
  <2>9. CASE JobsDone(w)
    <3>1. stage'[w] = "poll" /\ \A v \in Workers : v # w => stage'[v] = "off"
      BY <2>4, <2>9 DEF JobsDone, Stages
    <3> QED BY <2>2, <2>3, <2>9, <3>1 DEF JobsDone, OneWorker, WorkersAreConsistent, callVars, queueVars
  <2>10. CASE FlushNext(w)
    <3>1. started' BY <2>3, <2>10
      DEF FlushNext, TakeAll, ClearUnlooked, Apply, ApplyFails, RestoreFailed, ClearScheduled,
          CheckPending, queueVars
    <3>2. \A v \in Workers : v # w => stage'[v] = "off"
      BY <2>2, <2>10 DEF FlushNext, TakeAll, ClearUnlooked, Apply, ApplyFails, RestoreFailed,
          ClearScheduled, CheckPending, FlushDone, Stage, Types, WorkerTypes
    <3>3. \A v \in Workers : v # w => batch'[v] = batch[v]
      BY <2>10 DEF FlushNext, TakeAll, ClearUnlooked, Apply, ApplyFails, RestoreFailed,
          ClearScheduled, CheckPending, FlushDone, Types, WorkerTypes
    <3>4. OneWorker' BY <3>1, <3>2 DEF OneWorker
    <3>5. \A v \in Workers : v # w =>
            /\ stage'[v] \in {"off", "poll"} => batch'[v] = NoJobs
            /\ stage'[v] \notin {"admit", "nothing", "apply", "clear", "check"}
      BY <2>2, <3>2, <3>3 DEF WorkersAreConsistent
    <3>6. /\ stage'[w] \notin {"off", "poll", "admit"}
          /\ stage'[w] \in {"nothing", "apply", "clear", "check"} => at'[w] = "idle" /\ flushing'[w] \in Stores
      <4>1. CASE \E l \in Labels : TakeAll(w, l)
        BY <4>1 DEF TakeAll, Stage, FlushOf, callVars, Types, WorkerTypes
      <4>2. CASE ClearUnlooked(w) \/ CheckPending(w)
        BY <4>2 DEF ClearUnlooked, CheckPending, FlushDone, Stage, Types, WorkerTypes
      <4>3. CASE \E c \in Chats : Apply(w, c) \/ ApplyFails(w, c)
        BY <4>3 DEF Apply, ApplyFails, WorkersAreConsistent, callVars
      <4>4. CASE RestoreFailed(w) \/ ClearScheduled(w)
        BY <4>4 DEF RestoreFailed, ClearScheduled, Stage, WorkersAreConsistent, Types, WorkerTypes, callVars
      <4> QED BY <2>10, <4>1, <4>2, <4>3, <4>4 DEF FlushNext
    <3> QED BY <3>4, <3>5, <3>6 DEF WorkersAreConsistent
  <2> QED BY <2>1, <2>5, <2>6, <2>7, <2>8, <2>9, <2>10 DEF WorkerNext
<1> QED BY <1>2, <1>3, <1>4, <1>5, <1>6, <1>7 DEF Next

-----------------------------------------------------------------------------
(* What is pending.                                                        *)
CoverInv == FlagIsCovered /\ PendingIsCovered

JobSomewhere(l) == due[l] + later[l] > 0 \/ \E w \in Workers : batch[w][l] > 0
Flushing == {"nothing", "apply", "clear", "check"}

\* A step that leaves the buffers and the flushes alone and loses no job, by
\* which thread t goes on as before, or has its flush queued or rejected.
PassesOn(t) ==
  /\ UNCHANGED <<pending, flag, stranded>>
  /\ \A w \in Workers : /\ flushing'[w] = flushing[w]
                        /\ \/ stage'[w] = stage[w]
                           \/ stage[w] \notin Flushing /\ stage'[w] \notin Flushing
  /\ \A l \in Labels : JobSomewhere(l) => JobSomewhere(l)'
  /\ \A x \in Threads : x # t => at'[x] = at[x] /\ target'[x] = target[x]
  /\ \/ at[t] \notin {"swap", "push", "reject"}
     \/ at'[t] = at[t] /\ target'[t] = target[t]
     \/ at[t] = "push" /\ \A l \in Stores : l = target[t] => JobSomewhere(l)'
     \/ at[t] = "push" /\ at'[t] = "reject" /\ target'[t] = target[t]

LEMMA FlushIsAhead ==
  ASSUME NEW s \in Stores
  PROVE  /\ FlushAhead(s) <=>
              \/ \E l \in Labels : FlushOf(l) = s /\ JobSomewhere(l)
              \/ \E w \in Workers : flushing[w] = s /\ stage[w] \in {"apply", "clear", "check"}
              \/ \E t \in Threads : target[t] = s /\ at[t] \in {"swap", "push", "reject"}
         /\ Covered(s) <=>
              \/ \E l \in Labels : FlushOf(l) = s /\ JobSomewhere(l)
              \/ \E w \in Workers : flushing[w] = s /\ stage[w] \in {"nothing", "apply", "clear"}
              \/ \E t \in Threads : target[t] = s /\ at[t] \in {"push", "reject"}
BY DEF FlushAhead, Covered, JobSomewhere

LEMMA FlushIsAheadNext == ASSUME NEW s \in Stores
  PROVE  /\ FlushAhead(s)' <=>
              \/ \E l \in Labels : FlushOf(l) = s /\ JobSomewhere(l)'
              \/ \E w \in Workers : flushing'[w] = s /\ stage'[w] \in {"apply", "clear", "check"}
              \/ \E t \in Threads : target'[t] = s /\ at'[t] \in {"swap", "push", "reject"}
         /\ Covered(s)' <=>
              \/ \E l \in Labels : FlushOf(l) = s /\ JobSomewhere(l)'
              \/ \E w \in Workers : flushing'[w] = s /\ stage'[w] \in {"nothing", "apply", "clear"}
              \/ \E t \in Threads : target'[t] = s /\ at'[t] \in {"push", "reject"}
BY DEF FlushAhead, Covered, JobSomewhere

LEMMA CoverPassedOn ==
  ASSUME Assumptions, CoverInv, NEW t \in Threads, PassesOn(t)
  PROVE  CoverInv'
<1> USE ConstantTypes
<1>1. ASSUME NEW s \in Stores, NEW x \in Threads, target[x] = s, at[x] \in {"push", "reject"}
      PROVE  \/ \E l \in Labels : FlushOf(l) = s /\ JobSomewhere(l)'
             \/ \E y \in Threads : target'[y] = s /\ at'[y] \in {"push", "reject"}
  <2>1. FlushOf(s) = s /\ s \in Labels BY DEF FlushOf
  <2>2. CASE at'[x] = at[x] /\ target'[x] = target[x] BY <1>1, <2>2
  <2>3. CASE x = t /\ at'[t] = "reject" /\ target'[t] = target[t] BY <1>1, <2>3
  <2>4. CASE x = t /\ JobSomewhere(s)' BY <1>1, <2>1, <2>4
  <2> QED BY <1>1, <2>2, <2>3, <2>4 DEF PassesOn
<1>2. ASSUME NEW s \in Stores, Covered(s) PROVE Covered(s)'
  <2>1. CASE \E x \in Threads : target[x] = s /\ at[x] \in {"push", "reject"}
    BY <1>1, <2>1, FlushIsAheadNext
  <2>2. CASE \E w \in Workers : flushing[w] = s /\ stage[w] \in {"nothing", "apply", "clear"}
    BY <2>2, FlushIsAheadNext DEF PassesOn, Flushing
  <2>3. CASE \E l \in Labels : FlushOf(l) = s /\ JobSomewhere(l)
    BY <2>3, FlushIsAheadNext DEF PassesOn
  <2> QED BY <1>2, <2>1, <2>2, <2>3, FlushIsAhead
<1>3. ASSUME NEW s \in Stores, FlushAhead(s) PROVE FlushAhead(s)'
  <2>1. CASE \E x \in Threads : target[x] = s /\ at[x] \in {"push", "reject"}
    BY <1>1, <2>1, FlushIsAheadNext
  <2>2. CASE \E x \in Threads : target[x] = s /\ at[x] = "swap"
    BY <2>2, FlushIsAheadNext DEF PassesOn
  <2>3. CASE \E w \in Workers : flushing[w] = s /\ stage[w] \in {"apply", "clear", "check"}
    BY <2>3, FlushIsAheadNext DEF PassesOn, Flushing
  <2>4. CASE \E l \in Labels : FlushOf(l) = s /\ JobSomewhere(l)
    BY <2>4, FlushIsAheadNext DEF PassesOn
  <2> QED BY <1>3, <2>1, <2>2, <2>3, <2>4, FlushIsAhead
<1>4. ASSUME NEW s \in Stores PROVE (HasPending(s)' => HasPending(s)) /\ (Unlooked(s) => Unlooked(s)')
  <2>1. HasPending(s)' => HasPending(s) BY DEF PassesOn, HasPending
  <2>2. CASE Unlooked(s)
    <3>1. PICK w \in Workers : flushing[w] = s /\ stage[w] = "nothing" BY <2>2 DEF Unlooked
    <3>2. flushing'[w] = s /\ stage'[w] = "nothing" BY <3>1 DEF PassesOn, Flushing
    <3> QED BY <2>1, <2>2, <3>2 DEF Unlooked, PassesOn
  <2> QED BY <2>1, <2>2
<1>5. FlagIsCovered' BY <1>2 DEF CoverInv, FlagIsCovered, PassesOn
<1>6. PendingIsCovered' BY <1>3, <1>4 DEF CoverInv, PendingIsCovered, PassesOn
<1> QED BY <1>5, <1>6 DEF CoverInv

\* Where a scheduler's step leaves everything but the jobs and the calls.
LEMMA PassedOnByCall ==
  ASSUME Types, NEW t \in Threads, UNCHANGED <<pending, flag, stranded, workerVars>>,
         \A l \in Labels : due[l] + later[l] > 0 => due'[l] + later'[l] > 0,
         \A x \in Threads : x # t => at'[x] = at[x] /\ target'[x] = target[x],
         \/ at[t] \notin {"swap", "push", "reject"}
         \/ at'[t] = at[t] /\ target'[t] = target[t]
         \/ at[t] = "push" /\ (target[t] \in Stores => due'[target[t]] + later'[target[t]] > 0)
         \/ at[t] = "push" /\ at'[t] = "reject" /\ target'[t] = target[t]
  PROVE  PassesOn(t)
<1>1. UNCHANGED <<stage, batch, flushing>> BY DEF workerVars
<1>2. \A l \in Labels : JobSomewhere(l) => JobSomewhere(l)' BY <1>1 DEF JobSomewhere
<1>4. \/ at[t] \notin {"swap", "push", "reject"}
      \/ at'[t] = at[t] /\ target'[t] = target[t]
      \/ at[t] = "push" /\ \A l \in Stores : l = target[t] => JobSomewhere(l)'
      \/ at[t] = "push" /\ at'[t] = "reject" /\ target'[t] = target[t]
  <2>1. \A l \in Stores : due'[l] + later'[l] > 0 => JobSomewhere(l)' BY DEF JobSomewhere
  <2> QED BY <2>1
<1> QED BY <1>1, <1>2, <1>4 DEF PassesOn

LEMMA CoverKeptByCalls ==
  ASSUME Assumptions, Types, CoverInv, NEW t \in Threads,
         QueueStep(t) \/ (t = Timer /\ RetryFires) \/ Poll(t),
         UNCHANGED <<pending, flag, stranded, workerVars>>
  PROVE  CoverInv'
<1> USE ConstantTypes
<1>0. \A l \in Labels : due[l] \in Nat /\ later[l] \in Nat BY DEF Types, QueueTypes
<1>1. ASSUME GoTo(t, "idle") \/ GoTo(t, "reject") \/ GoTo(t, "ensure"),
             UNCHANGED target \/ target' = [target EXCEPT ![t] = NoLabel]
      PROVE  \A x \in Threads : x # t => at'[x] = at[x] /\ target'[x] = target[x]
  BY <1>1 DEF GoTo, Types, CallTypes
<1>2. CASE \E l \in Labels : Push(t, l)
  <2>1. PICK l \in Labels : Push(t, l) BY <1>2
  <2>2. \A x \in Threads : x # t => at'[x] = at[x] /\ target'[x] = target[x]
    BY <2>1, LookMoves DEF Push
  <2>3. /\ due'[l] + later'[l] > 0
        /\ \A k \in Labels : due[k] + later[k] > 0 => due'[k] + later'[k] > 0
    <3>1. CASE later' = [later EXCEPT ![l] = @ + 1] /\ UNCHANGED due
      BY <1>0, <3>1 DEF Types, QueueTypes
    <3>2. CASE due' = [due EXCEPT ![l] = @ + 1] /\ UNCHANGED later
      BY <1>0, <3>2 DEF Types, QueueTypes
    <3> QED BY <2>1, <3>1, <3>2 DEF Push
  <2>4. at[t] = "idle" \/ (at[t] = "push" /\ target[t] = l)
    BY <2>1 DEF Push, AsksToFlush, AsksToMaintain
  <2>6. PassesOn(t) BY <2>2, <2>3, <2>4, PassedOnByCall
  <2> QED BY <2>6, CoverPassedOn
<1>3. CASE \E l \in Labels : Coalesce(t, l)
  <2>1. PICK l \in Labels : Coalesce(t, l) BY <1>3
  <2>2. \A x \in Threads : x # t => at'[x] = at[x] /\ target'[x] = target[x]
    BY <1>1, <2>1 DEF Coalesce, Leave
  <2>3. \A k \in Labels : due[k] + later[k] > 0 => due'[k] + later'[k] > 0
    <3>1. CASE UNCHANGED <<due, later>> BY <3>1
    <3>2. CASE due[l] = 0 /\ due' = [due EXCEPT ![l] = 1] /\ later' = [later EXCEPT ![l] = @ - 1]
      <4>1. due'[l] = 1 /\ later'[l] = later[l] - 1 /\ later[l] > 0
        BY <1>0, <2>1, <3>2 DEF Coalesce, Types, QueueTypes
      <4>2. due'[l] + later'[l] > 0 BY <1>0, <4>1
      <4>3. \A k \in Labels : k # l => due'[k] = due[k] /\ later'[k] = later[k]
        BY <3>2 DEF Types, QueueTypes
      <4> QED BY <4>2, <4>3
    <3> QED BY <2>1, <3>1, <3>2 DEF Coalesce
  <2>4. at[t] = "idle" \/ (at[t] = "push" /\ target[t] = l)
    BY <2>1 DEF Coalesce, AsksToFlush, AsksToMaintain
  <2>5. due[l] + later[l] > 0 BY <2>1 DEF Coalesce
  <2>6. PassesOn(t) BY <2>2, <2>3, <2>4, <2>5, PassedOnByCall
  <2> QED BY <2>6, CoverPassedOn
<1>4. CASE \E l \in Labels : Reject(t, l)
  <2>1. /\ at[t] = "push" /\ at'[t] = "reject" /\ UNCHANGED <<due, later, target>>
        /\ \A x \in Threads : x # t => at'[x] = at[x]
    BY <1>4 DEF Reject, GoTo, AsksToFlush, queueVars, Types, CallTypes
  <2>2. PassesOn(t) BY <2>1, PassedOnByCall
  <2> QED BY <2>2, CoverPassedOn
<1>5. CASE EnsureStops(t) \/ StartedAlready(t) \/ SpawnFails(t)
  <2>1. at[t] = "ensure" /\ UNCHANGED <<due, later>>
        /\ \A x \in Threads : x # t => at'[x] = at[x] /\ target'[x] = target[x]
    BY <1>1, <1>5 DEF EnsureStops, StartedAlready, SpawnFails, Leave, queueVars
  <2>2. PassesOn(t) BY <2>1, PassedOnByCall
  <2> QED BY <2>2, CoverPassedOn
<1>6. CASE (t = Timer /\ RetryFires) \/ Poll(t)
  <2>1. at[t] = "idle" /\ UNCHANGED <<due, later>>
        /\ \A x \in Threads : x # t => at'[x] = at[x] /\ target'[x] = target[x]
    BY <1>6, LookMoves DEF RetryFires, Poll
  <2>2. PassesOn(t) BY <2>1, PassedOnByCall
  <2> QED BY <2>2, CoverPassedOn
<1> QED BY <1>2, <1>3, <1>4, <1>5, <1>6 DEF QueueStep

LEMMA CoverKeptByTime ==
  ASSUME Assumptions, Types, CoverInv, TimeNext \/ LoadNext \/ UNCHANGED vars
  PROVE  CoverInv'
<1> USE ConstantTypes
<1>1. /\ UNCHANGED <<pending, flag, stranded, workerVars, callVars>>
      /\ UNCHANGED <<due, later>> \/ \E l \in Labels : BecomesDue(l)
  BY DEF TimeNext, LoadNext, AttemptTimeComes, LoadComes, LoadEnds, BecomesDue,
         bufferVars, queueVars, vars
<1>2. \A l \in Labels : due[l] + later[l] > 0 => due'[l] + later'[l] > 0
  <2>1. CASE \E l \in Labels : BecomesDue(l)
    <3>1. PICK k \in Labels : BecomesDue(k) BY <2>1
    <3>2. \A l \in Labels : due[l] \in Nat /\ later[l] \in Nat BY DEF Types, QueueTypes
    <3>3. later[k] > 0 /\ due'[k] = due[k] + 1 /\ later'[k] = later[k] - 1
      BY <3>1 DEF BecomesDue, Types, QueueTypes
    <3>4. \A l \in Labels : l # k => due'[l] = due[l] /\ later'[l] = later[l]
      BY <3>1 DEF BecomesDue, Types, QueueTypes
    <3> QED BY <3>2, <3>3, <3>4
  <2> QED BY <1>1, <2>1
<1>3. PassesOn(Timer) BY <1>1, <1>2, PassedOnByCall DEF callVars
<1> QED BY <1>3, CoverPassedOn

\* A worker that takes jobs, runs them, puts them back or stops; a new worker.
LEMMA CoverKeptByLoop ==
  ASSUME Assumptions, Types, WorkersAreConsistent, CoverInv, NEW w \in Workers,
         TakeJobs(w) \/ StopIdle(w) \/ RunJobs(w) \/ PutJobsBack(w) \/ JobsDone(w)
  PROVE  CoverInv'
<1> USE ConstantTypes
<1>0. /\ \A l \in Labels : due[l] \in Nat /\ later[l] \in Nat
      /\ \A v \in Workers, l \in Labels : batch[v][l] \in Nat
  BY DEF Types, QueueTypes, WorkerTypes
<1>1. UNCHANGED <<pending, flag, stranded, flushing, callVars>>
  BY DEF TakeJobs, StopIdle, RunJobs, PutJobsBack, JobsDone, bufferVars
<1>2. \A v \in Workers : \/ stage'[v] = stage[v]
                         \/ stage[v] \notin Flushing /\ stage'[v] \notin Flushing
  BY DEF TakeJobs, StopIdle, RunJobs, PutJobsBack, JobsDone, Stage, Flushing, Types, WorkerTypes
<1>3. \A l \in Labels : JobSomewhere(l) => JobSomewhere(l)'
  <2>1. CASE StopIdle(w) \/ RunJobs(w) \/ JobsDone(w)
    <3>1. UNCHANGED <<due, later, batch>> BY <2>1 DEF StopIdle, RunJobs, JobsDone, queueVars
    <3> QED BY <3>1 DEF JobSomewhere
  <2>2. CASE PutJobsBack(w)
    <3> SUFFICES ASSUME NEW l \in Labels, JobSomewhere(l) PROVE JobSomewhere(l)' OBVIOUS
    <3>1. due'[l] = due[l] /\ later'[l] = later[l] + batch[w][l] BY <2>2 DEF PutJobsBack
    <3>2. \A v \in Workers : v # w => batch'[v] = batch[v]
      BY <2>2 DEF PutJobsBack, Types, WorkerTypes
    <3>3. CASE due[l] + later[l] > 0 \/ batch[w][l] > 0
      <4>1. due'[l] + later'[l] > 0 BY <1>0, <3>1, <3>3
      <4> QED BY <4>1 DEF JobSomewhere
    <3>4. CASE \E v \in Workers : v # w /\ batch[v][l] > 0
      BY <3>2, <3>4 DEF JobSomewhere
    <3> QED BY <3>3, <3>4 DEF JobSomewhere
  <2>3. CASE TakeJobs(w)
    <3> SUFFICES ASSUME NEW l \in Labels, JobSomewhere(l) PROVE JobSomewhere(l)' OBVIOUS
    <3>1. PICK b \in Batches :
            LET left == [k \in Labels |-> due[k] - b[k]]
            IN  /\ batch' = [batch EXCEPT ![w] = b]
                /\ due'   = IF Count(b) = BatchMax THEN NoJobs ELSE left
                /\ later' = IF Count(b) = BatchMax THEN [k \in Labels |-> later[k] + left[k]]
                                                   ELSE later
      BY <2>3 DEF TakeJobs
    <3>2. b[l] \in Nat /\ b[l] <= due[l] BY DEF Batches
    <3>3. batch'[w][l] = b[l] /\ \A v \in Workers : v # w => batch'[v] = batch[v]
      BY <3>1 DEF Types, WorkerTypes
    <3>4. due'[l] + later'[l] = due[l] - b[l] + later[l]
      <4>1. CASE Count(b) = BatchMax
        <5>1. due'[l] = 0 /\ later'[l] = later[l] + (due[l] - b[l])
          BY <3>1, <4>1 DEF NoJobs
        <5> QED BY <1>0, <3>2, <5>1
      <4>2. CASE Count(b) # BatchMax
        <5>1. due'[l] = due[l] - b[l] /\ later'[l] = later[l] BY <3>1, <4>2
        <5> QED BY <5>1
      <4> QED BY <4>1, <4>2
    <3>5. batch[w] = NoJobs BY <2>3 DEF TakeJobs, WorkersAreConsistent
    <3>6. CASE due[l] + later[l] > 0
      <4>1. due'[l] + later'[l] > 0 \/ batch'[w][l] > 0 BY <1>0, <3>2, <3>3, <3>4, <3>6
      <4> QED BY <4>1 DEF JobSomewhere
    <3>7. CASE \E v \in Workers : batch[v][l] > 0
      BY <3>3, <3>5, <3>7 DEF JobSomewhere, NoJobs
    <3> QED BY <3>6, <3>7 DEF JobSomewhere
  <2> QED BY <2>1, <2>2, <2>3
<1>4. PassesOn(Timer) BY <1>1, <1>2, <1>3 DEF PassesOn, callVars
<1> QED BY <1>4, CoverPassedOn

\* The covers of a store that a step leaves alone.
FlushKept(z) ==
  /\ \A l \in Labels : FlushOf(l) = z /\ JobSomewhere(l) => JobSomewhere(l)'
  /\ \A w \in Workers : flushing[w] = z /\ stage[w] \in Flushing
                          => flushing'[w] = z /\ stage'[w] = stage[w]
CallsKept(z) ==
  \A t \in Threads : target[t] = z /\ at[t] \in {"swap", "push", "reject"}
                       => target'[t] = z /\ at'[t] = at[t]

LEMMA OtherStoreKept ==
  ASSUME NEW z \in Stores, CoverInv, FlushKept(z), CallsKept(z),
         flag'[z] = flag[z], pending'[z] = pending[z], stranded'[z] = stranded[z]
  PROVE  /\ Covered(z) => Covered(z)'
         /\ FlushAhead(z) => FlushAhead(z)'
         /\ flag'[z] => Covered(z)'
         /\ HasPending(z)' => FlushAhead(z)' \/ stranded'[z] # "no" \/ Unlooked(z)'
<1>1. Covered(z) => Covered(z)'
  BY FlushIsAhead, FlushIsAheadNext DEF FlushKept, CallsKept, Flushing
<1>2. FlushAhead(z) => FlushAhead(z)'
  BY FlushIsAhead, FlushIsAheadNext DEF FlushKept, CallsKept, Flushing
<1>3. Unlooked(z) => Unlooked(z)'
  <2> SUFFICES ASSUME Unlooked(z) PROVE Unlooked(z)' OBVIOUS
  <2>1. PICK w \in Workers : flushing[w] = z /\ stage[w] = "nothing" BY DEF Unlooked
  <2>2. flushing'[w] = z /\ stage'[w] = "nothing" BY <2>1 DEF FlushKept, Flushing
  <2> QED BY <2>2 DEF Unlooked
<1>4. HasPending(z)' => HasPending(z) BY DEF HasPending
<1> QED BY <1>1, <1>2, <1>3, <1>4 DEF CoverInv, FlagIsCovered, PendingIsCovered

LEMMA CoverKeptByAccept ==
  ASSUME Assumptions, Types, CoverInv, NEW t \in Callers, NEW s \in Stores, NEW c \in Chats,
         NEW write, Accept(t, s, c, write)
  PROVE  CoverInv'
<1> USE ConstantTypes
<1>1. /\ at[t] = "idle" /\ at'[t] = "swap" /\ target'[t] = s
      /\ \A x \in Threads : x # t => at'[x] = at[x] /\ target'[x] = target[x]
  BY DEF Accept, GoTo, Types, CallTypes
<1>2. UNCHANGED <<due, later, batch, stage, flushing, flag, stranded>>
  BY DEF Accept, queueVars, workerVars
<1>3. \A z \in Stores : FlushKept(z) /\ CallsKept(z)
  BY <1>1, <1>2 DEF FlushKept, CallsKept, JobSomewhere
<1>4. \A z \in Stores : z # s => pending'[z] = pending[z] BY DEF Accept, Types, BufferTypes
<1>5. FlushAhead(s)' BY <1>1, FlushIsAheadNext
<1>6. Covered(s) => Covered(s)'
  BY <1>3, FlushIsAhead, FlushIsAheadNext DEF FlushKept, CallsKept, Flushing
<1>7. FlagIsCovered'
  BY <1>2, <1>3, <1>4, <1>6, OtherStoreKept DEF FlagIsCovered, CoverInv
<1>8. PendingIsCovered'
  BY <1>2, <1>3, <1>4, <1>5, OtherStoreKept DEF PendingIsCovered
<1> QED BY <1>7, <1>8 DEF CoverInv

LEMMA CoverKeptByMark ==
  ASSUME Assumptions, Types, CoverInv, NEW t \in Threads, NEW s \in Stores, MarkScheduled(t, s)
  PROVE  CoverInv'
<1> USE ConstantTypes
<1>1. /\ at[t] = "swap" /\ target[t] = s
      /\ \A x \in Threads : x # t => at'[x] = at[x] /\ target'[x] = target[x]
  BY DEF MarkScheduled, Leave, GoTo, Types, CallTypes
<1>2. UNCHANGED <<due, later, batch, stage, flushing, pending>>
  BY DEF MarkScheduled, queueVars, workerVars
<1>3. \A z \in Stores : FlushKept(z) BY <1>2 DEF FlushKept, JobSomewhere
<1>4. ASSUME NEW z \in Stores, z # s
      PROVE  CallsKept(z) /\ flag'[z] = flag[z] /\ stranded'[z] = stranded[z]
  BY <1>1, <1>4 DEF CallsKept, MarkScheduled, Types, BufferTypes
<1>5. ASSUME NEW z \in Stores, z # s
      PROVE  /\ flag'[z] => Covered(z)'
             /\ HasPending(z)' => FlushAhead(z)' \/ stranded'[z] # "no" \/ Unlooked(z)'
  BY <1>2, <1>3, <1>4, <1>5, OtherStoreKept
<1>6. Covered(s)' /\ (FlushAhead(s)' \/ Unlooked(s)')
  <2>0. flag'[s] = TRUE BY DEF MarkScheduled, Types, BufferTypes
  <2>1. CASE flag[s]
    <3>1. \/ \E l \in Labels : FlushOf(l) = s /\ JobSomewhere(l)
          \/ \E w \in Workers : flushing[w] = s /\ stage[w] \in {"nothing", "apply", "clear"}
          \/ \E x \in Threads : target[x] = s /\ at[x] \in {"push", "reject"}
      BY <2>1, FlushIsAhead DEF CoverInv, FlagIsCovered
    <3>2. CASE \E l \in Labels : FlushOf(l) = s /\ JobSomewhere(l)
      BY <1>3, <3>2, FlushIsAheadNext DEF FlushKept
    <3>3. CASE \E x \in Threads : target[x] = s /\ at[x] \in {"push", "reject"}
      <4>1. PICK x \in Threads : target[x] = s /\ at[x] \in {"push", "reject"} BY <3>3
      <4>2. x # t BY <1>1, <4>1
      <4> QED BY <1>1, <4>1, <4>2, FlushIsAheadNext
    <3>4. CASE \E w \in Workers : flushing[w] = s /\ stage[w] \in {"apply", "clear"}
      BY <1>2, <3>4, FlushIsAheadNext
    <3>5. CASE \E w \in Workers : flushing[w] = s /\ stage[w] = "nothing"
      <4>1. Covered(s)' BY <1>2, <3>5, FlushIsAheadNext
      <4>2. Unlooked(s)' BY <1>2, <2>0, <3>5 DEF Unlooked
      <4> QED BY <4>1, <4>2
    <3> QED BY <3>1, <3>2, <3>3, <3>4, <3>5
  <2>2. CASE ~flag[s]
    <3>1. at'[t] = "push" /\ target'[t] = s
      BY <1>1, <2>2 DEF MarkScheduled, GoTo, Types, CallTypes
    <3> QED BY <3>1, FlushIsAheadNext
  <2> QED BY <2>1, <2>2
<1>7. FlagIsCovered' BY <1>5, <1>6 DEF FlagIsCovered
<1>8. PendingIsCovered' BY <1>5, <1>6 DEF PendingIsCovered
<1> QED BY <1>7, <1>8 DEF CoverInv

LEMMA CoverKeptByReject ==
  ASSUME Assumptions, Types, CoverInv, NEW t \in Threads, NEW s \in Stores, ClearAfterReject(t, s)
  PROVE  CoverInv'
<1> USE ConstantTypes
<1>1. /\ target[t] = s
      /\ \A x \in Threads : x # t => at'[x] = at[x] /\ target'[x] = target[x]
  BY DEF ClearAfterReject, Leave, GoTo, Types, CallTypes
<1>2. UNCHANGED <<due, later, batch, stage, flushing, pending>>
  BY DEF ClearAfterReject, queueVars, workerVars
<1>3. flag'[s] = FALSE /\ stranded'[s] = "refused" BY DEF ClearAfterReject, Types, BufferTypes
<1>4. ASSUME NEW z \in Stores, z # s
      PROVE  /\ FlushKept(z) /\ CallsKept(z) /\ flag'[z] = flag[z] /\ stranded'[z] = stranded[z]
  BY <1>1, <1>2, <1>4 DEF FlushKept, JobSomewhere, CallsKept, ClearAfterReject, Types, BufferTypes
<1>5. ASSUME NEW z \in Stores, z # s
      PROVE  /\ flag'[z] => Covered(z)'
             /\ HasPending(z)' => FlushAhead(z)' \/ stranded'[z] # "no" \/ Unlooked(z)'
  BY <1>2, <1>4, <1>5, OtherStoreKept
<1>6. FlagIsCovered' BY <1>3, <1>5 DEF FlagIsCovered
<1>7. PendingIsCovered' BY <1>3, <1>5 DEF PendingIsCovered
<1> QED BY <1>6, <1>7 DEF CoverInv

LEMMA CoverKeptBySpawn ==
  ASSUME Assumptions, Types, CoverInv, NEW t \in Threads, Spawn(t)
  PROVE  CoverInv'
<1>1. /\ at[t] = "ensure"
      /\ \A x \in Threads : x # t => at'[x] = at[x] /\ target'[x] = target[x]
  BY DEF Spawn, Leave, GoTo, Types, CallTypes
<1>2. UNCHANGED <<due, later, batch, flushing, pending, flag, stranded>> BY DEF Spawn, bufferVars
<1>3. PICK w \in Workers : stage[w] = "off" /\ Stage(w, "poll") BY DEF Spawn
<1>4. \A v \in Workers : stage'[v] = stage[v] \/ (stage[v] \notin Flushing /\ stage'[v] \notin Flushing)
  BY <1>3 DEF Stage, Flushing, Types, WorkerTypes
<1>5. \A l \in Labels : JobSomewhere(l) => JobSomewhere(l)' BY <1>2 DEF JobSomewhere
<1>6. PassesOn(t) BY <1>1, <1>2, <1>4, <1>5 DEF PassesOn
<1> QED BY <1>6, CoverPassedOn

\* The steps of a flush: they concern the store that is flushed, and the only
\* worker there is.
LEMMA CoverKeptByTakeAll ==
  ASSUME Assumptions, Types, CoverInv, NEW w \in Workers, NEW l \in Labels, TakeAll(w, l)
  PROVE  CoverInv'
<1> USE ConstantTypes
<1> DEFINE s == FlushOf(l)
<1>0. s \in Stores BY DEF FlushOf
<1>1. /\ stage[w] = "run" /\ flushing'[w] = s
      /\ stage'[w] \in {"apply", "nothing"}
      /\ \A v \in Workers : v # w => stage'[v] = stage[v] /\ flushing'[v] = flushing[v]
  BY DEF TakeAll, Stage, Types, WorkerTypes
<1>2. UNCHANGED <<due, later, at, target, flag>> BY DEF TakeAll, queueVars, callVars
<1>3. \A k \in Labels : FlushOf(k) # s => (JobSomewhere(k) => JobSomewhere(k)')
  <2>1. \A v \in Workers, k \in Labels : k # l => batch'[v][k] = batch[v][k]
    BY DEF TakeAll, Types, WorkerTypes
  <2> QED BY <1>2, <2>1 DEF JobSomewhere
<1>4. ASSUME NEW z \in Stores, z # s
      PROVE  /\ FlushKept(z) /\ CallsKept(z)
             /\ flag'[z] = flag[z] /\ pending'[z] = pending[z] /\ stranded'[z] = stranded[z]
  <2>1. FlushKept(z) BY <1>1, <1>3, <1>4 DEF FlushKept, Flushing
  <2>2. CallsKept(z) BY <1>2 DEF CallsKept
  <2> QED BY <1>0, <1>2, <1>4, <2>1, <2>2 DEF TakeAll, Types, BufferTypes
<1>5. ASSUME NEW z \in Stores, z # s
      PROVE  /\ flag'[z] => Covered(z)'
             /\ HasPending(z)' => FlushAhead(z)' \/ stranded'[z] # "no" \/ Unlooked(z)'
  BY <1>4, <1>5, OtherStoreKept
<1>6. Covered(s)' BY <1>0, <1>1, FlushIsAheadNext
<1>7. ~HasPending(s)'
  <2>1. pending'[s] = NoWrites BY <1>0 DEF TakeAll, Types, BufferTypes
  <2> QED BY <2>1 DEF HasPending, NoWrites
<1> HIDE DEF s
<1>8. FlagIsCovered' BY <1>5, <1>6 DEF FlagIsCovered
<1>9. PendingIsCovered' BY <1>5, <1>7 DEF PendingIsCovered
<1> QED BY <1>8, <1>9 DEF CoverInv

LEMMA CoverKeptByClearUnlooked ==
  ASSUME Assumptions, Types, OneWorker, WorkersAreConsistent, CoverInv,
         NEW w \in Workers, ClearUnlooked(w)
  PROVE  CoverInv'
<1> USE ConstantTypes
<1>0. PICK s \in Stores : s = flushing[w] BY DEF ClearUnlooked, WorkersAreConsistent
<1>1. /\ stage[w] = "nothing" /\ \A v \in Workers : v # w => stage[v] = "off"
      /\ \A v \in Workers : v # w => stage'[v] = stage[v] /\ flushing'[v] = flushing[v]
  BY DEF ClearUnlooked, FlushDone, Stage, OneWorker, Types, WorkerTypes
<1>2. UNCHANGED <<due, later, batch, at, target, pending>>
  BY DEF ClearUnlooked, FlushDone, queueVars, callVars
<1>3. ASSUME NEW z \in Stores, z # s
      PROVE  /\ FlushKept(z) /\ CallsKept(z) /\ flag'[z] = flag[z] /\ stranded'[z] = stranded[z]
  BY <1>0, <1>1, <1>2, <1>3
  DEF FlushKept, JobSomewhere, CallsKept, ClearUnlooked, Types, BufferTypes
<1>4. ASSUME NEW z \in Stores, z # s
      PROVE  /\ flag'[z] => Covered(z)'
             /\ HasPending(z)' => FlushAhead(z)' \/ stranded'[z] # "no" \/ Unlooked(z)'
  BY <1>2, <1>3, <1>4, OtherStoreKept
<1>5. ~flag'[s] BY <1>0 DEF ClearUnlooked, Types, BufferTypes
<1>6. HasPending(s)' => FlushAhead(s)' \/ stranded'[s] # "no"
  <2> SUFFICES ASSUME HasPending(s)' PROVE FlushAhead(s)' \/ stranded'[s] # "no" OBVIOUS
  <2>1. HasPending(s) BY <1>2 DEF HasPending
  <2>2. CASE flag[s]
    <3>1. stranded'[s] = "overlooked" BY <1>0, <2>1, <2>2 DEF ClearUnlooked, Types, BufferTypes
    <3> QED BY <3>1
  <2>3. CASE ~flag[s]
    <3>1. stranded'[s] = stranded[s] BY <1>0, <2>3 DEF ClearUnlooked, Types, BufferTypes
    <3>2. CASE FlushAhead(s)
      <4>1. ~\E v \in Workers : flushing[v] = s /\ stage[v] \in {"apply", "clear", "check"}
        BY <1>1
      <4> QED BY <1>0, <1>2, <3>2, <4>1, FlushIsAhead, FlushIsAheadNext DEF JobSomewhere
    <3> QED BY <1>0, <2>1, <2>3, <3>1, <3>2 DEF CoverInv, PendingIsCovered, Unlooked
  <2> QED BY <2>2, <2>3
<1>7. FlagIsCovered' BY <1>4, <1>5 DEF FlagIsCovered
<1>8. PendingIsCovered' BY <1>4, <1>6 DEF PendingIsCovered
<1> QED BY <1>7, <1>8 DEF CoverInv

LEMMA CoverKeptByRestore ==
  ASSUME Assumptions, Types, OneWorker, WorkersAreConsistent, CoverInv,
         NEW w \in Workers, RestoreFailed(w)
  PROVE  CoverInv'
<1> USE ConstantTypes
<1>0. PICK s \in Stores : s = flushing[w] BY DEF RestoreFailed, WorkersAreConsistent
<1>1. /\ stage[w] = "apply" /\ stage'[w] = "clear" /\ UNCHANGED flushing
      /\ \A v \in Workers : v # w => stage'[v] = stage[v]
  BY DEF RestoreFailed, Stage, Types, WorkerTypes
<1>2. UNCHANGED <<due, later, batch, at, target, flag, stranded>>
  BY DEF RestoreFailed, queueVars, callVars
<1>3. ASSUME NEW z \in Stores, z # s
      PROVE  FlushKept(z) /\ CallsKept(z) /\ pending'[z] = pending[z]
  BY <1>0, <1>1, <1>2, <1>3
  DEF FlushKept, JobSomewhere, CallsKept, RestoreFailed, Types, BufferTypes
<1>4. ASSUME NEW z \in Stores, z # s
      PROVE  /\ flag'[z] => Covered(z)'
             /\ HasPending(z)' => FlushAhead(z)' \/ stranded'[z] # "no" \/ Unlooked(z)'
  BY <1>2, <1>3, <1>4, OtherStoreKept
<1>5. Covered(s)' /\ FlushAhead(s)' BY <1>0, <1>1, FlushIsAheadNext
<1>6. FlagIsCovered' BY <1>4, <1>5 DEF FlagIsCovered
<1>7. PendingIsCovered' BY <1>4, <1>5 DEF PendingIsCovered
<1> QED BY <1>6, <1>7 DEF CoverInv

LEMMA CoverKeptByClear ==
  ASSUME Assumptions, Types, OneWorker, WorkersAreConsistent, CoverInv,
         NEW w \in Workers, ClearScheduled(w)
  PROVE  CoverInv'
<1> USE ConstantTypes
<1>0. PICK s \in Stores : s = flushing[w] BY DEF ClearScheduled, WorkersAreConsistent
<1>1. /\ stage[w] = "clear" /\ stage'[w] = "check" /\ UNCHANGED flushing
      /\ \A v \in Workers : v # w => stage'[v] = stage[v]
  BY DEF ClearScheduled, Stage, Types, WorkerTypes
<1>2. UNCHANGED <<due, later, batch, at, target, pending, stranded>>
  BY DEF ClearScheduled, queueVars, callVars
<1>3. ASSUME NEW z \in Stores, z # s
      PROVE  FlushKept(z) /\ CallsKept(z) /\ flag'[z] = flag[z]
  BY <1>0, <1>1, <1>2, <1>3
  DEF FlushKept, JobSomewhere, CallsKept, ClearScheduled, Types, BufferTypes
<1>4. ASSUME NEW z \in Stores, z # s
      PROVE  /\ flag'[z] => Covered(z)'
             /\ HasPending(z)' => FlushAhead(z)' \/ stranded'[z] # "no" \/ Unlooked(z)'
  BY <1>2, <1>3, <1>4, OtherStoreKept
<1>5. ~flag'[s] BY <1>0 DEF ClearScheduled, Types, BufferTypes
<1>6. FlushAhead(s)' BY <1>0, <1>1, FlushIsAheadNext
<1>7. FlagIsCovered' BY <1>4, <1>5 DEF FlagIsCovered
<1>8. PendingIsCovered' BY <1>4, <1>6 DEF PendingIsCovered
<1> QED BY <1>7, <1>8 DEF CoverInv

LEMMA CoverKeptByCheck ==
  ASSUME Assumptions, Types, OneWorker, WorkersAreConsistent, CoverInv,
         NEW w \in Workers, CheckPending(w)
  PROVE  CoverInv'
<1> USE ConstantTypes
<1>0. PICK s \in Stores : s = flushing[w] BY DEF CheckPending, WorkersAreConsistent
<1>1. /\ stage[w] = "check" /\ at[w] = "idle"
      /\ \A v \in Workers : v # w => stage'[v] = stage[v] /\ flushing'[v] = flushing[v]
  BY DEF CheckPending, FlushDone, Stage, WorkersAreConsistent, Types, WorkerTypes
<1>2. UNCHANGED <<due, later, batch, pending, flag, stranded>>
  BY DEF CheckPending, FlushDone, queueVars, bufferVars
<1>3. /\ \A t \in Threads : t # w => at'[t] = at[t] /\ target'[t] = target[t]
      /\ HasPending(s) => at'[w] = "swap" /\ target'[w] = s
  BY <1>0 DEF CheckPending, GoTo, Types, CallTypes, callVars
<1>4. ASSUME NEW z \in Stores PROVE CallsKept(z) BY <1>1, <1>3 DEF CallsKept
<1>5. ASSUME NEW z \in Stores, z # s PROVE FlushKept(z)
  BY <1>0, <1>1, <1>2, <1>5 DEF FlushKept, JobSomewhere
<1>6. ASSUME NEW z \in Stores, z # s
      PROVE  /\ flag'[z] => Covered(z)'
             /\ HasPending(z)' => FlushAhead(z)' \/ stranded'[z] # "no" \/ Unlooked(z)'
  BY <1>2, <1>4, <1>5, <1>6, OtherStoreKept
<1>7. flag'[s] => Covered(s)'
  <2> SUFFICES ASSUME flag[s] PROVE Covered(s)' BY <1>2
  <2>1. Covered(s) BY DEF CoverInv, FlagIsCovered
  <2>2. CASE \E v \in Workers : flushing[v] = s /\ stage[v] \in {"nothing", "apply", "clear"}
    BY <1>1, <2>2, FlushIsAheadNext
  <2>3. CASE \E t \in Threads : target[t] = s /\ at[t] \in {"push", "reject"}
    BY <1>1, <1>3, <2>3, FlushIsAheadNext
  <2>4. CASE \E l \in Labels : FlushOf(l) = s /\ JobSomewhere(l)
    BY <1>2, <2>4, FlushIsAheadNext DEF JobSomewhere
  <2> QED BY <2>1, <2>2, <2>3, <2>4, FlushIsAhead
<1>8. HasPending(s)' => FlushAhead(s)'
  <2> SUFFICES ASSUME HasPending(s)' PROVE FlushAhead(s)' OBVIOUS
  <2>1. HasPending(s) BY <1>2 DEF HasPending
  <2> QED BY <1>3, <2>1, FlushIsAheadNext
<1>9. FlagIsCovered' BY <1>6, <1>7 DEF FlagIsCovered
<1>10. PendingIsCovered' BY <1>6, <1>8 DEF PendingIsCovered
<1> QED BY <1>9, <1>10 DEF CoverInv

LEMMA CoverKept ==
  ASSUME Assumptions, Types, OneWorker, WorkersAreConsistent, CoverInv, [Next]_vars
  PROVE  CoverInv'
<1> USE ConstantTypes
<1>1. CASE \E t \in Threads : CallNext(t)
  <2>1. PICK t \in Threads : CallNext(t) BY <1>1
  <2>2. CASE QueueStep(t) /\ UNCHANGED <<bufferVars, workerVars>>
    BY <2>2, CoverKeptByCalls DEF bufferVars
  <2> QED BY <2>1, <2>2, CoverKeptByMark, CoverKeptByReject, CoverKeptBySpawn DEF CallNext, QueueStep
<1>2. CASE \E t \in Callers : CallStarts(t)
  <2>1. PICK t \in Callers : CallStarts(t) BY <1>2
  <2>2. CASE /\ \E l \in Maintenance : Push(t, l) \/ Coalesce(t, l)
             /\ UNCHANGED <<pending, stored, flag, stranded, ops, workerVars>>
    BY <2>2, CoverKeptByCalls DEF QueueStep
  <2>3. CASE \E s \in MapStores, c \in Chats : Set(t, s, c) BY <2>3, CoverKeptByAccept DEF Set
  <2>4. CASE \E c \in Chats : AppendTo(t, c) \/ Clear(t, c)
    BY <2>4, CoverKeptByAccept DEF AppendTo, Clear
  <2> QED BY <2>1, <2>2, <2>3, <2>4 DEF CallStarts
<1>3. CASE AgentPolls \/ RetryNext
  BY <1>3, CoverKeptByCalls DEF AgentPolls, RetryNext, bufferVars
<1>4. CASE TimeNext \/ LoadNext \/ UNCHANGED vars BY <1>4, CoverKeptByTime
<1>5. CASE \E w \in Workers : WorkerNext(w) \/ StopIdle(w)
  <2>1. PICK w \in Workers : WorkerNext(w) \/ StopIdle(w) BY <1>5
  <2>2. CASE \E c \in Chats : Apply(w, c) \/ ApplyFails(w, c)
    <3>1. UNCHANGED <<due, later, batch, at, target, pending, flag, stranded, stage, flushing>>
      BY <2>2 DEF Apply, ApplyFails, queueVars, callVars
    <3>2. PassesOn(Timer) BY <3>1 DEF PassesOn, JobSomewhere
    <3> QED BY <3>2, CoverPassedOn
  <2>3. CASE FlushNext(w)
    BY <2>2, <2>3, CoverKeptByTakeAll, CoverKeptByClearUnlooked, CoverKeptByRestore,
       CoverKeptByClear, CoverKeptByCheck DEF FlushNext
  <2> QED BY <2>1, <2>3, CoverKeptByLoop DEF WorkerNext
<1> QED BY <1>1, <1>2, <1>3, <1>4, <1>5 DEF Next

-----------------------------------------------------------------------------
(* The inductive invariant.                                                *)
WriteBackInv == Types /\ OneWorker /\ WorkersAreConsistent /\ CoverInv

LEMMA WriteBackInit == ASSUME Assumptions, Init PROVE WriteBackInv
<1> USE ConstantTypes
<1>1. Types
  <2>1. QueueTypes BY DEF Init, QueueInit, QueueTypes
  <2>2. EnvTypes
    <3>1. troubles \in 0..MaxMishaps /\ faults \in 0..MaxMishaps BY DEF Init, QueueInit
    <3>2. busy \in BOOLEAN BY Zenon DEF Init, QueueInit
    <3> QED BY <3>1, <3>2 DEF EnvTypes
  <2>3. CallTypes BY DEF Init, QueueInit, CallTypes, Places
  <2>4. BufferTypes
    <3>1. NoWrites \in Writes BY DEF NoWrites, Writes
    <3>2. \A s \in Stores : [c \in Chats |-> <<>>] \in [Chats -> Seq(Nat)] OBVIOUS
    <3>3. ops \in 0..MaxOps /\ asked \in 0..MaxAsked BY DEF Init, WorkerInit
    <3> QED BY <3>1, <3>2, <3>3 DEF Init, WorkerInit, BufferTypes
  <2>5. WorkerTypes
    <3>1. NoWrites \in Writes /\ NoJobs \in [Labels -> Nat] BY DEF NoWrites, Writes, NoJobs
    <3>2. batch \in [Workers -> [Labels -> Nat]] BY <3>1 DEF Init, WorkerInit
    <3>3. drained \in [Workers -> Writes] /\ failed \in [Workers -> Writes] BY <3>1 DEF Init, WorkerInit
    <3>4. stage \in [Workers -> Stages] BY DEF Init, WorkerInit, Stages
    <3>5. flushing \in [Workers -> Stores \cup {NoLabel}] BY DEF Init, WorkerInit
    <3> QED BY <3>2, <3>3, <3>4, <3>5 DEF WorkerTypes
  <2> QED BY <2>1, <2>2, <2>3, <2>4, <2>5 DEF Types
<1>2. OneWorker /\ WorkersAreConsistent
  BY DEF Init, QueueInit, WorkerInit, OneWorker, WorkersAreConsistent
<1>3. \A s \in Stores : ~flag[s] /\ ~HasPending(s)
  BY DEF Init, WorkerInit, HasPending, NoWrites
<1> QED BY <1>1, <1>2, <1>3 DEF WriteBackInv, CoverInv, FlagIsCovered, PendingIsCovered

LEMMA WriteBackStep ==
  ASSUME Assumptions, WriteBackInv, [Next]_vars
  PROVE  WriteBackInv'
<1> USE DEF WriteBackInv
<1>1. Types' BY TypesKept
<1>2. OneWorker' /\ WorkersAreConsistent' BY WorkerInvKept
<1>3. CoverInv' BY CoverKept
<1> QED BY <1>1, <1>2, <1>3

\* The invariant holds in every state.
THEOREM WriteBackAlways == Spec => []WriteBackInv
<1>1. Assumptions BY QueueAssumption, WorkerAssumption, AgentAssumption DEF Assumptions
<1>2. Init => WriteBackInv BY <1>1, WriteBackInit
<1>3. WriteBackInv /\ [Next]_vars => WriteBackInv' BY <1>1, WriteBackStep
<1> QED BY <1>2, <1>3, PTL DEF Spec

\* Every part of the write-back plane keeps its type.
THEOREM WriteBackTypes == Spec => []TypeOK
<1>1. WriteBackInv => TypeOK BY TypesAreTypeOK DEF WriteBackInv
<1> QED BY <1>1, WriteBackAlways, PTL

\* At any time one worker runs at most, and none that is not marked started:
\* ensure_write_back_worker_started_inner and the ways a worker stops.
THEOREM OneWriteBackWorker == Spec => []OneWorker
<1>1. WriteBackInv => OneWorker BY DEF WriteBackInv
<1> QED BY <1>1, WriteBackAlways, PTL

\* What is pending has a flush ahead, unless a full queue refused it or a
\* flush that found nothing cleared the flag over it.
THEOREM PendingAlwaysHasFlush == Spec => []PendingHasFlush
<1>1. WriteBackInv => PendingHasFlush
  BY DEF WriteBackInv, CoverInv, PendingIsCovered, Unlooked, PendingHasFlush
<1> QED BY <1>1, WriteBackAlways, PTL

\* flush_scheduled is up only while a flush of its store is queued, running or
\* being asked for: a write that finds it up may rely on it.
THEOREM FlagAlwaysCovered == Spec => []FlagIsCovered
<1>1. WriteBackInv => FlagIsCovered BY DEF WriteBackInv, CoverInv
<1> QED BY <1>1, WriteBackAlways, PTL
=============================================================================
