------------------------------ MODULE WriteBack ------------------------------
(***************************************************************************)
(* The write-back plane of src/src/runtime/write_back.rs as a whole: the   *)
(* callers of the buffered stores, the scheduler, its retry timer and its  *)
(* worker.                                                                 *)
(***************************************************************************)
EXTENDS WriteBackWorker

CONSTANT Agent    \* the caller that is the agent loop

ASSUME AgentAssumption == Agent \in Callers

vars == <<queueVars, envVars, callVars, bufferVars, workerVars>>

Init == QueueInit /\ WorkerInit

\* The steps of a call, whichever thread makes it.
CallNext(t) ==
  \/ \E s \in Stores : MarkScheduled(t, s) \/ ClearAfterReject(t, s)
  \/ Spawn(t)
  \/ /\ at[t] # "idle"
     /\ \/ \E l \in Labels : Push(t, l) \/ Coalesce(t, l) \/ Reject(t, l)
        \/ EnsureStops(t) \/ StartedAlready(t) \/ SpawnFails(t)
     /\ UNCHANGED <<bufferVars, workerVars>>

\* A new call: a write, maintenance from the agent loop, its poll of the
\* scheduler.
CallStarts(t) ==
  \/ \E s \in MapStores, c \in Chats : Set(t, s, c)
  \/ \E c \in Chats : AppendTo(t, c) \/ Clear(t, c)
  \/ /\ t = Agent /\ at[t] = "idle"
     /\ asked < MaxAsked /\ asked' = asked + 1
     /\ \E l \in Maintenance : Push(t, l) \/ Coalesce(t, l)
     /\ UNCHANGED <<pending, stored, flag, stranded, ops, workerVars>>
AgentPolls == Poll(Agent) /\ UNCHANGED <<bufferVars, workerVars>>

FlushNext(w) ==
  \/ \E l \in Labels : TakeAll(w, l)
  \/ ClearUnlooked(w)
  \/ \E c \in Chats : Apply(w, c) \/ ApplyFails(w, c)
  \/ RestoreFailed(w) \/ ClearScheduled(w) \/ CheckPending(w)

WorkerNext(w) ==
  TakeJobs(w) \/ RunJobs(w) \/ PutJobsBack(w) \/ JobsDone(w) \/ FlushNext(w)

RetryNext == RetryFires /\ UNCHANGED <<bufferVars, workerVars>>

TimeNext ==
  /\ \/ \E l \in Labels : BecomesDue(l)
     \/ AttemptTimeComes
  /\ UNCHANGED <<bufferVars, workerVars>>

LoadNext == (LoadComes \/ LoadEnds) /\ UNCHANGED <<bufferVars, workerVars>>

Next ==
  \/ \E t \in Threads : CallNext(t)
  \/ \E t \in Callers : CallStarts(t)
  \/ AgentPolls
  \/ \E w \in Workers : WorkerNext(w) \/ StopIdle(w)
  \/ RetryNext \/ TimeNext \/ LoadNext

\* Threads run, timers fire, time passes, the agent loop goes on polling and
\* the device comes to rest.  That no call is ever made, no load ever comes
\* and no worker ever stops is possible.
Fairness ==
  /\ WF_vars(CallNext(Agent))
  /\ WF_vars(\E w \in Workers : CallNext(w) \/ WorkerNext(w))
  /\ WF_vars(AgentPolls)
  /\ WF_vars((LoadEnds \/ \E l \in Stores : BecomesDue(l)) /\ UNCHANGED <<bufferVars, workerVars>>)
  /\ WF_vars(AttemptTimeComes /\ UNCHANGED <<bufferVars, workerVars>>)

Spec     == Init /\ [][Next]_vars
FairSpec == Spec /\ Fairness

-----------------------------------------------------------------------------
\* Every part of the plane has its type.
TypeOK ==
  /\ due \in [Labels -> Nat] /\ later \in [Labels -> Nat]
  /\ started \in BOOLEAN /\ nextAttempt \in BOOLEAN
  /\ quiet \in BOOLEAN /\ retry \in BOOLEAN
  /\ busy \in BOOLEAN /\ troubles \in 0..MaxMishaps /\ faults \in 0..MaxMishaps
  /\ at \in [Threads -> {"idle", "swap", "push", "reject", "ensure"}]
  /\ target \in [Threads -> Labels \cup {NoLabel}]
  /\ pending \in [Stores -> [Chats -> Write \cup {NoWrite}]]
  /\ stored \in [Stores -> [Chats -> Seq(Nat)]]
  /\ flag \in [Stores -> BOOLEAN] /\ stranded \in [Stores -> {"no", "refused", "overlooked"}]
  /\ stage \in [Workers -> {"off", "poll", "admit", "run", "nothing", "apply", "clear", "check"}]
  /\ batch \in [Workers -> [Labels -> Nat]] /\ flushing \in [Workers -> Stores \cup {NoLabel}]
  /\ drained \in [Workers -> [Chats -> Write \cup {NoWrite}]]
  /\ failed \in [Workers -> [Chats -> Write \cup {NoWrite}]]
  /\ ops \in 0..MaxOps /\ asked \in 0..MaxAsked

(* One worker at a time (worker_started): two would write the batches of a *)
(* store in any order, and the storage lease does not keep them apart, for *)
(* both have its owner's name.  A worker that gave up and one that a timer *)
(* or a caller spawns at that moment are the near miss.                    *)
OneWorker ==
  /\ \A v, w \in Workers : (stage[v] # "off" /\ stage[w] # "off") => v = w
  /\ ~started => \A w \in Workers : stage[w] = "off"

\* Where a pending write's flush may be: in the queue or in a worker's batch,
\* with a worker that will look again, or with a call that is about to ask.
FlushAhead(s) ==
  \/ \E l \in Labels : FlushOf(l) = s /\ due[l] + later[l] > 0
  \/ \E w \in Workers, l \in Labels : FlushOf(l) = s /\ batch[w][l] > 0
  \/ \E w \in Workers : flushing[w] = s /\ stage[w] \in {"apply", "clear", "check"}
  \/ \E t \in Threads : target[t] = s /\ at[t] \in {"swap", "push", "reject"}

(* No write is forgotten: as long as something is pending there is a flush *)
(* ahead, unless a full queue turned the store's last request away.  The   *)
(* flag, the queue and the buffer are three locks; a write that comes in   *)
(* between a flush's take_all and its clear_scheduled relies on the second *)
(* look at the buffer, which flush_map skips when it found nothing.        *)
NoWriteForgotten ==
  \A s \in Stores : HasPending(s) => FlushAhead(s) \/ stranded[s] = "refused"

(* And only that skipped look forgets one.                                 *)
PendingHasFlush ==
  \A s \in Stores :
    HasPending(s) => \/ FlushAhead(s) \/ stranded[s] # "no"
                     \/ \E w \in Workers : flushing[w] = s /\ stage[w] = "nothing"

(* Every accepted write leaves the memory: the writes being finitely many, *)
(* the plane comes to have nothing pending but what is stranded, whatever  *)
(* loads, refused threads and lost wake-ups came before.                   *)
WritesAreFlushed ==
  []<>(\A s \in Stores : HasPending(s) => stranded[s] # "no")

-----------------------------------------------------------------------------
(* The plane implements WriteBehind.                                       *)

Atoms(write) ==
  IF write = NoWrite THEN <<>>
  ELSE (IF write.clear THEN <<0>> ELSE <<>>) \o write.entries

Wipes(write) == write # NoWrite /\ write.clear

\* What a worker holds of a chat goes before what is pending; a failed write
\* only waits until a wipe is pending behind it.
InHand(s, c) ==
  IF \E w \in Workers : stage[w] = "apply" /\ flushing[w] = s
    THEN LET w == CHOOSE v \in Workers : stage[v] = "apply" /\ flushing[v] = s
         IN  Atoms(drained[w][c]) \o
             (IF Wipes(pending[s][c]) THEN <<>> ELSE Atoms(failed[w][c]))
    ELSE <<>>

Behind == INSTANCE WriteBehind WITH
  Keys <- Stores \X Chats,
  MaxFaults <- MaxMishaps,
  waiting <- [k \in Stores \X Chats |-> InHand(k[1], k[2]) \o Atoms(pending[k[1]][k[2]])],
  contents <- [k \in Stores \X Chats |-> stored[k[1]][k[2]]],
  accepted <- ops,
  faults <- faults

(* Accepted writes reach the storage in order and once, through coalesced  *)
(* requests, gc's flush beside the session's own, deferred batches and     *)
(* put-back writes; only a failing storage repeats or loses any.           *)
ImplementsWriteBehind == Behind!BehindSpec
=============================================================================
