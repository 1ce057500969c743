--------------------------- MODULE WriteBackWorker ---------------------------
(***************************************************************************)
(* The write-back worker of src/src/runtime/write_back.rs and the flushes  *)
(* it runs.  A buffered store answers a write from memory (WriteBuffer)    *)
(* and asks for a flush; flush_scheduled keeps the requests of a store     *)
(* down to one.  The flush takes everything that is pending, writes it     *)
(* chat by chat, puts back what failed in a way that may pass, clears      *)
(* flush_scheduled, and asks again when something is pending by then.      *)
(*                                                                         *)
(* Session is the session log, MapStores the stores of one value per chat. *)
(* Gc is session_gc_write_back, whose job flushes the session first        *)
(* (BufferedSessionStore::gc_stale) although the session has a job of its  *)
(* own.  The removal of stale sessions touches no chat in use.             *)
(*                                                                         *)
(* The worker's storage lease (StorageSessionWrite) has no other holder    *)
(* than write-back, and is re-entered by its owner: it is always granted.  *)
(***************************************************************************)
EXTENDS WriteBackQueue, WriteBuffer

CONSTANTS
  Session, MapStores, Gc,
  Chats,
  MaxOps,        \* bound: writes of the callers
  MaxAsked       \* bound: maintenance that is asked for

Stores == {Session} \cup MapStores

ASSUME WorkerAssumption ==
  /\ Labels = Stores \cup {Gc} /\ Session \notin MapStores /\ Gc \notin Stores
  /\ Session \in Coalescible /\ IsFiniteSet(Chats) /\ NoWrite \notin Write
  /\ MaxOps \in Nat /\ MaxAsked \in Nat /\ MaxMishaps \in Nat

VARIABLES
  pending,   \* PendingMapBuffer / PendingSessionBuffer, by store and chat
  stored,    \* the entries in the inner store, by store and chat
  flag,      \* flush_scheduled, by store
  stranded,  \* why a store's pending writes have no flush ahead: "no", they
             \* have; a full queue "refused" it; an empty one "overlooked" them
  stage,     \* where a worker is in its loop and in a flush
  batch,     \* the jobs a worker took, by label
  flushing,  \* the store a worker flushes, or NoLabel
  drained,   \* what its flush took and has not written, by chat
  failed,    \* what it could not write and will put back, by chat
  ops,       \* writes accepted so far
  asked      \* maintenance asked for so far

bufferVars == <<pending, stored, flag, stranded, ops, asked>>
workerVars == <<stage, batch, flushing, drained, failed>>

NoWrites == [c \in Chats |-> NoWrite]
NoJobs   == [l \in Labels |-> 0]

WorkerInit ==
  /\ pending = [s \in Stores |-> NoWrites]
  /\ stored = [s \in Stores |-> [c \in Chats |-> <<>>]]
  /\ flag = [s \in Stores |-> FALSE] /\ stranded = [s \in Stores |-> "no"]
  /\ stage = [w \in Workers |-> "off"] /\ batch = [w \in Workers |-> NoJobs]
  /\ flushing = [w \in Workers |-> NoLabel]
  /\ drained = [w \in Workers |-> NoWrites] /\ failed = [w \in Workers |-> NoWrites]
  /\ ops = 0 /\ asked = 0

HasPending(s) == \E c \in Chats : pending[s][c] # NoWrite
FlushOf(l)    == IF l = Gc THEN Session ELSE l
Stage(w, place) == stage' = [stage EXCEPT ![w] = place]

-----------------------------------------------------------------------------
(* The callers' writes: set of a map store (its clear is the set of no     *)
(* value), append and clear of the session.                                *)

Accept(t, s, c, write) ==
  /\ at[t] = "idle" /\ ops < MaxOps
  /\ ops' = ops + 1
  /\ pending' = [pending EXCEPT ![s][c] = write]
  /\ GoTo(t, "swap") /\ target' = [target EXCEPT ![t] = s]
  /\ UNCHANGED <<stored, flag, stranded, asked, workerVars, queueVars, envVars>>

Set(t, s, c)    == s \in MapStores /\ Accept(t, s, c, SetWrite(ops + 1))
Clear(t, c)     == Accept(t, Session, c, ClearWrite)
AppendTo(t, c)  == Accept(t, Session, c, Appended(pending[Session][c], ops + 1))

\* try_mark_scheduled: only the call that raises the flag schedules.
MarkScheduled(t, s) ==
  /\ at[t] = "swap" /\ target[t] = s
  /\ flag' = [flag EXCEPT ![s] = TRUE]
  /\ IF flag[s] THEN Leave(t) /\ UNCHANGED stranded
                ELSE /\ GoTo(t, "push") /\ UNCHANGED target
                     /\ stranded' = [stranded EXCEPT ![s] = "no"]
  /\ UNCHANGED <<pending, stored, ops, asked, workerVars, queueVars, envVars>>

\* The queue is full: what is pending waits for the next write.
ClearAfterReject(t, s) ==
  /\ at[t] = "reject" /\ target[t] = s
  /\ flag' = [flag EXCEPT ![s] = FALSE] /\ stranded' = [stranded EXCEPT ![s] = "refused"]
  /\ Leave(t)
  /\ UNCHANGED <<pending, stored, ops, asked, workerVars, queueVars, envVars>>

-----------------------------------------------------------------------------
(* write_back_worker_loop.                                                 *)

\* Seeded fault: a worker is spawned beside one that is started.
SpawnAnyway(t) ==
  /\ at[t] = "ensure" /\ JobsDue /\ Granted
  /\ \E w \in Workers : stage[w] = "off" /\ at[w] = "idle" /\ Stage(w, "poll")
  /\ started' = TRUE
  /\ Leave(t)
  /\ UNCHANGED <<due, later, nextAttempt, quiet, retry, envVars, bufferVars,
                 batch, flushing, drained, failed>>

\* ensure_write_back_worker_started_inner: the check and the mark are under
\* one hold of the mutex.
Spawn(t) ==
  /\ at[t] = "ensure" /\ JobsDue /\ Granted /\ ~started
  /\ LET off == {v \in Workers : stage[v] = "off" /\ at[v] = "idle"}
     IN  off # {} /\ Stage(CHOOSE w \in off : TRUE, "poll")
  /\ started' = TRUE
  /\ Leave(t)
  /\ UNCHANGED <<due, later, nextAttempt, quiet, retry, envVars, bufferVars,
                 batch, flushing, drained, failed>>

\* The batches take_due_write_back_jobs may return: all that is due, up to
\* BatchMax jobs.
Batches ==
  {b \in [Labels -> 0..BatchMax] :
     /\ \A l \in Labels : b[l] <= due[l]
     /\ Count(b) <= BatchMax
     /\ Count(b) = BatchMax \/ b = due}

TakeJobs(w) ==
  /\ at[w] = "idle" /\ stage[w] = "poll" /\ JobsDue
  /\ \E b \in Batches :
       LET left == [l \in Labels |-> due[l] - b[l]]
       IN  /\ batch' = [batch EXCEPT ![w] = b]
           \* after a full batch the rest waits for a moment
           /\ due'   = IF Count(b) = BatchMax THEN NoJobs ELSE left
           /\ later' = IF Count(b) = BatchMax THEN [l \in Labels |-> later[l] + left[l]]
                                              ELSE later
  /\ Stage(w, "admit")
  /\ UNCHANGED <<started, nextAttempt, quiet, retry, envVars, callVars,
                 bufferVars, flushing, drained, failed>>

\* Idle for WRITE_BACK_IDLE_STOP_MS: decided under the mutex, with no job due.
StopIdle(w) ==
  /\ at[w] = "idle" /\ stage[w] = "poll" /\ ~JobsDue
  /\ started' = FALSE /\ Stage(w, "off")
  /\ UNCHANGED <<due, later, nextAttempt, quiet, retry, envVars, callVars,
                 bufferVars, batch, flushing, drained, failed>>

\* running_write_back_worker_admission_delay asks for no quiet window.  That
\* it overlooks scarce memory is as if that came a moment later.
RunJobs(w) ==
  /\ stage[w] = "admit" /\ ~busy
  /\ Stage(w, "run")
  /\ UNCHANGED <<queueVars, envVars, callVars, bufferVars, batch, flushing, drained, failed>>

\* Seeded fault: the batch is dropped by the worker that gives up.
DropJobs(w) ==
  /\ stage[w] = "admit" /\ busy
  /\ batch' = [batch EXCEPT ![w] = NoJobs]
  /\ started' = FALSE /\ nextAttempt' = TRUE /\ ArmRetry
  /\ Stage(w, "off")
  /\ UNCHANGED <<due, later, quiet, callVars, bufferVars, flushing, drained, failed>>

\* defer_write_back_jobs_and_stop_worker.
PutJobsBack(w) ==
  /\ stage[w] = "admit" /\ busy
  /\ later' = [l \in Labels |-> later[l] + batch[w][l]]
  /\ batch' = [batch EXCEPT ![w] = NoJobs]
  /\ started' = FALSE /\ nextAttempt' = TRUE /\ ArmRetry
  /\ Stage(w, "off")
  /\ UNCHANGED <<due, quiet, callVars, bufferVars, flushing, drained, failed>>

JobsDone(w) ==
  /\ at[w] = "idle" /\ stage[w] = "run" /\ batch[w] = NoJobs
  /\ Stage(w, "poll")
  /\ UNCHANGED <<queueVars, envVars, callVars, bufferVars, batch, flushing, drained, failed>>

-----------------------------------------------------------------------------
(* flush_map and flush_session_store.                                      *)

\* take_all.
TakeAll(w, l) ==
  LET s == FlushOf(l)
  IN  /\ at[w] = "idle" /\ stage[w] = "run" /\ batch[w][l] > 0
      /\ batch' = [batch EXCEPT ![w][l] = @ - 1]
      /\ flushing' = [flushing EXCEPT ![w] = s]
      /\ drained' = [drained EXCEPT ![w] = pending[s]]
      /\ pending' = [pending EXCEPT ![s] = NoWrites]
      /\ stranded' = [stranded EXCEPT ![s] = "no"]
      /\ Stage(w, IF HasPending(s) THEN "apply" ELSE "nothing")
      /\ UNCHANGED <<queueVars, envVars, callVars, stored, flag, ops, asked, failed>>

FlushDone(w) ==
  /\ Stage(w, "run") /\ flushing' = [flushing EXCEPT ![w] = NoLabel]
  /\ UNCHANGED <<batch, drained, failed>>

\* Nothing was pending: the flag is cleared without a second look.
ClearUnlooked(w) ==
  LET s == flushing[w]
  IN  /\ stage[w] = "nothing"
      /\ flag' = [flag EXCEPT ![s] = FALSE]
      /\ stranded' = [stranded EXCEPT ![s] = IF flag[s] /\ HasPending(s)
                                              THEN "overlooked" ELSE @]
      /\ FlushDone(w)
      /\ UNCHANGED <<queueVars, envVars, callVars, pending, stored, ops, asked>>

\* What the inner store may hold after a write to it failed.  A value is
\* replaced as a whole; an append may have reached the file in part.
AfterFailure(s, contents, write) ==
  IF s # Session THEN {contents}
  ELSE {contents} \cup
       {Written(contents, [clear |-> write.clear, entries |-> SubSeq(write.entries, 1, n)]) :
          n \in 0..Len(write.entries)}

Apply(w, c) ==
  LET s == flushing[w]
  IN  /\ stage[w] = "apply" /\ drained[w][c] # NoWrite
      /\ stored' = [stored EXCEPT ![s][c] = Written(stored[s][c], drained[w][c])]
      /\ drained' = [drained EXCEPT ![w][c] = NoWrite]
      /\ UNCHANGED <<queueVars, envVars, callVars, pending, flag, stranded, ops, asked,
                     stage, batch, flushing, failed>>

\* should_retry_write_back_error: kept for a later flush, or given up.
ApplyFails(w, c) ==
  LET s == flushing[w]
  IN  /\ stage[w] = "apply" /\ drained[w][c] # NoWrite
      /\ troubles + faults < MaxMishaps /\ faults' = faults + 1
      /\ \E contents \in AfterFailure(s, stored[s][c], drained[w][c]) :
           stored' = [stored EXCEPT ![s][c] = contents]
      /\ \/ failed' = [failed EXCEPT ![w][c] = drained[w][c]]
         \/ UNCHANGED failed
      /\ drained' = [drained EXCEPT ![w][c] = NoWrite]
      /\ UNCHANGED <<queueVars, busy, troubles, callVars, pending, flag, stranded, ops, asked,
                     stage, batch, flushing>>

\* restore_missing.
Restored(s, current, write) ==
  IF s = Session THEN RestoredLog(current, write) ELSE RestoredSet(current, write)

RestoreFailed(w) ==
  LET s == flushing[w]
  IN  /\ stage[w] = "apply" /\ drained[w] = NoWrites
      /\ pending' = [pending EXCEPT ![s] =
                       [c \in Chats |-> Restored(s, pending[s][c], failed[w][c])]]
      /\ failed' = [failed EXCEPT ![w] = NoWrites]
      /\ Stage(w, "clear")
      /\ UNCHANGED <<queueVars, envVars, callVars, stored, flag, stranded, ops, asked,
                     batch, flushing, drained>>

\* clear_scheduled.
ClearScheduled(w) ==
  /\ stage[w] = "clear"
  /\ flag' = [flag EXCEPT ![flushing[w]] = FALSE]
  /\ Stage(w, "check")
  /\ UNCHANGED <<queueVars, envVars, callVars, pending, stored, stranded, ops, asked,
                 batch, flushing, drained, failed>>

\* Seeded fault: what came in during the flush is left to the next write.
CheckNothing(w) ==
  /\ stage[w] = "check" /\ FlushDone(w)
  /\ UNCHANGED <<queueVars, envVars, callVars, bufferVars>>

CheckPending(w) ==
  LET s == flushing[w]
  IN  /\ stage[w] = "check" /\ FlushDone(w)
      /\ IF HasPending(s)
           THEN GoTo(w, "swap") /\ target' = [target EXCEPT ![w] = s]
           ELSE UNCHANGED callVars
      /\ UNCHANGED <<queueVars, envVars, bufferVars>>
=============================================================================
