----------------------------- MODULE InboundLoop -----------------------------
(***************************************************************************)
(* What the agent loop does with an inbound message: run_agent_loop_main   *)
(* of src/src/agent/loop.rs with admit_turn, handle_admission_defer,       *)
(* handle_llm_gate and handle_worker_path_error.                           *)
(*                                                                         *)
(* The verdicts of the orchestrator (admission, LLM gate, foreground       *)
(* lease) and the turn itself are external: any of their outcomes may come *)
(* for any message.                                                        *)
(***************************************************************************)
EXTENDS InboundQueues

\* The agent is done with its message for now.
NextMessage == pc' = "poll" /\ hand' = NoMsg

Leaves(why) == gone' = gone \cup {Left(hand, why)}

TurnAside == <<senders, ghosts, overtaken, crashes>>
NoSlot == <<store, faults>>

\* A lane job goes to the detached work store (or is lost when that fails)
\* without touching the count of user messages.
AdoptLaneJob ==
  /\ pc = "taken" /\ hand \in LaneMsgs
  /\ Leaves("handled") /\ NextMessage
  /\ UNCHANGED <<TurnAside, NoSlot, queues, delayed, consecutive, tables>>

\* The tables forget what is older than five minutes, at any message for
\* which the collection is due.
Begin ==
  /\ pc = "taken"
  /\ consecutive' = IF hand \in SystemMsgs THEN 0 ELSE Up(consecutive, MaxConsecutive)
  /\ \E old \in {{}, Keys} :
       /\ deferCount' = [k \in Keys |-> IF k \in old THEN 0 ELSE deferCount[k]]
       /\ failures' = [k \in Keys |-> IF k \in old THEN 0 ELSE failures[k]]
  /\ pc' = "admit"
  /\ UNCHANGED <<TurnAside, NoSlot, queues, delayed, hand, gone>>

Exhausted == failures[KeyOf(hand)] >= MaxFailures

\* The maintenance reply instead of a turn.
MaintenanceReply ==
  /\ pc = "admit" /\ Exhausted
  /\ Leaves("handled") /\ NextMessage
  /\ UNCHANGED <<TurnAside, NoSlot, queues, delayed, consecutive, tables>>

Admitting == pc = "admit" /\ ~Exhausted

\* run_background_job_with_accounting: what becomes of the job is the detached
\* work store's affair.
RunLaneJob ==
  /\ Admitting /\ hand \in LaneMsgs
  /\ Leaves("handled") /\ NextMessage
  /\ UNCHANGED <<TurnAside, NoSlot, queues, delayed, consecutive, tables>>

\* should_accept_inbound rejects background work of low priority only.
Reject ==
  /\ Admitting /\ hand \in LowPriorityMsgs \ LaneMsgs
  /\ Leaves("dropped") /\ NextMessage
  /\ UNCHANGED <<TurnAside, NoSlot, queues, delayed, consecutive, tables>>

DefersAfter == Up(deferCount[KeyOf(hand)], MaxDefer)

\* Seeded fault: a user message is dropped at the limit as a system one is.
DropAtLimit ==
  /\ DefersAfter >= MaxDefer
  /\ deferCount' = [deferCount EXCEPT ![KeyOf(hand)] = 0]
  /\ Leaves("dropped")
  /\ UNCHANGED <<NoSlot, queues, delayed>>

\* A system message is dropped at the limit.
DeferDrops ==
  /\ hand \in SystemMsgs /\ DefersAfter >= MaxDefer
  /\ deferCount' = [deferCount EXCEPT ![KeyOf(hand)] = 0]
  /\ Leaves("dropped")
  /\ UNCHANGED <<NoSlot, queues, delayed>>

\* A user message is parked in the delayed queue, or saved when that is full.
DeferParks ==
  /\ hand \in UserMsgs /\ DefersAfter >= MaxDefer
  /\ deferCount' = [deferCount EXCEPT ![KeyOf(hand)] = DefersAfter]
  /\ \/ delayed' = delayed \cup {hand} /\ UNCHANGED <<NoSlot, gone>>
     \/ SaveSlot(hand) /\ UNCHANGED delayed
  /\ UNCHANGED queues

\* Below the limit a message goes back to the tail of its queue.
DeferRequeues ==
  /\ DefersAfter < MaxDefer
  /\ deferCount' = [deferCount EXCEPT ![KeyOf(hand)] = DefersAfter]
  /\ Requeue(hand)
  /\ UNCHANGED delayed

\* handle_admission_defer, for the admission, the LLM gate and the lease.
Defer ==
  /\ Admitting /\ hand \notin LaneMsgs
  /\ DeferDrops \/ DeferParks \/ DeferRequeues
  /\ NextMessage
  /\ UNCHANGED <<TurnAside, consecutive, failures>>

\* The LLM gate degrades: a system message tries again, uncounted; a user is
\* told to.
Degrade ==
  /\ Admitting /\ hand \notin LaneMsgs
  /\ \/ hand \in SystemMsgs /\ Requeue(hand)
     \/ hand \in UserMsgs /\ Leaves("handled") /\ UNCHANGED <<NoSlot, queues>>
  /\ NextMessage
  /\ UNCHANGED <<TurnAside, delayed, consecutive, tables>>

Admit ==
  /\ Admitting /\ hand \notin LaneMsgs
  /\ pc' = "work"
  /\ UNCHANGED <<TurnAside, NoSlot, queues, delayed, consecutive, tables, hand, gone>>

\* complete_turn: the tables forget the message.
Complete ==
  /\ pc = "work"
  /\ Leaves("handled")
  /\ deferCount' = [deferCount EXCEPT ![KeyOf(hand)] = 0]
  /\ failures' = [failures EXCEPT ![KeyOf(hand)] = 0]
  /\ NextMessage
  /\ UNCHANGED <<TurnAside, NoSlot, queues, delayed, consecutive>>

\* A reply that breaks its contract is not retried and not counted.
FailUncounted ==
  /\ pc = "work" /\ Leaves("handled") /\ NextMessage
  /\ UNCHANGED <<TurnAside, NoSlot, queues, delayed, consecutive, tables>>

FailuresAfter == Up(failures[KeyOf(hand)], MaxFailures)

\* Any other failure is counted, and retried when it may pass.
FailCounted ==
  /\ pc = "work"
  /\ failures' = [failures EXCEPT ![KeyOf(hand)] = FailuresAfter]
  /\ \/ FailuresAfter < MaxFailures /\ Requeue(hand)
     \/ Leaves("handled") /\ UNCHANGED <<NoSlot, queues>>
  /\ NextMessage
  /\ UNCHANGED <<TurnAside, delayed, consecutive, deferCount>>

Turn == \/ AdoptLaneJob \/ Begin \/ MaintenanceReply \/ RunLaneJob \/ Reject
        \/ Defer \/ Degrade \/ Admit \/ Complete \/ FailUncounted \/ FailCounted

-----------------------------------------------------------------------------
Volatile ==
  ingress \cup ToSet(userQ) \cup ToSet(systemQ) \cup delayed \cup ({hand} \ {NoMsg})

\* What the slot holds for the next boot.
InSlot(m) ==
  /\ store.file # Empty /\ store.file.msg = m
  /\ ~(store.loaded /\ store.entry = Empty)

\* The process ends and starts again, with the file of the slot alone.
Crash ==
  /\ crashes < MaxCrashes /\ crashes' = crashes + 1
  /\ gone' = gone \cup {Left(m, "crash") : m \in {x \in Volatile : ~InSlot(x)}}
  /\ store' = Fresh(store.file)
  /\ tries' = [m \in Msgs |-> 0] /\ ingress' = {}
  /\ userQ' = <<>> /\ systemQ' = <<>> /\ delayed' = {}
  /\ pc' = "boot" /\ hand' = NoMsg /\ consecutive' = 0
  /\ deferCount' = [k \in Keys |-> 0] /\ failures' = [k \in Keys |-> 0]
  /\ overtaken' = 0
  /\ UNCHANGED <<unsent, ghosts, faults>>

Agent == Boot \/ Poll \/ Turn

Next ==
  \/ Agent
  \/ Crash
  \/ \E m \in UserMsgs : Arrive(m) \/ IngressSends(m) \/ IngressFull(m) \/ IngressSaves(m)
  \/ \E m \in SystemMsgs : SystemSends(m)
  \/ \E m \in UserMsgs : DelayedRuns(m)

\* The agent's thread runs on: its waits and its turns have timeouts.
Spec == Init /\ [][Next]_vars /\ WF_vars(Agent)
=============================================================================
