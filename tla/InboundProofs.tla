--------------------------- MODULE InboundProofs ---------------------------
(***************************************************************************)
(* Theorems about the inbound path.  Each invariant is inductive with the  *)
(* parts of the state it needs:                                            *)
(*                                                                         *)
(*  PathInv   the slot (SlotInv: its types, and that nothing is loaded     *)
(*            before boot), the queues, the agent's hand and the senders;  *)
(*            the losses of users follow from it step by step;             *)
(*  ShareInv  the share of the system queue: the user messages that have   *)
(*            overtaken are among those the agent counts;                  *)
(*  PlaceInv  where each message is: the places of a message are counted   *)
(*            one by one, and each step changes the counts of the messages *)
(*            it moves and of no other.                                    *)
(***************************************************************************)
EXTENDS Inbound, SequenceTheorems, FiniteSetTheorems, TLAPS

-----------------------------------------------------------------------------
(* The slot and the queues.                                                *)
SlotTypes == [file : Entries \cup {Empty}, loaded : BOOLEAN, entry : Entries \cup {Empty}]

SlotInv ==
  /\ store \in SlotTypes
  /\ ~store.loaded => store.entry = Empty
  /\ pc = "boot" => ~store.loaded
  /\ pc = "clear" => store.entry # Empty
  /\ MirrorMatchesFile

QueueTypes ==
  /\ userQ \in Seq(UserMsgs) /\ Len(userQ) <= UserCap
  /\ systemQ \in Seq(SystemMsgs) /\ Len(systemQ) <= SystemCap

HandInv ==
  /\ pc \in {"boot", "clear", "poll", "user", "system", "wait", "taken", "admit", "work"}
  /\ hand \in Msgs \cup {NoMsg} /\ (hand # NoMsg <=> pc \in {"taken", "admit", "work"})
  /\ pc = "boot" => userQ = <<>> /\ systemQ = <<>>

SenderTypes == unsent \subseteq Msgs /\ ingress \subseteq UserMsgs /\ delayed \subseteq UserMsgs

PathInv == SlotInv /\ QueueTypes /\ HandInv /\ SenderTypes

LEMMA EmptyIsNoEntry ==
  ASSUME ReplayAssumption, InboundAssumption
  PROVE  /\ MaxReplay \in Nat \ {0} /\ Empty \notin Entries
         /\ \A e \in Entries : e.msg \in Msgs /\ e.count \in 1..MaxReplay
  BY DEF ReplayAssumption, InboundAssumption, Entries

LEMMA SaveTypes ==
  ASSUME ReplayAssumption, InboundAssumption, SlotInv, NEW m \in Msgs, NEW o \in Save(store, m)
  PROVE  /\ o.store \in SlotTypes
         /\ ~o.store.loaded => o.store.entry = Empty /\ ~store.loaded
         /\ o.store.loaded => (o.store.entry = o.store.file \/ o.store = store)
<1> USE EmptyIsNoEntry DEF SlotInv, SlotTypes
<1>1. CASE o \in ReadFailure(store) BY <1>1 DEF ReadFailure
<1>2. CASE o = [ok |-> FALSE, store |-> Loaded(store)] BY <1>2 DEF Loaded
<1>3. CASE o = [ok |-> TRUE, store |-> Holding(m, CountAfter(Loaded(store).entry))]
  <2>1. Loaded(store).entry \in Entries \cup {Empty} BY DEF Loaded
  <2>2. CountAfter(Loaded(store).entry) \in 1..MaxReplay BY <2>1 DEF CountAfter
  <2> QED BY <1>3, <2>2 DEF Holding, Entries
<1> QED BY <1>1, <1>2, <1>3 DEF Save

LEMMA SlotKept ==
  ASSUME ReplayAssumption, InboundAssumption, SlotInv, NEW m \in Msgs, SaveSlot(m),
         pc' \notin {"boot", "clear"}
  PROVE  SlotInv'
<1>1. PICK o \in Save(store, m) : store' = o.store BY DEF SaveSlot, Outcome
<1> QED BY <1>1, SaveTypes DEF SlotInv, MirrorMatchesFile

LEMMA RequeueKeepsSlot ==
  ASSUME ReplayAssumption, InboundAssumption, SlotInv, NEW m \in Msgs, Requeue(m),
         pc' \notin {"boot", "clear"}
  PROVE  SlotInv'
<1>1. CASE UNCHANGED store BY <1>1 DEF SlotInv, MirrorMatchesFile
<1>2. CASE SaveSlot(m) BY <1>2, SlotKept
<1> QED BY <1>1, <1>2 DEF Requeue

\* A step that leaves the slot alone and does not lead into the boot.
LEMMA SlotUntouched ==
  ASSUME SlotInv, UNCHANGED store, pc' \in {"boot", "clear"} => pc' = pc
  PROVE  SlotInv'
  BY DEF SlotInv, MirrorMatchesFile

\* The slot after its mirror was emptied.
Emptied(file) == [file |-> file, loaded |-> TRUE, entry |-> Empty]

LEMMA EmptiedTypes ==
  ASSUME NEW file \in Entries \cup {Empty}
  PROVE  Emptied(file) \in SlotTypes
  BY DEF Emptied, SlotTypes

LEMMA ClearOutcomes ==
  ASSUME NEW s, NEW o \in Clear(s)
  PROVE  o.store = Emptied(Empty) \/ o.store = s
<1>1. CASE o = [ok |-> TRUE, store |-> Emptied(Empty)] BY <1>1
<1>2. CASE o = [ok |-> FALSE, store |-> s] BY <1>2
<1> QED BY <1>1, <1>2 DEF Clear, Emptied

LEMMA DiscardOutcomes ==
  ASSUME NEW s, NEW o \in Discard(s)
  PROVE  o.store = Emptied(Empty) \/ o.store = Emptied(s.file)
<1>1. CASE o = [ok |-> TRUE, store |-> Emptied(Empty)] BY <1>1
<1>2. CASE o = [ok |-> FALSE, store |-> Emptied(s.file)] BY <1>2
<1> QED BY <1>1, <1>2 DEF Discard, Emptied

LEMMA SlotStep ==
  ASSUME ReplayAssumption, InboundAssumption, PathInv, [Next]_vars
  PROVE  SlotInv'
<1> USE EmptyIsNoEntry
<1>0. SlotInv /\ HandInv /\ SenderTypes BY DEF PathInv
<1>1. CASE UNCHANGED vars BY <1>0, <1>1, SlotUntouched DEF vars
<1>2. CASE Boot
  <2>1. CASE BootUnreadable
    BY <2>1, <1>0 DEF BootUnreadable, ReadFailure, Outcome, SlotInv, MirrorMatchesFile
  <2>2. CASE BootNothing
    BY <2>2, <1>0 DEF BootNothing, Loaded, SlotInv, SlotTypes, MirrorMatchesFile
  <2>3. CASE BootDiscard
    <3>1. store.file \in Entries /\ store.file.count = MaxReplay /\ pc' = "poll"
      BY <2>3, <1>0 DEF BootDiscard, CountedOut, Loaded, SlotInv, SlotTypes
    <3>2. store' = Emptied(Empty) \/ store' = Emptied(store.file)
      BY <2>3, DiscardOutcomes DEF BootDiscard, Outcome
    <3>3. store' \in SlotTypes BY <3>1, <3>2, EmptiedTypes
    <3> QED BY <3>1, <3>2, <3>3 DEF Emptied, SlotInv, MirrorMatchesFile
  <2>4. CASE BootDropStale
    <3>1. store' = Emptied(Empty) \/ store' = Loaded(store)
      BY <2>4, ClearOutcomes DEF BootDropStale, Outcome
    <3>2. pc' = "poll" BY <2>4 DEF BootDropStale
    <3>3. Loaded(store) \in SlotTypes BY <1>0 DEF Loaded, SlotInv, SlotTypes
    <3>4. store' \in SlotTypes BY <3>1, <3>3, EmptiedTypes
    <3> QED BY <3>1, <3>2, <3>4, <1>0 DEF Emptied, Loaded, SlotInv, MirrorMatchesFile
  <2>5. CASE BootReplay
    <3>1. /\ store' = Loaded(store) /\ Loaded(store).entry # Empty
          /\ pc = "boot" /\ pc' = "clear"
      BY <2>5 DEF BootReplay, Replayable
    <3>2. Loaded(store) = [file |-> store.file, loaded |-> TRUE, entry |-> store.file]
      BY <3>1, <1>0 DEF Loaded, SlotInv
    <3>3. store' \in SlotTypes BY <3>1, <3>2, <1>0 DEF SlotInv, SlotTypes
    <3> QED BY <3>1, <3>2, <3>3 DEF SlotInv, MirrorMatchesFile
  <2>6. CASE BootClear
    <3>1. store' = Emptied(Empty) \/ store' = store
      BY <2>6, ClearOutcomes DEF BootClear, Outcome
    <3>2. pc' = "poll" BY <2>6 DEF BootClear
    <3>3. store' \in SlotTypes BY <3>1, <1>0, EmptiedTypes DEF SlotInv
    <3>4. MirrorMatchesFile' BY <3>1, <1>0 DEF Emptied, SlotInv, MirrorMatchesFile
    <3>5. ~store'.loaded => store'.entry = Empty BY <3>1, <1>0 DEF Emptied, SlotInv
    <3> QED BY <3>3, <3>4, <3>2, <3>5 DEF SlotInv
  <2> QED BY <1>2, <2>1, <2>2, <2>3, <2>4, <2>5, <2>6 DEF Boot
<1>3. CASE Poll
  BY <1>3, <1>0, SlotUntouched
     DEF Poll, PollPreferred, PollUser, PollSystem, WaitUser, Elsewhere, TakeUser, TakeSystem, GoOn
<1>4. CASE Turn
  <2>1. CASE AdoptLaneJob \/ Begin \/ MaintenanceReply \/ RunLaneJob \/ Reject \/ Admit
             \/ Complete \/ FailUncounted
    BY <2>1, <1>0, SlotUntouched
       DEF AdoptLaneJob, Begin, MaintenanceReply, RunLaneJob, Reject, Admit, Complete,
           FailUncounted, NoSlot, NextMessage
  <2>2. ASSUME pc \in {"admit", "work"} PROVE hand \in Msgs
    BY <2>2, <1>0, InboundAssumption DEF HandInv
  <2>3. CASE Defer
    <3>1. pc' = "poll" /\ hand \in Msgs
      BY <2>2, <2>3 DEF Defer, Admitting, NextMessage
    <3>2. CASE DeferDrops \/ (DeferParks /\ UNCHANGED store)
      BY <3>1, <3>2, <1>0, SlotUntouched DEF DeferDrops, NoSlot
    <3>3. CASE DeferParks /\ ~UNCHANGED store
      BY <3>1, <3>3, <1>0, SlotKept DEF DeferParks, NoSlot
    <3>4. CASE DeferRequeues
      BY <3>1, <3>4, <1>0, RequeueKeepsSlot DEF DeferRequeues
    <3> QED BY <2>3, <3>2, <3>3, <3>4 DEF Defer
  <2>4. CASE Degrade \/ FailCounted
    <3>1. pc' = "poll" /\ hand \in Msgs
      BY <2>2, <2>4 DEF Degrade, FailCounted, Admitting, NextMessage
    <3> QED BY <3>1, <2>4, <1>0, RequeueKeepsSlot, SlotUntouched DEF Degrade, FailCounted, NoSlot
  <2> QED BY <1>4, <2>1, <2>3, <2>4 DEF Turn
<1>5. CASE Crash
  BY <1>5, <1>0 DEF Crash, Fresh, SlotInv, SlotTypes, MirrorMatchesFile
<1>6. ASSUME NEW m \in UserMsgs,
             Arrive(m) \/ IngressSends(m) \/ IngressFull(m) \/ IngressSaves(m) \/ DelayedRuns(m)
      PROVE  SlotInv'
  <2>1. m \in Msgs BY DEF Msgs
  <2>2. CASE IngressSaves(m)
    BY <2>1, <2>2, <1>0, SlotKept DEF IngressSaves, Running
  <2> QED BY <2>2, <1>6, <1>0, SlotUntouched DEF Arrive, IngressSends, IngressFull, DelayedRuns
<1>7. ASSUME NEW m \in SystemMsgs, SystemSends(m)
      PROVE  SlotInv'
  BY <1>7, <1>0, SlotUntouched DEF SystemSends
<1> QED BY <1>1, <1>2, <1>3, <1>4, <1>5, <1>6, <1>7 DEF Next, Agent

LEMMA EnqueueTypes ==
  ASSUME InboundAssumption, QueueTypes, NEW m \in Msgs, Room(m), Enqueue(m)
  PROVE  QueueTypes'
<1>1. CASE m \in UserMsgs
  <2>1. userQ' = Append(userQ, m) /\ systemQ' = systemQ BY <1>1 DEF Enqueue
  <2>2. userQ' \in Seq(UserMsgs) /\ Len(userQ') = Len(userQ) + 1
    BY <1>1, <2>1, AppendProperties DEF QueueTypes
  <2> QED BY <1>1, <2>1, <2>2, InboundAssumption, LenProperties DEF QueueTypes, Room, InboundAssumption
<1>2. CASE m \notin UserMsgs
  <2>1. systemQ' = Append(systemQ, m) /\ userQ' = userQ BY <1>2 DEF Enqueue
  <2>2. systemQ' \in Seq(SystemMsgs) /\ Len(systemQ') = Len(systemQ) + 1
    BY <1>2, <2>1, AppendProperties DEF QueueTypes, Msgs
  <2> QED BY <1>2, <2>1, <2>2, InboundAssumption, LenProperties DEF QueueTypes, Room, InboundAssumption
<1> QED BY <1>1, <1>2

LEMMA TakeUserTypes ==
  ASSUME InboundAssumption, QueueTypes, TakeUser
  PROVE  QueueTypes' /\ pc' = "taken" /\ hand' \in UserMsgs
<1>1. userQ \in Seq(UserMsgs) /\ userQ # <<>> BY DEF TakeUser, QueueTypes
<1>2. /\ Head(userQ) \in UserMsgs /\ Tail(userQ) \in Seq(UserMsgs)
      /\ Len(Tail(userQ)) = Len(userQ) - 1 /\ Len(userQ) \in Nat
  BY <1>1, HeadTailProperties, LenProperties
<1>3. Len(Tail(userQ)) <= UserCap
  BY <1>2, InboundAssumption DEF QueueTypes, InboundAssumption
<1> QED BY <1>2, <1>3 DEF TakeUser, QueueTypes

LEMMA TakeSystemTypes ==
  ASSUME InboundAssumption, QueueTypes, TakeSystem
  PROVE  QueueTypes' /\ pc' = "taken" /\ hand' \in SystemMsgs
<1>1. systemQ \in Seq(SystemMsgs) /\ systemQ # <<>> BY DEF TakeSystem, QueueTypes
<1>2. /\ Head(systemQ) \in SystemMsgs /\ Tail(systemQ) \in Seq(SystemMsgs)
      /\ Len(Tail(systemQ)) = Len(systemQ) - 1 /\ Len(systemQ) \in Nat
  BY <1>1, HeadTailProperties, LenProperties
<1>3. Len(Tail(systemQ)) <= SystemCap
  BY <1>2, InboundAssumption DEF QueueTypes, InboundAssumption
<1> QED BY <1>2, <1>3 DEF TakeSystem, QueueTypes

LEMMA QueuesUntouched ==
  ASSUME QueueTypes, UNCHANGED queues
  PROVE  QueueTypes'
  BY DEF QueueTypes, queues

LEMMA RequeueTypes ==
  ASSUME InboundAssumption, QueueTypes, NEW m \in Msgs, Requeue(m)
  PROVE  QueueTypes'
  BY EnqueueTypes, QueuesUntouched DEF Requeue

LEMMA QueueStep ==
  ASSUME ReplayAssumption, InboundAssumption, PathInv, [Next]_vars
  PROVE  QueueTypes'
<1>0. QueueTypes /\ HandInv /\ SlotInv BY DEF PathInv
<1> USE QueuesUntouched, <1>0
<1>1. CASE UNCHANGED vars BY <1>1 DEF vars
<1>2. CASE Boot
  <2>1. CASE BootReplay
    <3>1. store.file.msg \in Msgs
      BY <2>1, EmptyIsNoEntry DEF BootReplay, Replayable, Loaded, SlotInv, SlotTypes
    <3>2. Len(userQ) = 0 /\ Len(systemQ) = 0
      BY <2>1 DEF BootReplay, HandInv
    <3>3. Room(store.file.msg)
      BY <3>2, InboundAssumption DEF Room, InboundAssumption
    <3> QED BY <2>1, <3>1, <3>3, EnqueueTypes DEF BootReplay
  <2> QED BY <1>2, <2>1
          DEF Boot, BootUnreadable, BootNothing, BootDiscard, BootDropStale, BootClear
<1>3. CASE Poll
  BY <1>3, TakeUserTypes, TakeSystemTypes
     DEF Poll, PollPreferred, PollUser, PollSystem, WaitUser, GoOn
<1>4. CASE Turn
  <2>1. ASSUME pc \in {"admit", "work"} PROVE hand \in Msgs
    BY <2>1, InboundAssumption DEF HandInv
  <2>2. CASE AdoptLaneJob \/ Begin \/ MaintenanceReply \/ RunLaneJob \/ Reject \/ Admit
             \/ Complete \/ FailUncounted
    BY <2>2 DEF AdoptLaneJob, Begin, MaintenanceReply, RunLaneJob, Reject, Admit,
                Complete, FailUncounted
  <2>3. CASE Defer \/ Degrade \/ FailCounted
    <3>1. hand \in Msgs BY <2>1, <2>3 DEF Defer, Degrade, FailCounted, Admitting
    <3> QED BY <3>1, <2>3, RequeueTypes
            DEF Defer, DeferDrops, DeferParks, DeferRequeues, Degrade, FailCounted
  <2> QED BY <1>4, <2>2, <2>3 DEF Turn
<1>5. CASE Crash
  <2>1. Len(<<>>) = 0 /\ <<>> \in Seq(UserMsgs) /\ <<>> \in Seq(SystemMsgs)
    BY EmptySeq
  <2> QED BY <1>5, <2>1, InboundAssumption DEF Crash, QueueTypes, InboundAssumption
<1>6. ASSUME NEW m \in UserMsgs,
             Arrive(m) \/ IngressSends(m) \/ IngressFull(m) \/ IngressSaves(m) \/ DelayedRuns(m)
      PROVE  QueueTypes'
  <2>1. m \in Msgs BY DEF Msgs
  <2> QED BY <2>1, <1>6, EnqueueTypes
          DEF Arrive, IngressSends, IngressFull, IngressSaves, DelayedRuns
<1>7. ASSUME NEW m \in SystemMsgs, SystemSends(m)
      PROVE  QueueTypes'
  <2>1. m \in Msgs BY DEF Msgs
  <2> QED BY <2>1, <1>7, EnqueueTypes DEF SystemSends
<1> QED BY <1>1, <1>2, <1>3, <1>4, <1>5, <1>6, <1>7 DEF Next, Agent

LEMMA HandStep ==
  ASSUME ReplayAssumption, InboundAssumption, PathInv, [Next]_vars
  PROVE  HandInv'
<1>0. QueueTypes /\ HandInv BY DEF PathInv
<1> USE <1>0, InboundAssumption DEF HandInv
<1>1. CASE UNCHANGED vars BY <1>1 DEF vars, queues
<1>2. CASE Boot
  BY <1>2 DEF Boot, BootUnreadable, BootNothing, BootDiscard, BootDropStale, BootReplay, BootClear
<1>3. CASE Poll
  <2>1. CASE TakeUser \/ TakeSystem
    <3>1. pc' = "taken" /\ hand' \in Msgs
      BY <2>1, TakeUserTypes, TakeSystemTypes DEF Msgs
    <3> QED BY <3>1 DEF InboundAssumption
  <2>2. ASSUME NEW next \in {"poll", "user", "system", "wait"}, GoOn(next),
               pc \in {"poll", "user", "system", "wait"}
        PROVE  HandInv'
    BY <2>2 DEF GoOn
  <2> QED BY <1>3, <2>1, <2>2 DEF Poll, PollPreferred, PollUser, PollSystem, WaitUser
<1>4. CASE Turn
  <2>1. CASE Begin \/ Admit
    BY <2>1 DEF Begin, Admit, Admitting
  <2>2. NextMessage => HandInv' BY DEF NextMessage
  <2> QED BY <1>4, <2>1, <2>2
          DEF Turn, AdoptLaneJob, MaintenanceReply, RunLaneJob, Reject, Defer, Degrade,
              Complete, FailUncounted, FailCounted
<1>5. CASE Crash
  BY <1>5 DEF Crash
<1>6. ASSUME NEW m \in Msgs,
             \/ Arrive(m) \/ IngressSends(m) \/ IngressFull(m) \/ IngressSaves(m)
             \/ DelayedRuns(m) \/ SystemSends(m)
      PROVE  HandInv'
  <2>1. pc' = pc /\ hand' = hand /\ pc # "boot"
    BY <1>6 DEF Running, Arrive, IngressSends, IngressFull, IngressSaves, DelayedRuns, SystemSends
  <2> QED BY <2>1
<1> QED BY <1>1, <1>2, <1>3, <1>4, <1>5, <1>6 DEF Next, Agent, Msgs

LEMMA SenderStep ==
  ASSUME InboundAssumption, PathInv, [Next]_vars
  PROVE  SenderTypes'
<1>0. HandInv /\ SenderTypes BY DEF PathInv
<1> USE <1>0 DEF SenderTypes
<1>1. CASE UNCHANGED <<senders, delayed>> BY <1>1 DEF senders
<1>2. CASE Boot
  BY <1>1, <1>2
     DEF Boot, BootUnreadable, BootNothing, BootDiscard, BootDropStale, BootReplay, BootClear
<1>3. CASE Poll
  BY <1>1, <1>3 DEF Poll, PollPreferred, PollUser, PollSystem, WaitUser, Elsewhere
<1>4. CASE Turn
  <2>1. UNCHANGED senders
    BY <1>4 DEF Turn, AdoptLaneJob, Begin, MaintenanceReply, RunLaneJob, Reject, Defer, Degrade,
                Admit, Complete, FailUncounted, FailCounted, TurnAside
  <2>2. CASE Defer
    <3>1. CASE delayed' = delayed \cup {hand} /\ hand \in UserMsgs
      BY <2>1, <3>1 DEF senders
    <3>2. CASE UNCHANGED delayed BY <1>1, <2>1, <3>2
    <3> QED BY <2>2, <3>1, <3>2 DEF Defer, DeferDrops, DeferParks, DeferRequeues
  <2>3. CASE UNCHANGED delayed BY <1>1, <2>1, <2>3
  <2> QED BY <1>4, <2>2, <2>3
          DEF Turn, AdoptLaneJob, Begin, MaintenanceReply, RunLaneJob, Reject, Degrade,
              Admit, Complete, FailUncounted, FailCounted
<1>5. CASE Crash BY <1>5 DEF Crash
<1>6. ASSUME NEW m \in UserMsgs,
             Arrive(m) \/ IngressSends(m) \/ IngressFull(m) \/ IngressSaves(m) \/ DelayedRuns(m)
      PROVE  SenderTypes'
  BY <1>6 DEF Arrive, IngressSends, IngressFull, IngressSaves, DelayedRuns, LetGo, senders
<1>7. ASSUME NEW m \in SystemMsgs, SystemSends(m)
      PROVE  SenderTypes'
  BY <1>7 DEF SystemSends
<1>8. CASE UNCHANGED vars BY <1>1, <1>8 DEF vars
<1> QED BY <1>2, <1>3, <1>4, <1>5, <1>6, <1>7, <1>8 DEF Next, Agent

LEMMA PathInit ==
  ASSUME ReplayAssumption, InboundAssumption, Init
  PROVE  PathInv
<1>1. SlotInv BY EmptyIsNoEntry DEF Init, Fresh, SlotInv, SlotTypes, MirrorMatchesFile
<1>2. QueueTypes
  BY InboundAssumption, EmptySeq DEF Init, QueueTypes, InboundAssumption
<1>3. HandInv /\ SenderTypes BY DEF Init, HandInv, SenderTypes
<1> QED BY <1>1, <1>2, <1>3 DEF PathInv

LEMMA PathCorrect == Spec => []PathInv
<1>1. Init => PathInv BY PathInit, ReplayAssumption, InboundAssumption
<1>2. PathInv /\ [Next]_vars => PathInv'
  BY SlotStep, QueueStep, HandStep, SenderStep, ReplayAssumption, InboundAssumption DEF PathInv
<1> QED BY <1>1, <1>2, PTL DEF Spec

\* The mirror of the slot never promises what its file does not hold
\* (save_pending_retry, load_pending_retry and clear_pending_retry).
THEOREM MirrorCorrect == Spec => []MirrorMatchesFile
<1>1. PathInv => MirrorMatchesFile BY DEF PathInv, SlotInv
<1> QED BY <1>1, PathCorrect, PTL

-----------------------------------------------------------------------------
(* The losses of users.                                                    *)
Explains == \A l \in gone' \ gone : l.msg \in UserMsgs => Explained(l)

\* What the mirror shows to a caller is what the file holds.
LEMMA EntryInSlot ==
  ASSUME SlotInv, Loaded(store).entry # Empty
  PROVE  InSlot(Loaded(store).entry.msg) /\ Loaded(store).entry = store.file
BY DEF SlotInv, MirrorMatchesFile, Loaded, InSlot

LEMMA SlotLosses ==
  ASSUME ReplayAssumption, InboundAssumption, SlotInv,
         NEW m \in Msgs, m \in ingress \cup {hand}, SaveSlot(m)
  PROVE  Explains
<1>1. PICK o \in Save(store, m) :
        /\ Outcome(o)
        /\ gone' = gone \cup (IF o.ok THEN Overwritten(m) ELSE {Left(m, "unsaved")})
  BY DEF SaveSlot
<1>2. CASE o.ok
  <2> SUFFICES ASSUME NEW l \in Overwritten(m) PROVE Explained(l)
    BY <1>1, <1>2 DEF Explains
  <2>1. /\ l = Left(Loaded(store).entry.msg, "overwritten")
        /\ Loaded(store).entry # Empty /\ Loaded(store).entry.msg # m
    BY DEF Overwritten
  <2>2. store'.file = [msg |-> m, count |-> CountAfter(Loaded(store).entry)]
    BY <1>1, <1>2 DEF Save, ReadFailure, Outcome, Holding
  <2>3. CountAfter(Loaded(store).entry) \in 1..MaxReplay
    <3>1. Loaded(store).entry \in Entries BY <2>1, SlotInv DEF Loaded, SlotInv, SlotTypes
    <3> QED BY <2>1, <3>1, EmptyIsNoEntry DEF CountAfter
  <2>4. store'.file # Empty /\ store'.file.msg = m
    BY <2>2, <2>3, EmptyIsNoEntry DEF Entries
  <2> QED BY <2>1, <2>4, EntryInSlot DEF Explained, Left
<1>3. CASE ~o.ok BY <1>1, <1>3 DEF Explains, Explained, Outcome, Left
<1> QED BY <1>2, <1>3

LEMMA LossStep ==
  ASSUME ReplayAssumption, InboundAssumption, PathInv, [Next]_vars
  PROVE  Explains
<1>0. SlotInv /\ HandInv /\ SenderTypes BY DEF PathInv
<1>1. CASE gone' = gone BY <1>1 DEF Explains
<1>2. CASE BootDiscard
  <2>1. CountedOut(store) /\ gone' = gone \cup {Left(store.file.msg, "discarded")}
    BY <1>2 DEF BootDiscard
  <2>2. InSlot(store.file.msg) /\ store.file \in Entries /\ store.file.count >= MaxReplay
    BY <1>0, <2>1, EntryInSlot DEF CountedOut, SlotInv, SlotTypes
  <2>3. store.file.count = MaxReplay BY <2>2, EmptyIsNoEntry
  <2> QED BY <2>1, <2>2, <2>3 DEF Explains, Explained, Left
<1>3. CASE BootDropStale
  <2>1. /\ Loaded(store).entry # Empty /\ store.file.msg \in PassiveMsgs
        /\ gone' = gone \cup {Left(store.file.msg, "stale")}
    BY <1>3 DEF BootDropStale, Replayable
  <2> QED BY <1>0, <2>1, EntryInSlot DEF Explains, Explained, Left
<1>4. CASE Crash BY <1>4 DEF Crash, Explains, Explained, Left
<1>5. ASSUME pc \in {"taken", "admit", "work"} PROVE hand \in Msgs
  BY <1>0, <1>5, InboundAssumption DEF HandInv
<1>6. CASE AdoptLaneJob \/ MaintenanceReply \/ RunLaneJob \/ Complete \/ FailUncounted
           \/ Leaves("handled")
  BY <1>6 DEF AdoptLaneJob, MaintenanceReply, RunLaneJob, Complete, FailUncounted, Leaves,
              Left, Explains, Explained
<1>7. ASSUME Leaves("dropped"), hand \in SystemMsgs PROVE Explains
  BY <1>7, InboundAssumption DEF InboundAssumption, Leaves, Left, Explains
<1>8. CASE Reject BY <1>7, <1>8, InboundAssumption DEF Reject, InboundAssumption
<1>9. ASSUME NEW m \in Msgs, m \in ingress \cup {hand}, Requeue(m) \/ SaveSlot(m)
      PROVE  Explains
  BY <1>0, <1>1, <1>9, SlotLosses DEF Requeue
<1>10. CASE Defer \/ Degrade \/ FailCounted
  <2>1. hand \in Msgs BY <1>5, <1>10 DEF Defer, Degrade, FailCounted, Admitting
  <2>2. CASE DeferDrops BY <1>7, <2>2 DEF DeferDrops
  <2>3. CASE DeferParks BY <1>1, <1>9, <2>1, <2>3 DEF DeferParks
  <2>4. CASE DeferRequeues BY <1>9, <2>1, <2>4 DEF DeferRequeues
  <2>5. CASE Leaves("handled") \/ Requeue(hand) BY <1>6, <1>9, <2>1, <2>5
  <2> QED BY <1>10, <2>2, <2>3, <2>4, <2>5 DEF Defer, Degrade, FailCounted
<1>11. ASSUME NEW m \in UserMsgs, IngressSaves(m) PROVE Explains
  BY <1>9, <1>11 DEF IngressSaves, Msgs
<1>12. ASSUME NEW m \in UserMsgs, DelayedRuns(m) PROVE Explains
  BY <1>1, <1>12 DEF DelayedRuns, Left, Explains, Explained
<1>13. ASSUME NEW m \in SystemMsgs, SystemSends(m) PROVE Explains
  BY <1>1, <1>13, InboundAssumption DEF InboundAssumption, SystemSends, Left, Explains
<1>14. CASE Poll
  BY <1>1, <1>14 DEF Poll, PollPreferred, PollUser, PollSystem, WaitUser, Elsewhere
<1>15. CASE BootUnreadable \/ BootNothing \/ BootReplay \/ BootClear \/ Begin \/ Admit
  BY <1>1, <1>15 DEF BootUnreadable, BootNothing, BootReplay, BootClear, Begin, Admit
<1>16. ASSUME NEW m \in UserMsgs, Arrive(m) \/ IngressSends(m) \/ IngressFull(m)
       PROVE  Explains
  BY <1>1, <1>16 DEF Arrive, IngressSends, IngressFull
<1>17. CASE UNCHANGED vars BY <1>1, <1>17 DEF vars
<1> QED
  BY <1>2, <1>3, <1>4, <1>6, <1>8, <1>10, <1>11, <1>12, <1>13, <1>14, <1>15, <1>16, <1>17
     DEF Next, Agent, Boot, Turn

\* A message of a user ends only with the agent or for a stated reason, and
\* what the slot holds survives the process (handle_admission_defer,
\* handle_admission_reject, save_pending_retry).
THEOREM LossCorrect == Spec => UserLossExplained
<1>1. PathInv /\ [Next]_vars => [\A l \in gone' \ gone : l.msg \in UserMsgs => Explained(l)]_vars
  BY LossStep, ReplayAssumption, InboundAssumption DEF Explains
<1> QED BY <1>1, PathCorrect, PTL DEF Spec, UserLossExplained

-----------------------------------------------------------------------------
(* The share of the system queue.                                          *)
ShareTypes == overtaken \in Nat /\ consecutive \in 0..MaxConsecutive

\* Outside the step between taking a message and counting it, the users that
\* have overtaken are all counted; while the agent looks past the preferred
\* look with a full count, nobody has overtaken the message it did not see.
Counted ==
  /\ systemQ = <<>> => overtaken = 0
  /\ pc # "taken" => overtaken <= consecutive
  /\ pc = "taken" /\ hand \in UserMsgs => overtaken <= consecutive + 1
  /\ pc = "taken" /\ hand \in SystemMsgs => overtaken = 0
  /\ pc \in {"user", "system", "wait"} /\ consecutive = MaxConsecutive => overtaken = 0

ShareInv == ShareTypes /\ Counted /\ SystemOvertakenBounded

\* A step that lets the system queue grow and ends with the counted message
\* still counted.
LEMMA ShareKept ==
  ASSUME ShareInv, UNCHANGED <<consecutive, overtaken>>,
         systemQ' = <<>> => systemQ = <<>>,
         \/ UNCHANGED <<pc, hand>>
         \/ pc # "taken" /\ pc' \in {"poll", "clear", "admit", "work"}
         \/ hand \in SystemMsgs /\ pc = "taken" /\ pc' = "poll" /\ UNCHANGED systemQ
  PROVE  ShareInv'
  BY DEF ShareInv, ShareTypes, Counted, SystemOvertakenBounded

LEMMA EnqueueGrows ==
  ASSUME QueueTypes, NEW m \in Msgs, Enqueue(m)
  PROVE  systemQ' = <<>> => systemQ = <<>>
<1>1. ASSUME m \in SystemMsgs PROVE Append(systemQ, m) # <<>>
  BY <1>1, AppendProperties DEF QueueTypes
<1> QED BY <1>1 DEF Enqueue, Msgs

LEMMA RequeueGrows ==
  ASSUME QueueTypes, NEW m \in Msgs, Requeue(m)
  PROVE  systemQ' = <<>> => systemQ = <<>>
  BY EnqueueGrows DEF Requeue, queues

LEMMA ShareTakesUser ==
  ASSUME InboundAssumption, ShareInv, QueueTypes, TakeUser, pc \in {"user", "wait"}
  PROVE  ShareInv'
<1>1. pc' = "taken" /\ hand' \in UserMsgs BY TakeUserTypes
<1>2. MaxConsecutive \in Nat \ {0} /\ UserMsgs \cap SystemMsgs = {}
  BY InboundAssumption DEF InboundAssumption
<1>3. overtaken' = IF systemQ = <<>> THEN 0 ELSE overtaken + 1
  <2>1. overtaken < MaxConsecutive + 1
    BY <1>2 DEF ShareInv, ShareTypes, SystemOvertakenBounded
  <2> QED BY <2>1 DEF TakeUser, Up
<1>4. overtaken' <= consecutive + 1 /\ overtaken' <= MaxConsecutive /\ overtaken' \in Nat
  BY <1>2, <1>3 DEF ShareInv, ShareTypes, Counted
<1>5. systemQ' = systemQ /\ consecutive' = consecutive BY DEF TakeUser
<1> QED BY <1>1, <1>2, <1>3, <1>4, <1>5
        DEF ShareInv, ShareTypes, Counted, SystemOvertakenBounded

LEMMA ShareTakesSystem ==
  ASSUME InboundAssumption, ShareInv, QueueTypes, TakeSystem
  PROVE  ShareInv'
<1>1. pc' = "taken" /\ overtaken' = 0 /\ consecutive' = consecutive
  BY DEF TakeSystem
<1>2. MaxConsecutive \in Nat BY InboundAssumption DEF InboundAssumption
<1> QED BY <1>1, <1>2 DEF ShareInv, ShareTypes, Counted, SystemOvertakenBounded

LEMMA ShareStep ==
  ASSUME ReplayAssumption, InboundAssumption, PathInv, ShareInv, [Next]_vars
  PROVE  ShareInv'
<1>0. QueueTypes /\ HandInv /\ SlotInv BY DEF PathInv
<1>1. CASE UNCHANGED vars BY <1>1, ShareKept DEF vars, queues
<1>2. CASE Boot
  <2>1. UNCHANGED <<consecutive, overtaken>> /\ pc # "taken" /\ pc' \in {"poll", "clear"}
    BY <1>2 DEF Boot, BootUnreadable, BootNothing, BootDiscard, BootDropStale, BootReplay, BootClear
  <2>2. CASE BootReplay
    <3>1. store.file.msg \in Msgs
      BY <2>2, <1>0, EmptyIsNoEntry DEF BootReplay, Replayable, Loaded, SlotInv, SlotTypes
    <3>2. systemQ' = <<>> => systemQ = <<>>
      BY <2>2, <3>1, <1>0, EnqueueGrows DEF BootReplay
    <3> QED BY <2>1, <3>2, ShareKept
  <2>3. CASE UNCHANGED queues BY <2>1, <2>3, ShareKept DEF queues
  <2> QED BY <1>2, <2>2, <2>3
          DEF Boot, BootUnreadable, BootNothing, BootDiscard, BootDropStale, BootClear
<1>3. CASE Poll
  <2>1. CASE TakeSystem BY <2>1, <1>0, ShareTakesSystem
  <2>2. CASE TakeUser /\ pc \in {"user", "wait"} BY <2>2, <1>0, ShareTakesUser
  <2>3. CASE pc = "poll" /\ (PrefersSystem => systemQ = <<>>) /\ GoOn("user")
    BY <2>3, InboundAssumption
       DEF PrefersSystem, GoOn, queues, ShareInv, ShareTypes, Counted, SystemOvertakenBounded,
           InboundAssumption
  <2>4. ASSUME NEW next \in {"poll", "system", "wait"}, GoOn(next), pc \in {"user", "system", "wait"}
        PROVE  ShareInv'
    BY <2>4 DEF GoOn, queues, ShareInv, ShareTypes, Counted, SystemOvertakenBounded
  <2> QED BY <1>3, <2>1, <2>2, <2>3, <2>4 DEF Poll, PollPreferred, PollUser, PollSystem, WaitUser
<1>4. CASE Turn
  <2>1. CASE AdoptLaneJob
    <3>1. /\ hand \in SystemMsgs /\ pc = "taken" /\ pc' = "poll"
          /\ UNCHANGED <<systemQ, consecutive, overtaken>>
      BY <2>1, InboundAssumption DEF AdoptLaneJob, NextMessage, TurnAside, queues, InboundAssumption
    <3> QED BY <3>1, ShareKept
  <2>2. CASE Begin
    <3>1. /\ pc = "taken" /\ pc' = "admit" /\ UNCHANGED <<systemQ, overtaken>>
          /\ consecutive' = IF hand \in SystemMsgs THEN 0 ELSE Up(consecutive, MaxConsecutive)
      BY <2>2 DEF Begin, TurnAside, queues
    <3>2. hand \in UserMsgs \cup SystemMsgs BY <3>1, <1>0, InboundAssumption DEF HandInv, Msgs
    <3>3. MaxConsecutive \in Nat /\ UserMsgs \cap SystemMsgs = {}
      BY InboundAssumption DEF InboundAssumption
    <3> QED BY <3>1, <3>2, <3>3
            DEF Up, ShareInv, ShareTypes, Counted, SystemOvertakenBounded
  <2>3. CASE MaintenanceReply \/ RunLaneJob \/ Reject \/ Admit \/ Complete \/ FailUncounted
    <3>1. /\ pc # "taken" /\ pc' \in {"poll", "work"}
          /\ UNCHANGED <<systemQ, consecutive, overtaken>>
      BY <2>3 DEF MaintenanceReply, RunLaneJob, Reject, Admit, Complete, FailUncounted,
                  Admitting, NextMessage, TurnAside, queues
    <3> QED BY <3>1, ShareKept
  <2>4. CASE Defer \/ Degrade \/ FailCounted
    <3>1. /\ pc \in {"admit", "work"} /\ pc' = "poll"
          /\ UNCHANGED <<consecutive, overtaken>>
      BY <2>4 DEF Defer, Degrade, FailCounted, Admitting, NextMessage, TurnAside
    <3>2. hand \in Msgs BY <3>1, <1>0, InboundAssumption DEF HandInv
    <3>3. Requeue(hand) \/ UNCHANGED queues
      BY <2>4 DEF Defer, DeferDrops, DeferParks, DeferRequeues, Degrade, FailCounted
    <3>4. systemQ' = <<>> => systemQ = <<>>
      BY <3>2, <3>3, <1>0, RequeueGrows DEF queues
    <3> QED BY <3>1, <3>4, ShareKept
  <2> QED BY <1>4, <2>1, <2>2, <2>3, <2>4 DEF Turn
<1>5. CASE Crash
  BY <1>5, InboundAssumption
     DEF Crash, ShareInv, ShareTypes, Counted, SystemOvertakenBounded, InboundAssumption
<1>6. ASSUME NEW m \in Msgs,
             \/ Arrive(m) \/ IngressSends(m) \/ IngressFull(m) \/ IngressSaves(m)
             \/ DelayedRuns(m) \/ SystemSends(m)
      PROVE  ShareInv'
  <2>1. UNCHANGED <<pc, hand, consecutive, overtaken>>
    BY <1>6 DEF Arrive, IngressSends, IngressFull, IngressSaves, DelayedRuns, SystemSends
  <2>2. Enqueue(m) \/ UNCHANGED queues
    BY <1>6 DEF Arrive, IngressSends, IngressFull, IngressSaves, DelayedRuns, SystemSends
  <2> QED BY <2>1, <2>2, <1>0, EnqueueGrows, ShareKept DEF queues
<1> QED BY <1>1, <1>2, <1>3, <1>4, <1>5, <1>6 DEF Next, Agent, Msgs

\* At most MaxConsecutive user messages are taken while a system message
\* waits: a message that arrives behind the preferred look, and the lane jobs
\* that the loop adopts without counting, included (recv_next_agent_msg,
\* run_agent_loop_main).
THEOREM ShareCorrect == Spec => []SystemOvertakenBounded
<1>1. Init => ShareInv
  BY InboundAssumption
     DEF Init, ShareInv, ShareTypes, Counted, SystemOvertakenBounded, InboundAssumption
<1>2. PathInv /\ ShareInv /\ [Next]_vars => ShareInv'
  BY ShareStep, ReplayAssumption, InboundAssumption
<1>3. ShareInv => SystemOvertakenBounded BY DEF ShareInv
<1> QED BY <1>1, <1>2, <1>3, PathCorrect, PTL DEF Spec

-----------------------------------------------------------------------------
(* Type correctness: what is left are the counters and the ghosts.         *)
TriesInv == tries \in [Msgs -> Nat] /\ \A m \in Msgs : tries[m] <= TriesOf(m)

TableInv == deferCount \in [Keys -> 0..MaxDefer] /\ failures \in [Keys -> 0..MaxFailures]

GhostInv ==
  /\ gone \subseteq [msg : Msgs, why : Reasons]
  /\ stale \subseteq Msgs /\ replays \in [Msgs -> 0..MaxReplay]

LEMMA UpTypes ==
  ASSUME NEW limit \in Nat, NEW n \in 0..limit
  PROVE  Up(n, limit) \in 0..limit
  BY DEF Up

LEMMA TriesStep ==
  ASSUME InboundAssumption, TriesInv, [Next]_vars
  PROVE  TriesInv'
<1> USE DEF TriesInv
<1>0. \A m \in Msgs : TriesOf(m) \in Nat BY InboundAssumption DEF InboundAssumption
<1>1. CASE UNCHANGED tries BY <1>1
<1>2. CASE Crash BY <1>0, <1>2 DEF Crash
<1>3. ASSUME NEW m \in UserMsgs, IngressSends(m) \/ IngressSaves(m) \/ IngressFull(m)
      PROVE  TriesInv'
  <2>1. m \in Msgs BY DEF Msgs
  <2>2. CASE IngressFull(m)
    BY <1>0, <2>1, <2>2 DEF IngressFull
  <2>3. CASE LetGo(m)
    BY <1>0, <2>1, <2>3 DEF LetGo
  <2> QED BY <1>3, <2>2, <2>3 DEF IngressSends, IngressSaves
<1>4. CASE Boot \/ Poll
  BY <1>1, <1>4
     DEF Boot, BootUnreadable, BootNothing, BootDiscard, BootDropStale, BootReplay, BootClear,
         Poll, PollPreferred, PollUser, PollSystem, WaitUser, Elsewhere, senders
<1>5. CASE Turn
  BY <1>1, <1>5
     DEF Turn, AdoptLaneJob, Begin, MaintenanceReply, RunLaneJob, Reject, Defer, Degrade,
         Admit, Complete, FailUncounted, FailCounted, TurnAside, senders
<1>6. ASSUME NEW m, Arrive(m) \/ SystemSends(m) \/ DelayedRuns(m)
      PROVE  TriesInv'
  BY <1>1, <1>6 DEF Arrive, SystemSends, DelayedRuns, senders
<1>7. CASE UNCHANGED vars BY <1>1, <1>7 DEF vars, senders
<1> QED BY <1>2, <1>3, <1>4, <1>5, <1>6, <1>7 DEF Next, Agent

LEMMA TableStep ==
  ASSUME InboundAssumption, PathInv, TableInv, [Next]_vars
  PROVE  TableInv'
<1> USE DEF TableInv
<1>0. MaxDefer \in Nat /\ MaxFailures \in Nat /\ NoMsg \notin Msgs
      /\ \A m \in Msgs : KeyOf(m) \in Keys
  BY InboundAssumption DEF InboundAssumption
<1>1. CASE UNCHANGED tables BY <1>1 DEF tables
<1>2. CASE Crash BY <1>0, <1>2 DEF Crash
<1>3. CASE Boot \/ Poll
  BY <1>1, <1>3
     DEF Boot, BootUnreadable, BootNothing, BootDiscard, BootDropStale, BootReplay, BootClear,
         Poll, PollPreferred, PollUser, PollSystem, WaitUser, Elsewhere, tables
<1>4. CASE Turn
  <2>1. CASE AdoptLaneJob \/ MaintenanceReply \/ RunLaneJob \/ Reject \/ Degrade \/ Admit
             \/ FailUncounted
    BY <1>1, <2>1 DEF AdoptLaneJob, MaintenanceReply, RunLaneJob, Reject, Degrade, Admit,
                      FailUncounted
  <2>2. CASE Begin BY <1>0, <2>2 DEF Begin
  <2>3. ASSUME pc \in {"admit", "work"} PROVE KeyOf(hand) \in Keys
    BY <1>0, <2>3 DEF PathInv, HandInv
  <2>4. CASE Defer
    <3>1. KeyOf(hand) \in Keys BY <2>3, <2>4 DEF Defer, Admitting
    <3>2. DefersAfter \in 0..MaxDefer BY <1>0, <3>1, UpTypes DEF DefersAfter
    <3>3. \E n \in 0..MaxDefer : deferCount' = [deferCount EXCEPT ![KeyOf(hand)] = n]
      BY <1>0, <2>4, <3>2 DEF Defer, DeferDrops, DeferParks, DeferRequeues
    <3> QED BY <2>4, <3>3 DEF Defer
  <2>5. CASE Complete
    <3>1. /\ deferCount' = [deferCount EXCEPT ![KeyOf(hand)] = 0]
          /\ failures' = [failures EXCEPT ![KeyOf(hand)] = 0]
      BY <2>5 DEF Complete
    <3>2. 0 \in 0..MaxDefer /\ 0 \in 0..MaxFailures BY <1>0
    <3>3. deferCount' \in [Keys -> 0..MaxDefer] BY <3>1, <3>2
    <3>4. failures' \in [Keys -> 0..MaxFailures] BY <3>1, <3>2
    <3> QED BY <3>3, <3>4
  <2>6. CASE FailCounted
    <3>1. KeyOf(hand) \in Keys BY <2>3, <2>6 DEF FailCounted
    <3>2. FailuresAfter \in 0..MaxFailures BY <1>0, <3>1, UpTypes DEF FailuresAfter
    <3> QED BY <2>6, <3>2 DEF FailCounted
  <2> QED BY <1>4, <2>1, <2>2, <2>4, <2>5, <2>6 DEF Turn
<1>5. ASSUME NEW m, \/ Arrive(m) \/ IngressSends(m) \/ IngressFull(m) \/ IngressSaves(m)
                    \/ DelayedRuns(m) \/ SystemSends(m)
      PROVE  TableInv'
  BY <1>1, <1>5 DEF Arrive, IngressSends, IngressFull, IngressSaves, DelayedRuns, SystemSends
<1>6. CASE UNCHANGED vars BY <1>1, <1>6 DEF vars
<1> QED BY <1>2, <1>3, <1>4, <1>5, <1>6 DEF Next, Agent

LEMMA SlotGhosts ==
  ASSUME ReplayAssumption, InboundAssumption, SlotInv, GhostInv, NEW m \in Msgs,
         SaveSlot(m), UNCHANGED ghosts
  PROVE  GhostInv'
<1>1. Overwritten(m) \subseteq [msg : Msgs, why : Reasons]
  BY EmptyIsNoEntry DEF Overwritten, Loaded, Left, Reasons, SlotInv, SlotTypes
<1>2. Left(m, "unsaved") \in [msg : Msgs, why : Reasons] BY DEF Left, Reasons
<1>3. PICK o \in Save(store, m) :
        gone' = gone \cup (IF o.ok THEN Overwritten(m) ELSE {Left(m, "unsaved")})
  BY DEF SaveSlot
<1>4. gone' \subseteq [msg : Msgs, why : Reasons] BY <1>1, <1>2, <1>3 DEF GhostInv
<1> QED BY <1>4 DEF GhostInv, ghosts

LEMMA OneMoreGone ==
  ASSUME GhostInv, UNCHANGED ghosts, NEW m \in Msgs, NEW why \in Reasons,
         gone' = gone \cup {Left(m, why)}
  PROVE  GhostInv'
<1>1. Left(m, why) \in [msg : Msgs, why : Reasons] BY DEF Left
<1> QED BY <1>1 DEF GhostInv, ghosts

LEMMA VolatileMsgs ==
  ASSUME InboundAssumption, PathInv
  PROVE  Volatile \subseteq Msgs
<1>1. ToSet(userQ) \subseteq UserMsgs /\ ToSet(systemQ) \subseteq SystemMsgs
  BY ElementOfSeq, LenProperties DEF ToSet, PathInv, QueueTypes
<1> QED BY <1>1 DEF Volatile, PathInv, SenderTypes, HandInv, Msgs

LEMMA GhostStep ==
  ASSUME ReplayAssumption, InboundAssumption, PathInv, GhostInv, [Next]_vars
  PROVE  GhostInv'
<1>0. HandInv /\ SlotInv BY DEF PathInv
<1>1. CASE UNCHANGED <<gone, ghosts>> BY <1>1 DEF GhostInv, ghosts
<1>2. CASE Boot
  <2>1. ASSUME pc = "boot", store.file # Empty PROVE store.file.msg \in Msgs
    BY <2>1, <1>0, EmptyIsNoEntry DEF SlotInv, SlotTypes
  <2>2. CASE BootDiscard \/ BootDropStale
    <3>1. pc = "boot" /\ store.file # Empty /\ UNCHANGED replays
      BY <2>2, <1>0 DEF BootDiscard, BootDropStale, CountedOut, Replayable, Loaded, SlotInv
    <3>2. PICK why \in Reasons : gone' = gone \cup {Left(store.file.msg, why)}
      BY <2>2 DEF BootDiscard, BootDropStale, Reasons
    <3>3. stale' \subseteq stale \cup {store.file.msg}
      BY <2>2 DEF BootDiscard, BootDropStale
    <3>4. Left(store.file.msg, why) \in [msg : Msgs, why : Reasons]
      BY <2>1, <3>1 DEF Left
    <3> QED BY <2>1, <3>1, <3>2, <3>3, <3>4 DEF GhostInv
  <2>3. CASE BootReplay
    <3>1. store.file.msg \in Msgs /\ MaxReplay \in Nat
      BY <2>1, <2>3, <1>0, EmptyIsNoEntry DEF BootReplay, Replayable, Loaded, SlotInv
    <3>2. replays[store.file.msg] \in 0..MaxReplay BY <3>1 DEF GhostInv
    <3>3. Up(replays[store.file.msg], MaxReplay) \in 0..MaxReplay BY <3>1, <3>2, UpTypes
    <3>4. /\ UNCHANGED <<gone, stale>>
          /\ replays' = [replays EXCEPT ![store.file.msg] = Up(replays[store.file.msg], MaxReplay)]
      BY <2>3 DEF BootReplay
    <3> QED BY <3>3, <3>4 DEF GhostInv
  <2>4. CASE BootClear
    <3>1. PICK o \in Clear(store) :
            stale' = IF o.ok THEN stale ELSE stale \cup {store.entry.msg}
      BY <2>4 DEF BootClear
    <3>2. store.entry.msg \in Msgs /\ UNCHANGED <<gone, replays>>
      BY <2>4, <1>0, EmptyIsNoEntry DEF BootClear, SlotInv, SlotTypes
    <3> QED BY <3>1, <3>2 DEF GhostInv
  <2> QED BY <1>1, <1>2, <2>2, <2>3, <2>4 DEF Boot, BootUnreadable, BootNothing
<1>3. CASE Poll
  BY <1>1, <1>3 DEF Poll, PollPreferred, PollUser, PollSystem, WaitUser, Elsewhere
<1>4. CASE Turn
  <2>1. ASSUME pc \in {"taken", "admit", "work"} PROVE hand \in Msgs
    BY <2>1, <1>0, InboundAssumption DEF HandInv
  <2>2. UNCHANGED ghosts
    BY <1>4 DEF Turn, AdoptLaneJob, Begin, MaintenanceReply, RunLaneJob, Reject, Defer, Degrade,
                Admit, Complete, FailUncounted, FailCounted, TurnAside
  <2>3. "handled" \in Reasons /\ "dropped" \in Reasons BY DEF Reasons
  <2>4. CASE AdoptLaneJob \/ MaintenanceReply \/ RunLaneJob \/ Complete \/ FailUncounted
             \/ Reject
    BY <2>1, <2>2, <2>3, <2>4, OneMoreGone
       DEF AdoptLaneJob, MaintenanceReply, RunLaneJob, Complete, FailUncounted, Reject,
           Admitting, Leaves
  <2>5. CASE Begin \/ Admit BY <1>1, <2>2, <2>5 DEF Begin, Admit
  <2>6. \A m \in Msgs : Requeue(m) => GhostInv'
    BY <1>0, <1>1, <2>2, SlotGhosts DEF Requeue
  <2>7. CASE Defer \/ Degrade \/ FailCounted
    <3>1. hand \in Msgs BY <2>1, <2>7 DEF Defer, Degrade, FailCounted, Admitting
    <3>2. CASE Leaves("handled") \/ Leaves("dropped")
      BY <2>2, <2>3, <3>1, <3>2, OneMoreGone DEF Leaves
    <3>3. CASE Requeue(hand) BY <2>6, <3>1, <3>3
    <3>4. CASE SaveSlot(hand) BY <1>0, <2>2, <3>1, <3>4, SlotGhosts
    <3>5. CASE UNCHANGED gone BY <1>1, <2>2, <3>5
    <3> QED BY <2>7, <3>2, <3>3, <3>4, <3>5
            DEF Defer, DeferDrops, DeferParks, DeferRequeues, Degrade, FailCounted
  <2> QED BY <1>4, <2>4, <2>5, <2>7 DEF Turn
<1>5. CASE Crash
  <2>1. \A m \in Msgs : Left(m, "crash") \in [msg : Msgs, why : Reasons]
    BY DEF Left, Reasons
  <2>2. gone' \subseteq [msg : Msgs, why : Reasons]
    BY <1>5, <2>1, VolatileMsgs DEF Crash, GhostInv
  <2> QED BY <1>5, <2>2 DEF Crash, GhostInv, ghosts
<1>6. ASSUME NEW m \in Msgs,
             \/ Arrive(m) \/ IngressSends(m) \/ IngressFull(m) \/ IngressSaves(m)
             \/ DelayedRuns(m) \/ SystemSends(m)
      PROVE  GhostInv'
  <2>1. UNCHANGED ghosts
    BY <1>6 DEF Arrive, IngressSends, IngressFull, IngressSaves, DelayedRuns, SystemSends
  <2>2. "refused" \in Reasons /\ "dropped" \in Reasons BY DEF Reasons
  <2>3. CASE IngressSaves(m)
    BY <1>0, <2>1, <2>3, SlotGhosts DEF IngressSaves
  <2>4. CASE DelayedRuns(m) \/ SystemSends(m)
    BY <1>1, <2>1, <2>2, <2>4, OneMoreGone DEF DelayedRuns, SystemSends
  <2> QED BY <1>1, <1>6, <2>1, <2>3, <2>4 DEF Arrive, IngressSends, IngressFull
<1>7. CASE UNCHANGED vars BY <1>1, <1>7 DEF vars
<1> QED BY <1>2, <1>3, <1>4, <1>5, <1>6, <1>7 DEF Next, Agent, Msgs

\* The queues, the slot and the tables are within their limits and the agent
\* holds a message exactly while it handles one (run_agent_loop_main).
THEOREM TypeCorrect == Spec => []TypeOK
<1> DEFINE Inv == TriesInv /\ TableInv /\ GhostInv
<1>1. Init => Inv
  <2>1. MaxReplay \in Nat /\ MaxDefer \in Nat /\ MaxFailures \in Nat
        /\ \A m \in Msgs : TriesOf(m) \in Nat
    BY ReplayAssumption, InboundAssumption DEF ReplayAssumption, InboundAssumption
  <2> QED BY <2>1 DEF Init, TriesInv, TableInv, GhostInv
<1>2. PathInv /\ Inv /\ [Next]_vars => Inv'
  BY TriesStep, TableStep, GhostStep, ReplayAssumption, InboundAssumption
<1>3. Init => ShareInv
  BY InboundAssumption
     DEF Init, ShareInv, ShareTypes, Counted, SystemOvertakenBounded, InboundAssumption
<1>4. PathInv /\ ShareInv /\ [Next]_vars => ShareInv'
  BY ShareStep, ReplayAssumption, InboundAssumption
<1>5. PathInv /\ Inv /\ ShareInv => TypeOK
  BY DEF PathInv, SlotInv, SlotTypes, QueueTypes, HandInv, SenderTypes, TriesInv, TableInv,
         GhostInv, ShareInv, ShareTypes, TypeOK
<1> QED BY <1>1, <1>2, <1>3, <1>4, <1>5, PathCorrect, PTL DEF Spec
-----------------------------------------------------------------------------
(* The places of a message.  A message whose slot could not be emptied is  *)
(* excepted, so all that is said here is about the others.                 *)
Queued(m) == m \in ToSet(userQ) \/ m \in ToSet(systemQ)

IsGone(m) == \E l \in gone : l.msg = m

\* In the hands of a thread, and out of them.
Held(m) == One(m \in ingress) + One(m \in delayed) + One(hand = m)

Settled(m) == One(Queued(m)) + One(InSlot(m) /\ pc # "clear") + One(IsGone(m))

OnceIn(q, m) == \A i, j \in 1..Len(q) : q[i] = m /\ q[j] = m => i = j

GoneOnce(m) == \A k, l \in gone : k.msg = m /\ l.msg = m => k = l

Once(m) == OnceIn(userQ, m) /\ OnceIn(systemQ, m) /\ GoneOnce(m)

Placed(m) == Held(m) + Settled(m) = One(m \notin unsent) /\ Once(m)

\* A file that is not seen any more holds a message that could not be emptied,
\* and during the boot the message of the slot is already in its queue.
SlotPlaces ==
  /\ stale \cap unsent = {}
  /\ store.file # Empty /\ store.loaded /\ store.entry = Empty => store.file.msg \in stale
  /\ pc = "clear" => Queued(store.file.msg)

PlaceInv == (\A m \in Msgs \ stale : Placed(m)) /\ SlotPlaces

\* A queue that takes one more message holds it besides the others.
LEMMA AppendPlaces ==
  ASSUME NEW S, NEW q \in Seq(S), NEW m \in S, NEW x
  PROVE  /\ x \in ToSet(Append(q, m)) <=> x \in ToSet(q) \/ x = m
         /\ OnceIn(q, x) /\ (x = m => x \notin ToSet(q)) => OnceIn(Append(q, m), x)
<1>1. /\ Append(q, m) \in Seq(S) /\ Len(Append(q, m)) = Len(q) + 1 /\ Len(q) \in Nat
      /\ \A i \in 1..Len(q) : Append(q, m)[i] = q[i]
      /\ Append(q, m)[Len(q) + 1] = m
  BY AppendProperties, LenProperties
<1>2. /\ DOMAIN q = 1..Len(q) /\ DOMAIN Append(q, m) = 1..Len(Append(q, m))
  BY <1>1, LenProperties
<1>3. \A i \in 1..Len(Append(q, m)) : i \in 1..Len(q) \/ i = Len(q) + 1 BY <1>1
<1>4. x \in ToSet(Append(q, m)) <=> x \in ToSet(q) \/ x = m
  BY <1>1, <1>2, <1>3 DEF ToSet
<1>5. ASSUME OnceIn(q, x), x = m => x \notin ToSet(q) PROVE OnceIn(Append(q, m), x)
  BY <1>1, <1>2, <1>3, <1>5 DEF OnceIn, ToSet
<1> QED BY <1>4, <1>5

\* What leaves the head of a queue was in it once and is in it no more.
LEMMA TailPlaces ==
  ASSUME NEW S, NEW q \in Seq(S), q # <<>>, NEW x, OnceIn(q, x)
  PROVE  /\ Head(q) \in S /\ Head(q) \in ToSet(q)
         /\ x \in ToSet(Tail(q)) <=> x \in ToSet(q) /\ x # Head(q)
         /\ OnceIn(Tail(q), x)
<1>1. /\ Head(q) \in S /\ Tail(q) \in Seq(S) /\ Len(q) \in Nat \ {0}
      /\ Len(Tail(q)) = Len(q) - 1 /\ Head(q) = q[1]
      /\ \A i \in 1..Len(Tail(q)) : Tail(q)[i] = q[i + 1]
  BY HeadTailProperties, EmptySeq, LenProperties
<1>2. DOMAIN q = 1..Len(q) /\ DOMAIN Tail(q) = 1..Len(Tail(q))
  BY <1>1, LenProperties
<1>3. /\ \A i \in 1..Len(Tail(q)) : i + 1 \in 1..Len(q) /\ i + 1 # 1
      /\ \A i \in 1..Len(q) : i = 1 \/ (i - 1 \in 1..Len(Tail(q)) /\ (i - 1) + 1 = i)
      /\ 1 \in 1..Len(q)
  BY <1>1
<1>4. x \in ToSet(Tail(q)) => x \in ToSet(q) /\ x # Head(q)
  BY <1>1, <1>2, <1>3 DEF ToSet, OnceIn
<1>5. ASSUME x \in ToSet(q), x # Head(q) PROVE x \in ToSet(Tail(q))
  <2>1. PICK i \in 1..Len(q) : q[i] = x BY <1>2, <1>5 DEF ToSet
  <2>2. i - 1 \in 1..Len(Tail(q)) /\ (i - 1) + 1 = i BY <1>1, <1>3, <1>5, <2>1
  <2>3. Tail(q)[i - 1] = x BY <1>1, <2>1, <2>2
  <2> QED BY <1>2, <2>2, <2>3 DEF ToSet
<1>6. ASSUME NEW i \in 1..Len(Tail(q)), NEW j \in 1..Len(Tail(q)), Tail(q)[i] = x, Tail(q)[j] = x
      PROVE  i = j
  <2>1. q[i + 1] = x /\ q[j + 1] = x BY <1>1, <1>6
  <2>2. i + 1 = j + 1 BY <1>3, <2>1 DEF OnceIn
  <2> QED BY <1>1, <2>2
<1> QED BY <1>1, <1>2, <1>3, <1>4, <1>5, <1>6 DEF ToSet, OnceIn

LEMMA EnqueuePlaces ==
  ASSUME QueueTypes, NEW m \in Msgs, Enqueue(m), NEW x \in Msgs,
         OnceIn(userQ, x), OnceIn(systemQ, x), x = m => ~Queued(m)
  PROVE  /\ Queued(x)' <=> Queued(x) \/ x = m
         /\ OnceIn(userQ, x)' /\ OnceIn(systemQ, x)'
<1>1. CASE m \in UserMsgs
  <2>1. userQ' = Append(userQ, m) /\ systemQ' = systemQ BY <1>1 DEF Enqueue
  <2> QED BY <1>1, <2>1, AppendPlaces DEF QueueTypes, Queued
<1>2. CASE m \notin UserMsgs
  <2>1. systemQ' = Append(systemQ, m) /\ userQ' = userQ BY <1>2 DEF Enqueue
  <2>2. m \in SystemMsgs BY <1>2 DEF Msgs
  <2> QED BY <2>1, <2>2, AppendPlaces DEF QueueTypes, Queued
<1> QED BY <1>1, <1>2

LEMMA TakePlaces ==
  ASSUME InboundAssumption, QueueTypes, TakeUser \/ TakeSystem, NEW x \in Msgs,
         OnceIn(userQ, x), OnceIn(systemQ, x)
  PROVE  /\ Queued(x)' <=> Queued(x) /\ x # hand'
         /\ hand' = x => Queued(x)
         /\ OnceIn(userQ, x)' /\ OnceIn(systemQ, x)'
<1>0. UserMsgs \cap SystemMsgs = {} BY InboundAssumption DEF InboundAssumption
<1>1. ToSet(userQ) \subseteq UserMsgs /\ ToSet(systemQ) \subseteq SystemMsgs
  BY ElementOfSeq, LenProperties DEF ToSet, QueueTypes
<1>2. CASE TakeUser
  <2>1. userQ # <<>> /\ hand' = Head(userQ) /\ userQ' = Tail(userQ) /\ systemQ' = systemQ
    BY <1>2 DEF TakeUser
  <2> QED BY <1>0, <1>1, <2>1, TailPlaces DEF QueueTypes, Queued
<1>3. CASE TakeSystem
  <2>1. systemQ # <<>> /\ hand' = Head(systemQ) /\ systemQ' = Tail(systemQ) /\ userQ' = userQ
    BY <1>3 DEF TakeSystem
  <2> QED BY <1>0, <1>1, <2>1, TailPlaces DEF QueueTypes, Queued
<1> QED BY <1>2, <1>3

\* A message that leaves is gone, once if it was not gone before.
LEMMA LeavePlaces ==
  ASSUME NEW m, NEW why, gone' = gone \cup {Left(m, why)}, NEW x, GoneOnce(x),
         x = m => ~IsGone(m)
  PROVE  (IsGone(x)' <=> IsGone(x) \/ x = m) /\ GoneOnce(x)'
<1>1. Left(m, why).msg = m BY DEF Left
<1> QED BY <1>1 DEF IsGone, GoneOnce

\* save_pending_retry: the message is in the slot or gone, and what the slot
\* held is gone when it was another message.
LEMMA SavePlaces ==
  ASSUME ReplayAssumption, InboundAssumption, SlotInv, NEW m \in Msgs, SaveSlot(m),
         NEW x \in Msgs, GoneOnce(x), InSlot(x) => ~IsGone(x),
         x = m => ~InSlot(x) /\ ~IsGone(x)
  PROVE  /\ One(InSlot(x))' + One(IsGone(x))' = One(InSlot(x)) + One(IsGone(x)) + One(x = m)
         /\ GoneOnce(x)'
<1>1. PICK o \in Save(store, m) :
        /\ store' = o.store
        /\ gone' = gone \cup (IF o.ok THEN Overwritten(m) ELSE {Left(m, "unsaved")})
  BY DEF SaveSlot, Outcome
<1>2. CASE ~o.ok
  <2>1. store' = store \/ store' = Loaded(store)
    BY <1>1, <1>2 DEF Save, ReadFailure
  <2>2. InSlot(x)' <=> InSlot(x) BY <2>1 DEF InSlot, Loaded
  <2>3. gone' = gone \cup {Left(m, "unsaved")} BY <1>1, <1>2
  <2>4. (IsGone(x)' <=> IsGone(x) \/ x = m) /\ GoneOnce(x)' BY <2>3, LeavePlaces
  <2> QED BY <2>2, <2>4 DEF One
<1>3. CASE o.ok
  <2> DEFINE old == Loaded(store).entry
  <2>1. store' = Holding(m, CountAfter(old)) BY <1>1, <1>3 DEF Save, ReadFailure
  <2>2. old \in Entries \cup {Empty} BY DEF SlotInv, SlotTypes, Loaded
  <2>3. CountAfter(old) \in 1..MaxReplay BY <2>2, EmptyIsNoEntry DEF CountAfter
  <2>4. [msg |-> m, count |-> CountAfter(old)] # Empty
    BY <2>3, EmptyIsNoEntry DEF Entries
  <2>5. InSlot(x)' <=> x = m BY <2>1, <2>4 DEF InSlot, Holding
  <2>6. InSlot(x) <=> old # Empty /\ old.msg = x
    BY DEF InSlot, Loaded, SlotInv, MirrorMatchesFile
  <2>7. gone' = gone \cup (IF old # Empty /\ old.msg # m THEN {Left(old.msg, "overwritten")} ELSE {})
    BY <1>1, <1>3 DEF Overwritten
  <2> HIDE DEF old
  <2>8. CASE old # Empty /\ old.msg # m
    <3>1. gone' = gone \cup {Left(old.msg, "overwritten")} BY <2>7, <2>8
    <3>2. (IsGone(x)' <=> IsGone(x) \/ x = old.msg) /\ GoneOnce(x)'
      BY <2>6, <2>8, <3>1, LeavePlaces
    <3> QED BY <2>5, <2>6, <2>8, <3>2 DEF One
  <2>9. CASE ~(old # Empty /\ old.msg # m)
    <3>1. gone' = gone BY <2>7, <2>9
    <3>2. (IsGone(x)' <=> IsGone(x)) /\ GoneOnce(x)' BY <3>1 DEF IsGone, GoneOnce
    <3> QED BY <2>5, <2>6, <2>9, <3>2 DEF One
  <2> QED BY <2>8, <2>9
<1> QED BY <1>2, <1>3

\* The slot and the queues after a message was put down: in a queue, in the
\* slot or gone.
PutDown(m, x) == Settled(x)' = Settled(x) + One(x = m) /\ Once(x)'

\* A message that counts for one place at most, and for none if it is m.
Light(m, x) == Once(x) /\ Settled(x) \in {0, 1} /\ (x = m => Settled(x) = 0)

LEMMA SettledParts ==
  ASSUME NEW x
  PROVE  /\ Settled(x) \in Nat /\ Held(x) \in Nat
         /\ Settled(x) = 0 <=> ~Queued(x) /\ (~InSlot(x) \/ pc = "clear") /\ ~IsGone(x)
         /\ Settled(x) = 1 =>
              \/ ~Queued(x) /\ (~InSlot(x) \/ pc = "clear")
              \/ ~Queued(x) /\ ~IsGone(x)
              \/ (~InSlot(x) \/ pc = "clear") /\ ~IsGone(x)
         /\ Held(x) = 0 <=> x \notin ingress /\ x \notin delayed /\ hand # x
  BY DEF Settled, Held, One

LEMMA SaveSettles ==
  ASSUME ReplayAssumption, InboundAssumption, SlotInv, NEW m \in Msgs, SaveSlot(m),
         UNCHANGED queues, pc # "clear", pc' # "clear", NEW x \in Msgs, Light(m, x)
  PROVE  PutDown(m, x)
<1>1. (Queued(x)' <=> Queued(x)) /\ OnceIn(userQ, x)' /\ OnceIn(systemQ, x)'
  BY DEF queues, Queued, Light, Once, OnceIn
<1>2. GoneOnce(x) /\ (InSlot(x) => ~IsGone(x)) /\ (x = m => ~InSlot(x) /\ ~IsGone(x))
  BY SettledParts DEF Light, Once
<1>3. /\ One(InSlot(x))' + One(IsGone(x))' = One(InSlot(x)) + One(IsGone(x)) + One(x = m)
      /\ GoneOnce(x)'
  BY <1>2, SavePlaces
<1> QED BY <1>1, <1>3 DEF PutDown, Settled, Once, One

LEMMA EnqueueSettles ==
  ASSUME QueueTypes, NEW m \in Msgs, Enqueue(m), UNCHANGED <<store, gone>>,
         (pc = "clear") <=> (pc' = "clear"), NEW x \in Msgs, Light(m, x)
  PROVE  PutDown(m, x)
<1>1. x = m => ~Queued(m) BY SettledParts DEF Light
<1>2. (Queued(x)' <=> Queued(x) \/ x = m) /\ OnceIn(userQ, x)' /\ OnceIn(systemQ, x)'
  BY <1>1, EnqueuePlaces DEF Light, Once
<1>3. (InSlot(x)' <=> InSlot(x)) /\ (IsGone(x)' <=> IsGone(x)) /\ GoneOnce(x)'
  BY DEF InSlot, IsGone, GoneOnce, Light, Once
<1> QED BY <1>1, <1>2, <1>3 DEF PutDown, Settled, Once, One

LEMMA LeaveSettles ==
  ASSUME NEW m, NEW why, gone' = gone \cup {Left(m, why)}, UNCHANGED <<store, queues>>,
         (pc = "clear") <=> (pc' = "clear"), NEW x, Light(m, x)
  PROVE  PutDown(m, x)
<1>1. x = m => ~IsGone(m) BY SettledParts DEF Light
<1>2. (IsGone(x)' <=> IsGone(x) \/ x = m) /\ GoneOnce(x)'
  BY <1>1, LeavePlaces DEF Light, Once
<1>3. /\ (InSlot(x)' <=> InSlot(x)) /\ (Queued(x)' <=> Queued(x))
      /\ OnceIn(userQ, x)' /\ OnceIn(systemQ, x)'
  BY DEF InSlot, Queued, OnceIn, queues, Light, Once
<1> QED BY <1>1, <1>2, <1>3 DEF PutDown, Settled, Once, One

LEMMA RequeueSettles ==
  ASSUME ReplayAssumption, InboundAssumption, SlotInv, QueueTypes, NEW m \in Msgs, Requeue(m),
         pc # "clear", pc' # "clear", NEW x \in Msgs, Light(m, x)
  PROVE  PutDown(m, x)
  BY SaveSettles, EnqueueSettles DEF Requeue

LEMMA NothingSettles ==
  ASSUME UNCHANGED <<store, queues, gone>>, (pc = "clear") <=> (pc' = "clear"), NEW x, Once(x)
  PROVE  Settled(x)' = Settled(x) /\ Once(x)'
<1>1. /\ (InSlot(x)' <=> InSlot(x)) /\ (Queued(x)' <=> Queued(x)) /\ (IsGone(x)' <=> IsGone(x))
      /\ Once(x)'
  BY DEF InSlot, Queued, IsGone, Once, OnceIn, GoneOnce, queues
<1> QED BY <1>1 DEF Settled, One

LEMMA PlacedIsLight ==
  ASSUME NEW m, NEW x, Placed(x), x = m => Held(x) # 0 \/ x \in unsent
  PROVE  Light(m, x)
  BY SettledParts DEF Light, Placed, One

\* A message passes from the hands of a thread to a queue, the slot or the end.
LEMMA HandedOn ==
  ASSUME NEW m, NEW x, Placed(x), PutDown(m, x), Held(x)' + One(x = m) = Held(x),
         Held(x)' \in Nat, UNCHANGED unsent
  PROVE  Placed(x)'
<1>1. Held(x)' + Settled(x)' = Held(x) + Settled(x)
  BY SettledParts DEF PutDown, One
<1> QED BY <1>1 DEF Placed, PutDown

LEMMA HeldTypes ==
  ASSUME NEW x
  PROVE  Held(x) \in Nat /\ Held(x)' \in Nat
  BY DEF Held, One

\* The agent is done with its message.
LEMMA AgentHandsOn ==
  ASSUME InboundAssumption, NEW x \in Msgs, Placed(x), PutDown(hand, x), hand' = NoMsg,
         UNCHANGED <<senders, delayed>>
  PROVE  Placed(x)'
<1>1. UNCHANGED unsent BY DEF senders
<1>2. Held(x)' + One(x = hand) = Held(x)
  BY InboundAssumption DEF Held, One, senders, InboundAssumption
<1> QED BY <1>1, <1>2, HandedOn, HeldTypes

LEMMA StaleGrows ==
  ASSUME [Next]_vars
  PROVE  stale \subseteq stale'
<1>1. CASE UNCHANGED ghosts BY <1>1 DEF ghosts
<1>2. CASE Boot
  BY <1>1, <1>2
     DEF Boot, BootUnreadable, BootNothing, BootDiscard, BootDropStale, BootReplay, BootClear
<1>3. CASE Poll
  BY <1>1, <1>3 DEF Poll, PollPreferred, PollUser, PollSystem, WaitUser, Elsewhere
<1>4. CASE Turn
  BY <1>1, <1>4
     DEF Turn, AdoptLaneJob, Begin, MaintenanceReply, RunLaneJob, Reject, Defer, Degrade,
         Admit, Complete, FailUncounted, FailCounted, TurnAside
<1>5. ASSUME NEW m, \/ Arrive(m) \/ IngressSends(m) \/ IngressFull(m) \/ IngressSaves(m)
                    \/ DelayedRuns(m) \/ SystemSends(m) \/ Crash
      PROVE  stale \subseteq stale'
  BY <1>1, <1>5
     DEF Arrive, IngressSends, IngressFull, IngressSaves, DelayedRuns, SystemSends, Crash
<1>6. CASE UNCHANGED vars BY <1>1, <1>6 DEF vars
<1> QED BY <1>2, <1>3, <1>4, <1>5, <1>6 DEF Next, Agent

\* Boot: only the message of the slot moves.
LEMMA BootPlaces ==
  ASSUME ReplayAssumption, InboundAssumption, PathInv, PlaceInv, Boot,
         NEW x \in Msgs, x \notin stale'
  PROVE  Placed(x)'
<1>0. SlotInv /\ QueueTypes BY DEF PathInv
<1>1. Placed(x) /\ Once(x)
  <2>1. x \notin stale
    BY DEF Boot, BootUnreadable, BootNothing, BootDiscard, BootDropStale, BootReplay, BootClear,
           ghosts
  <2> QED BY <2>1 DEF PlaceInv, Placed
<1>2. UNCHANGED unsent /\ Held(x)' = Held(x)
  BY DEF Boot, BootUnreadable, BootNothing, BootDiscard, BootDropStale, BootReplay, BootClear,
         senders, Held
<1>3. ASSUME Settled(x)' = Settled(x), Once(x)' PROVE Placed(x)'
  BY <1>1, <1>2, <1>3 DEF Placed
<1>4. Held(x) \in Nat /\ Settled(x) \in {0, 1}
  BY <1>1, SettledParts DEF Placed, One
<1>5. ASSUME pc = "boot"
      PROVE  /\ InSlot(x) <=> store.file # Empty /\ store.file.msg = x
             /\ Loaded(store) = [file |-> store.file, loaded |-> TRUE, entry |-> store.file]
  BY <1>0, <1>5 DEF SlotInv, InSlot, Loaded
<1>6. CASE BootUnreadable
  <2>1. store' = store /\ UNCHANGED <<queues, gone>> /\ pc = "boot" /\ pc' = "poll"
    BY <1>6 DEF BootUnreadable, ReadFailure, Outcome
  <2> QED BY <1>1, <1>3, <2>1, NothingSettles
<1>7. CASE BootNothing
  <2>1. /\ pc = "boot" /\ pc' = "poll" /\ store.file = Empty /\ store' = Loaded(store)
        /\ UNCHANGED <<queues, gone>>
    BY <1>5, <1>7 DEF BootNothing
  <2>2. ~InSlot(x) /\ ~InSlot(x)' BY <1>5, <2>1 DEF InSlot
  <2>3. Settled(x)' = Settled(x)
    BY <2>1, <2>2 DEF Settled, One, Queued, IsGone, queues
  <2>4. Once(x)' BY <1>1, <2>1 DEF Once, OnceIn, GoneOnce, queues
  <2> QED BY <1>3, <2>3, <2>4
<1>8. CASE BootDiscard \/ BootDropStale
  <2>1. PICK why : gone' = gone \cup {Left(store.file.msg, why)}
    BY <1>8 DEF BootDiscard, BootDropStale
  <2>2. pc = "boot" /\ pc' = "poll" /\ store.file # Empty /\ UNCHANGED queues
    BY <1>5, <1>8 DEF BootDiscard, BootDropStale, CountedOut, Replayable
  <2>3. ~InSlot(x)'
    <3>1. CASE store' = Emptied(Empty) \/ store' = Emptied(store.file)
      BY <3>1 DEF InSlot, Emptied
    <3>2. CASE BootDiscard
      BY <3>1, <3>2, DiscardOutcomes DEF BootDiscard, Outcome
    <3>3. CASE BootDropStale
      <4>1. PICK o \in Clear(Loaded(store)) :
              /\ store' = o.store
              /\ stale' = IF o.ok THEN stale ELSE stale \cup {store.file.msg}
        BY <3>3 DEF BootDropStale, Outcome
      <4>2. CASE o = [ok |-> TRUE, store |-> Emptied(Empty)] BY <3>1, <4>1, <4>2
      <4>3. CASE o = [ok |-> FALSE, store |-> Loaded(store)]
        <5>1. x # store.file.msg BY <4>1, <4>3
        <5> QED BY <1>5, <2>2, <4>1, <4>3, <5>1 DEF InSlot
      <4> QED BY <4>2, <4>3 DEF Clear, Emptied
    <3> QED BY <1>8, <3>2, <3>3
  <2>4. x = store.file.msg => ~IsGone(x) /\ InSlot(x)
    BY <1>4, <1>5, <2>2, SettledParts
  <2>5. (IsGone(x)' <=> IsGone(x) \/ x = store.file.msg) /\ GoneOnce(x)'
    BY <1>1, <2>1, <2>4, LeavePlaces DEF Once
  <2>6. InSlot(x) <=> x = store.file.msg BY <1>5, <2>2
  <2>7. Queued(x)' <=> Queued(x) BY <2>2 DEF Queued, queues
  <2>8. Settled(x)' = Settled(x)
    BY <1>4, <2>2, <2>3, <2>4, <2>5, <2>6, <2>7 DEF Settled, One
  <2>9. Once(x)' BY <1>1, <2>2, <2>5 DEF Once, OnceIn, queues
  <2> QED BY <1>3, <2>8, <2>9
<1>9. CASE BootReplay
  <2>1. /\ pc = "boot" /\ pc' = "clear" /\ store.file # Empty /\ store' = Loaded(store)
        /\ Enqueue(store.file.msg) /\ UNCHANGED gone
    BY <1>5, <1>9 DEF BootReplay, Replayable
  <2>2. store.file.msg \in Msgs BY <1>0, <2>1, EmptyIsNoEntry DEF SlotInv, SlotTypes
  <2>3. x = store.file.msg => ~Queued(x) /\ InSlot(x)
    BY <1>4, <1>5, <2>1, SettledParts
  <2>4. /\ Queued(x)' <=> Queued(x) \/ x = store.file.msg
        /\ OnceIn(userQ, x)' /\ OnceIn(systemQ, x)'
    BY <1>0, <1>1, <2>1, <2>2, <2>3, EnqueuePlaces DEF Once
  <2>5. InSlot(x) <=> x = store.file.msg BY <1>5, <2>1
  <2>6. (IsGone(x)' <=> IsGone(x)) /\ GoneOnce(x)'
    BY <1>1, <2>1 DEF IsGone, GoneOnce, Once
  <2>7. Settled(x)' = Settled(x)
    BY <2>1, <2>3, <2>4, <2>5, <2>6 DEF Settled, One
  <2>8. Once(x)' BY <2>4, <2>6 DEF Once
  <2> QED BY <1>3, <2>7, <2>8
<1>10. CASE BootClear
  <2>1. PICK o \in Clear(store) :
          /\ store' = o.store
          /\ stale' = IF o.ok THEN stale ELSE stale \cup {store.entry.msg}
    BY <1>10 DEF BootClear, Outcome
  <2>2. pc = "clear" /\ pc' = "poll" /\ UNCHANGED <<queues, gone>>
    BY <1>10 DEF BootClear
  <2>3. store.entry = store.file
    BY <1>0, <2>2 DEF SlotInv, MirrorMatchesFile
  <2>4. ~InSlot(x)'
    <3>1. CASE o = [ok |-> TRUE, store |-> Emptied(Empty)]
      BY <2>1, <3>1 DEF InSlot, Emptied
    <3>2. CASE o = [ok |-> FALSE, store |-> store]
      BY <2>1, <2>3, <3>2 DEF InSlot
    <3> QED BY <3>1, <3>2 DEF Clear, Emptied
  <2>5. Settled(x)' = Settled(x)
    BY <2>2, <2>4 DEF Settled, One, Queued, IsGone, queues
  <2>6. Once(x)' BY <1>1, <2>2 DEF Once, OnceIn, GoneOnce, queues
  <2> QED BY <1>3, <2>5, <2>6
<1> QED BY <1>6, <1>7, <1>8, <1>9, <1>10 DEF Boot

LEMMA PollPlaces ==
  ASSUME InboundAssumption, PathInv, Poll, NEW x \in Msgs, Placed(x)
  PROVE  Placed(x)'
<1>0. QueueTypes /\ HandInv BY DEF PathInv
<1>1. UNCHANGED <<store, senders, delayed, gone>>
  BY DEF Poll, PollPreferred, PollUser, PollSystem, WaitUser, Elsewhere
<1>2. pc \in {"poll", "user", "system", "wait"} /\ hand # x
  BY <1>0, InboundAssumption
     DEF Poll, PollPreferred, PollUser, PollSystem, WaitUser, HandInv, InboundAssumption
<1>3. CASE TakeUser \/ TakeSystem
  <2>1. /\ Queued(x)' <=> Queued(x) /\ x # hand'
        /\ hand' = x => Queued(x)
        /\ OnceIn(userQ, x)' /\ OnceIn(systemQ, x)'
    BY <1>0, <1>3, TakePlaces DEF Placed, Once
  <2>2. pc' = "taken" BY <1>3 DEF TakeUser, TakeSystem
  <2>3. /\ (InSlot(x)' <=> InSlot(x)) /\ (IsGone(x)' <=> IsGone(x))
        /\ UNCHANGED <<ingress, delayed, unsent>>
    BY <1>1 DEF InSlot, IsGone, senders
  <2>4. Once(x)' BY <1>1, <2>1 DEF Once, GoneOnce, Placed
  <2>5. Held(x)' + Settled(x)' = Held(x) + Settled(x)
    <3>1. One(Queued(x))' + One(hand = x)' = One(Queued(x)) + One(hand = x)
      BY <1>2, <2>1 DEF One
    <3>2. One(x \in ingress)' = One(x \in ingress) /\ One(x \in delayed)' = One(x \in delayed)
      BY <2>3 DEF One
    <3>3. /\ One(InSlot(x) /\ pc # "clear")' = One(InSlot(x) /\ pc # "clear")
          /\ One(IsGone(x))' = One(IsGone(x))
      BY <1>2, <2>2, <2>3 DEF One
    <3> QED BY <3>1, <3>2, <3>3 DEF Held, Settled, One
  <2> QED BY <2>3, <2>4, <2>5 DEF Placed, One
<1>4. CASE UNCHANGED <<queues, hand>> /\ pc' # "clear"
  <2>1. Settled(x)' = Settled(x) /\ Once(x)'
    BY <1>1, <1>2, <1>4, NothingSettles DEF Placed
  <2>2. Held(x)' = Held(x) /\ unsent' = unsent BY <1>1, <1>4 DEF Held, senders
  <2> QED BY <2>1, <2>2 DEF Placed
<1> QED BY <1>3, <1>4 DEF Poll, PollPreferred, PollUser, PollSystem, WaitUser, GoOn

LEMMA TurnPlaces ==
  ASSUME ReplayAssumption, InboundAssumption, PathInv, Turn, NEW x \in Msgs, Placed(x)
  PROVE  Placed(x)'
<1>0. SlotInv /\ QueueTypes /\ HandInv BY DEF PathInv
<1>1. UNCHANGED senders
  BY DEF Turn, AdoptLaneJob, Begin, MaintenanceReply, RunLaneJob, Reject, Defer, Degrade,
         Admit, Complete, FailUncounted, FailCounted, TurnAside
<1>2. pc \in {"taken", "admit", "work"} /\ pc' # "clear" /\ hand \in Msgs
  <2>1. pc \in {"taken", "admit", "work"} /\ pc' # "clear"
    BY DEF Turn, AdoptLaneJob, Begin, MaintenanceReply, RunLaneJob, Reject, Defer, Degrade,
           Admit, Complete, FailUncounted, FailCounted, Admitting, NextMessage
  <2> QED BY <2>1, <1>0, InboundAssumption DEF HandInv
<1>3. Light(hand, x)
  <2>1. x = hand => Held(x) # 0 BY SettledParts
  <2> QED BY <2>1, PlacedIsLight
<1>4. ASSUME NEW why, Leaves(why), UNCHANGED <<NoSlot, queues, delayed>>, NextMessage
      PROVE  Placed(x)'
  <2>1. PutDown(hand, x) BY <1>2, <1>3, <1>4, LeaveSettles DEF Leaves, NoSlot
  <2> QED BY <1>1, <1>4, <2>1, AgentHandsOn DEF NextMessage
<1>5. ASSUME Requeue(hand), UNCHANGED delayed, NextMessage
      PROVE  Placed(x)'
  <2>1. PutDown(hand, x) BY <1>0, <1>2, <1>3, <1>5, RequeueSettles
  <2> QED BY <1>1, <1>5, <2>1, AgentHandsOn DEF NextMessage
<1>6. CASE AdoptLaneJob \/ MaintenanceReply \/ RunLaneJob \/ Reject \/ Complete \/ FailUncounted
  BY <1>4, <1>6 DEF AdoptLaneJob, MaintenanceReply, RunLaneJob, Reject, Complete, FailUncounted
<1>7. CASE Begin \/ Admit
  <2>1. UNCHANGED <<store, queues, delayed, hand, gone>>
    BY <1>7 DEF Begin, Admit, NoSlot
  <2>2. Settled(x)' = Settled(x) /\ Once(x)'
    BY <1>2, <2>1, NothingSettles DEF Placed
  <2>3. Held(x)' = Held(x) /\ unsent' = unsent BY <1>1, <2>1 DEF Held, senders
  <2> QED BY <2>2, <2>3 DEF Placed
<1>8. CASE Defer
  <2>1. NextMessage BY <1>8 DEF Defer
  <2>2. CASE DeferDrops BY <1>4, <2>1, <2>2 DEF DeferDrops
  <2>3. CASE DeferRequeues BY <1>5, <2>1, <2>3 DEF DeferRequeues
  <2>4. CASE DeferParks /\ SaveSlot(hand) /\ UNCHANGED delayed
    <3>1. PutDown(hand, x) BY <1>0, <1>2, <1>3, <2>4, SaveSettles DEF DeferParks
    <3> QED BY <1>1, <2>1, <2>4, <3>1, AgentHandsOn DEF NextMessage
  <2>5. CASE DeferParks /\ delayed' = delayed \cup {hand} /\ UNCHANGED <<NoSlot, gone>>
    <3>1. Settled(x)' = Settled(x) /\ Once(x)'
      BY <1>2, <2>5, NothingSettles DEF Placed, DeferParks, NoSlot
    <3>2. x = hand => x \notin delayed
      BY DEF Placed, Held, Settled, One
    <3>3. hand' # x BY <2>1, InboundAssumption DEF NextMessage, InboundAssumption
    <3>4. Held(x)' = Held(x) BY <1>1, <2>5, <3>2, <3>3 DEF Held, One, senders
    <3> QED BY <1>1, <3>1, <3>4 DEF Placed, senders
  <2> QED BY <1>8, <2>2, <2>3, <2>4, <2>5 DEF Defer, DeferParks
<1>9. CASE Degrade \/ FailCounted
  BY <1>4, <1>5, <1>9 DEF Degrade, FailCounted
<1> QED BY <1>6, <1>7, <1>8, <1>9 DEF Turn

\* The process ends: what was in a thread's hands or in a queue is gone unless
\* the slot still holds it, and what the slot holds waits for boot.
LEMMA CrashPlaces ==
  ASSUME InboundAssumption, PathInv, PlaceInv, Crash, NEW x \in Msgs, x \notin stale
  PROVE  Placed(x)'
<1>1. Placed(x) BY DEF PlaceInv
<1>2. /\ unsent' = unsent /\ ingress' = {} /\ delayed' = {} /\ hand' = NoMsg
      /\ userQ' = <<>> /\ systemQ' = <<>> /\ pc' = "boot" /\ store' = Fresh(store.file)
      /\ gone' = gone \cup {Left(m, "crash") : m \in {y \in Volatile : ~InSlot(y)}}
  BY DEF Crash
<1>3. ~Queued(x)' /\ Held(x)' = 0
  BY <1>2, InboundAssumption DEF Queued, ToSet, Held, One, InboundAssumption
<1>4. InSlot(x)' <=> InSlot(x)
  BY <1>2 DEF InSlot, Fresh, PlaceInv, SlotPlaces
<1>5. x \in Volatile <=> Held(x) # 0 \/ Queued(x)
  BY InboundAssumption DEF Volatile, Queued, Held, One, InboundAssumption
<1>6. IsGone(x)' <=> IsGone(x) \/ (x \in Volatile /\ ~InSlot(x))
  <2> DEFINE ended == {Left(m, "crash") : m \in {y \in Volatile : ~InSlot(y)}}
  <2>1. (\E l \in ended : l.msg = x) <=> x \in Volatile /\ ~InSlot(x)
    <3>1. \A m : Left(m, "crash").msg = m BY DEF Left
    <3>2. x \in Volatile /\ ~InSlot(x) => Left(x, "crash") \in ended OBVIOUS
    <3>3. \A l \in ended : \E m \in Volatile : l = Left(m, "crash") /\ ~InSlot(m) OBVIOUS
    <3> HIDE DEF ended
    <3> QED BY <3>1, <3>2, <3>3
  <2>2. gone' = gone \cup ended BY <1>2
  <2> HIDE DEF ended
  <2> QED BY <2>1, <2>2 DEF IsGone
<1>7. IsGone(x) => x \notin Volatile
  BY <1>1, <1>5 DEF Placed, Settled, Held, One
<1>8. GoneOnce(x)'
  BY <1>1, <1>2, <1>7 DEF GoneOnce, Placed, Once, IsGone, Left
<1>9. OnceIn(userQ, x)' /\ OnceIn(systemQ, x)' BY <1>2 DEF OnceIn
<1>10. ASSUME pc = "clear", InSlot(x) PROVE Queued(x) /\ ~IsGone(x)
  <2>1. store.file.msg = x /\ Queued(x) BY <1>10 DEF InSlot, PlaceInv, SlotPlaces
  <2> QED BY <1>1, <2>1, SettledParts DEF Placed, Settled, One
<1>11. Settled(x)' = Held(x) + Settled(x)
  <2>1. Settled(x)' = One(InSlot(x)) + One(IsGone(x) \/ (x \in Volatile /\ ~InSlot(x)))
    BY <1>2, <1>3, <1>4, <1>6 DEF Settled, One
  <2>2. Held(x) \in Nat /\ Held(x) + Settled(x) \in {0, 1}
    BY <1>1, SettledParts DEF Placed, One
  <2> QED BY <1>5, <1>10, <2>1, <2>2 DEF Settled, One
<1>12. Held(x)' + Settled(x)' = One(x \notin unsent)'
  BY <1>1, <1>2, <1>3, <1>11, SettledParts DEF Placed, One
<1> QED BY <1>8, <1>9, <1>12 DEF Placed, Once

LEMMA SenderPlaces ==
  ASSUME ReplayAssumption, InboundAssumption, PathInv, NEW m \in Msgs, NEW x \in Msgs, Placed(x),
         \/ Arrive(m) \/ IngressSends(m) \/ IngressFull(m) \/ IngressSaves(m)
         \/ DelayedRuns(m) \/ SystemSends(m)
  PROVE  Placed(x)'
<1>0. SlotInv /\ QueueTypes BY DEF PathInv
<1>1. pc' = pc /\ pc # "clear" /\ hand' = hand
  BY DEF Running, Arrive, IngressSends, IngressFull, IngressSaves, DelayedRuns, SystemSends
<1>2. CASE Arrive(m)
  <2>1. /\ UNCHANGED <<store, queues, delayed, gone>> /\ m \in unsent
        /\ unsent' = unsent \ {m} /\ ingress' = ingress \cup {m}
    BY <1>2 DEF Arrive
  <2>2. Settled(x)' = Settled(x) /\ Once(x)'
    BY <1>1, <2>1, NothingSettles DEF Placed
  <2>3. x = m => Held(x) = 0 BY <2>1, SettledParts DEF Placed, One
  <2>4. Held(x)' = Held(x) + One(x = m)
    BY <1>1, <2>1, <2>3, SettledParts DEF Held, One
  <2>5. One(x \notin unsent)' = One(x \notin unsent) + One(x = m)
    BY <2>1 DEF One
  <2> QED BY <2>2, <2>4, <2>5, SettledParts DEF Placed, One
<1>3. CASE IngressFull(m)
  <2>1. UNCHANGED <<store, queues, delayed, gone, unsent, ingress>>
    BY <1>3 DEF IngressFull
  <2>2. Settled(x)' = Settled(x) /\ Once(x)' BY <1>1, <2>1, NothingSettles DEF Placed
  <2>3. Held(x)' = Held(x) BY <1>1, <2>1 DEF Held
  <2> QED BY <2>1, <2>2, <2>3 DEF Placed
<1>4. CASE IngressSends(m) \/ IngressSaves(m)
  <2>1. m \in ingress /\ ingress' = ingress \ {m} /\ UNCHANGED <<unsent, delayed>>
    BY <1>4 DEF IngressSends, IngressSaves, LetGo
  <2>2. Light(m, x)
    <3>1. x = m => Held(x) # 0 BY <2>1, SettledParts
    <3> QED BY <3>1, PlacedIsLight
  <2>3. PutDown(m, x)
    BY <1>0, <1>1, <1>4, <2>2, EnqueueSettles, SaveSettles DEF IngressSends, IngressSaves
  <2>4. Held(x)' + One(x = m) = Held(x) BY <1>1, <2>1 DEF Held, One
  <2> QED BY <2>1, <2>3, <2>4, HandedOn, HeldTypes
<1>5. CASE DelayedRuns(m)
  <2>1. m \in delayed /\ delayed' = delayed \ {m} /\ UNCHANGED <<unsent, ingress, store>>
    BY <1>5 DEF DelayedRuns, senders
  <2>2. Light(m, x)
    <3>1. x = m => Held(x) # 0 BY <2>1, SettledParts
    <3> QED BY <3>1, PlacedIsLight
  <2>3. PutDown(m, x)
    BY <1>0, <1>1, <1>5, <2>1, <2>2, EnqueueSettles, LeaveSettles DEF DelayedRuns
  <2>4. Held(x)' + One(x = m) = Held(x) BY <1>1, <2>1 DEF Held, One
  <2> QED BY <2>1, <2>3, <2>4, HandedOn, HeldTypes
<1>6. CASE SystemSends(m)
  <2>1. m \in unsent /\ unsent' = unsent \ {m} /\ UNCHANGED <<ingress, delayed, store>>
    BY <1>6 DEF SystemSends
  <2>2. Light(m, x) BY <2>1, PlacedIsLight
  <2>3. PutDown(m, x)
    BY <1>0, <1>1, <1>6, <2>1, <2>2, EnqueueSettles, LeaveSettles DEF SystemSends
  <2>4. Held(x)' = Held(x) BY <1>1, <2>1 DEF Held
  <2>5. One(x \notin unsent)' = One(x \notin unsent) + One(x = m)
    BY <2>1 DEF One
  <2> QED BY <2>3, <2>4, <2>5, SettledParts DEF Placed, PutDown, One
<1> QED BY <1>2, <1>3, <1>4, <1>5, <1>6

LEMMA PlacedStep ==
  ASSUME ReplayAssumption, InboundAssumption, PathInv, PlaceInv, [Next]_vars,
         NEW x \in Msgs, x \notin stale'
  PROVE  Placed(x)'
<1>1. x \notin stale /\ Placed(x) BY StaleGrows DEF PlaceInv
<1>2. CASE Boot BY <1>2, BootPlaces
<1>3. CASE Poll BY <1>1, <1>3, PollPlaces
<1>4. CASE Turn BY <1>1, <1>4, TurnPlaces
<1>5. CASE Crash BY <1>1, <1>5, CrashPlaces
<1>6. ASSUME NEW m \in Msgs,
             \/ Arrive(m) \/ IngressSends(m) \/ IngressFull(m) \/ IngressSaves(m)
             \/ DelayedRuns(m) \/ SystemSends(m)
      PROVE  Placed(x)'
  BY <1>1, <1>6, SenderPlaces
<1>7. CASE UNCHANGED vars
  <2>1. Settled(x)' = Settled(x) /\ Once(x)'
    BY <1>1, <1>7, NothingSettles DEF Placed, vars
  <2>2. Held(x)' = Held(x) /\ unsent' = unsent BY <1>7 DEF vars, senders, Held
  <2> QED BY <1>1, <2>1, <2>2 DEF Placed
<1> QED BY <1>2, <1>3, <1>4, <1>5, <1>6, <1>7 DEF Next, Agent, Msgs

\* What the file of the slot holds has come.
LEMMA FileSent ==
  ASSUME ReplayAssumption, InboundAssumption, SlotInv, PlaceInv, store.file # Empty
  PROVE  store.file.msg \in Msgs /\ store.file.msg \notin unsent
<1>1. store.file.msg \in Msgs BY EmptyIsNoEntry DEF SlotInv, SlotTypes
<1>2. CASE store.file.msg \in stale BY <1>1, <1>2 DEF PlaceInv, SlotPlaces
<1>3. CASE store.file.msg \notin stale
  <2>1. InSlot(store.file.msg) BY <1>3 DEF InSlot, PlaceInv, SlotPlaces
  <2>2. Placed(store.file.msg) BY <1>1, <1>3 DEF PlaceInv
  <2>3. Settled(store.file.msg) # 0 BY <2>1, SettledParts DEF PlaceInv, SlotPlaces
  <2> QED BY <1>1, <2>2, <2>3, SettledParts DEF Placed, One
<1> QED BY <1>2, <1>3

LEMMA SaveSlotPlaces ==
  ASSUME ReplayAssumption, InboundAssumption, SlotInv, SlotPlaces, NEW m \in Msgs, SaveSlot(m),
         UNCHANGED stale, unsent' \subseteq unsent, pc' # "clear"
  PROVE  SlotPlaces'
<1>1. PICK o \in Save(store, m) : store' = o.store BY DEF SaveSlot, Outcome
<1>2. store' = store \/ store' = Loaded(store) \/ store'.file = store'.entry
  BY <1>1 DEF Save, ReadFailure, Holding
<1>3. ~store.loaded => Loaded(store).file = Loaded(store).entry BY DEF Loaded
<1>4. store.loaded => Loaded(store) = store BY DEF Loaded
<1> QED BY <1>2, <1>3, <1>4 DEF SlotPlaces

LEMMA SlotPlacesKept ==
  ASSUME SlotPlaces, UNCHANGED <<store, stale>>, unsent' \subseteq unsent, pc' # "clear"
  PROVE  SlotPlaces'
  BY DEF SlotPlaces

LEMMA SlotPlacesStep ==
  ASSUME ReplayAssumption, InboundAssumption, PathInv, PlaceInv, [Next]_vars
  PROVE  SlotPlaces'
<1>0. SlotInv /\ QueueTypes /\ HandInv /\ SlotPlaces BY DEF PathInv, PlaceInv
<1>1. CASE UNCHANGED vars
  BY <1>0, <1>1 DEF vars, senders, queues, ghosts, SlotPlaces, Queued
<1>2. CASE Boot
  <2>1. UNCHANGED unsent
    BY <1>2 DEF Boot, BootUnreadable, BootNothing, BootDiscard, BootDropStale, BootReplay,
                BootClear, senders
  <2>2. CASE BootUnreadable
    <3>1. store' = store /\ stale' = stale /\ pc' = "poll"
      BY <2>2 DEF BootUnreadable, ReadFailure, Outcome, ghosts
    <3> QED BY <1>0, <2>1, <3>1, SlotPlacesKept
  <2>3. CASE BootNothing
    <3>1. store'.file = store'.entry /\ stale' = stale /\ pc' = "poll"
      BY <1>0, <2>3 DEF BootNothing, Loaded, ghosts, SlotInv
    <3> QED BY <1>0, <2>1, <3>1 DEF SlotPlaces
  <2>4. CASE BootDiscard \/ BootDropStale
    <3>1. pc' = "poll" /\ store.file # Empty
      BY <1>0, <2>4 DEF BootDiscard, BootDropStale, CountedOut, Replayable, Loaded, SlotInv
    <3>2. stale' \subseteq stale \cup {store.file.msg}
      BY <2>4 DEF BootDiscard, BootDropStale
    <3>3. stale' \cap unsent' = {} BY <1>0, <2>1, <3>1, <3>2, FileSent DEF SlotPlaces
    <3>4. store'.file # Empty /\ store'.loaded /\ store'.entry = Empty => store'.file.msg \in stale'
      <4>1. CASE BootDiscard
        <5>1. PICK o \in Discard(store) :
                store' = o.store /\ stale' = IF o.ok THEN stale ELSE stale \cup {store.file.msg}
          BY <4>1 DEF BootDiscard, Outcome
        <5>2. CASE o = [ok |-> TRUE, store |-> Emptied(Empty)] BY <5>1, <5>2 DEF Emptied
        <5>3. CASE o = [ok |-> FALSE, store |-> Emptied(store.file)] BY <5>1, <5>3 DEF Emptied
        <5> QED BY <5>2, <5>3 DEF Discard, Emptied
      <4>2. CASE BootDropStale
        <5>1. store' = Emptied(Empty) \/ store' = Loaded(store)
          BY <4>2, ClearOutcomes DEF BootDropStale, Outcome
        <5>2. Loaded(store).entry # Empty BY <4>2 DEF BootDropStale, Replayable
        <5> QED BY <5>1, <5>2 DEF Emptied
      <4> QED BY <2>4, <4>1, <4>2
    <3> QED BY <3>1, <3>3, <3>4 DEF SlotPlaces
  <2>5. CASE BootReplay
    <3>1. /\ store' = Loaded(store) /\ Loaded(store).entry # Empty /\ stale' = stale
          /\ Enqueue(store.file.msg) /\ Loaded(store).file = store.file
      BY <2>5 DEF BootReplay, Replayable, Loaded
    <3>2. store.file # Empty BY <1>0, <2>5, <3>1 DEF BootReplay, Loaded, SlotInv
    <3>3. store.file.msg \in Msgs BY <1>0, <3>2, FileSent
    <3>4. Queued(store.file.msg)'
      <4>1. CASE store.file.msg \in UserMsgs
        <5>1. userQ' = Append(userQ, store.file.msg) BY <3>1, <4>1 DEF Enqueue
        <5>2. store.file.msg \in ToSet(userQ') BY <1>0, <4>1, <5>1, AppendPlaces DEF QueueTypes
        <5> QED BY <3>1, <5>2 DEF Queued
      <4>2. CASE store.file.msg \notin UserMsgs
        <5>1. systemQ' = Append(systemQ, store.file.msg) BY <3>1, <4>2 DEF Enqueue
        <5>2. store.file.msg \in SystemMsgs BY <3>3, <4>2 DEF Msgs
        <5>3. store.file.msg \in ToSet(systemQ') BY <1>0, <5>1, <5>2, AppendPlaces DEF QueueTypes
        <5> QED BY <3>1, <5>3 DEF Queued
      <4> QED BY <4>1, <4>2
    <3> QED BY <1>0, <2>1, <3>1, <3>4 DEF SlotPlaces, Queued
  <2>6. CASE BootClear
    <3>1. pc = "clear" /\ pc' = "poll" /\ store.entry # Empty /\ store.entry = store.file
      BY <1>0, <2>6 DEF BootClear, SlotInv, MirrorMatchesFile
    <3>2. store' = Emptied(Empty) \/ store' = store
      BY <2>6, ClearOutcomes DEF BootClear, Outcome
    <3>3. stale' \subseteq stale \cup {store.file.msg} BY <2>6, <3>1 DEF BootClear
    <3>4. stale' \cap unsent' = {} BY <1>0, <2>1, <3>1, <3>3, FileSent DEF SlotPlaces
    <3> QED BY <3>1, <3>2, <3>4 DEF SlotPlaces, Emptied
  <2> QED BY <1>2, <2>2, <2>3, <2>4, <2>5, <2>6 DEF Boot
<1>3. CASE Poll
  <2>1. UNCHANGED <<store, stale, unsent>> /\ pc' # "clear"
    BY <1>3 DEF Poll, PollPreferred, PollUser, PollSystem, WaitUser, Elsewhere, TakeUser,
                TakeSystem, GoOn, ghosts, senders
  <2> QED BY <1>0, <2>1, SlotPlacesKept
<1>4. CASE Turn
  <2>1. UNCHANGED <<stale, unsent>>
    BY <1>4 DEF Turn, AdoptLaneJob, Begin, MaintenanceReply, RunLaneJob, Reject, Defer, Degrade,
                Admit, Complete, FailUncounted, FailCounted, TurnAside, senders, ghosts
  <2>2. pc \in {"taken", "admit", "work"} /\ pc' # "clear"
    BY <1>4 DEF Turn, AdoptLaneJob, Begin, MaintenanceReply, RunLaneJob, Reject, Defer, Degrade,
                Admit, Complete, FailUncounted, FailCounted, Admitting, NextMessage
  <2>3. hand \in Msgs BY <1>0, <2>2, InboundAssumption DEF HandInv
  <2>4. UNCHANGED store \/ SaveSlot(hand)
    BY <1>4 DEF Turn, AdoptLaneJob, Begin, MaintenanceReply, RunLaneJob, Reject, Defer, Degrade,
                DeferDrops, DeferParks, DeferRequeues, Admit, Complete, FailUncounted,
                FailCounted, Requeue, NoSlot
  <2> QED BY <1>0, <2>1, <2>2, <2>3, <2>4, SaveSlotPlaces, SlotPlacesKept
<1>5. CASE Crash
  BY <1>0, <1>5 DEF Crash, Fresh, ghosts, SlotPlaces
<1>6. ASSUME NEW m \in Msgs,
             \/ Arrive(m) \/ IngressSends(m) \/ IngressFull(m) \/ IngressSaves(m)
             \/ DelayedRuns(m) \/ SystemSends(m)
      PROVE  SlotPlaces'
  <2>1. stale' = stale /\ unsent' \subseteq unsent /\ pc' # "clear"
    BY <1>6 DEF Arrive, IngressSends, IngressFull, IngressSaves, DelayedRuns, SystemSends,
                Running, ghosts, senders
  <2>2. UNCHANGED store \/ SaveSlot(m)
    BY <1>6 DEF Arrive, IngressSends, IngressFull, IngressSaves, DelayedRuns, SystemSends
  <2> QED BY <1>0, <2>1, <2>2, SaveSlotPlaces, SlotPlacesKept
<1> QED BY <1>1, <1>2, <1>3, <1>4, <1>5, <1>6 DEF Next, Agent, Msgs

LEMMA PlaceInit ==
  ASSUME ReplayAssumption, InboundAssumption, Init
  PROVE  PlaceInv
<1>1. ASSUME NEW m \in Msgs PROVE Placed(m)
  <2>1. ~Queued(m) /\ ~InSlot(m) /\ ~IsGone(m) /\ Once(m)
    BY DEF Init, Fresh, Queued, ToSet, InSlot, IsGone, Once, OnceIn, GoneOnce
  <2>2. Held(m) = 0 BY InboundAssumption DEF Init, Held, One, InboundAssumption
  <2>3. Settled(m) = 0 BY <2>1 DEF Settled, One
  <2> QED BY <2>1, <2>2, <2>3 DEF Placed, One, Init
<1> QED BY <1>1 DEF PlaceInv, SlotPlaces, Init, Fresh

\* The entries of a message that is gone at most once.
LEMMA GoneCount ==
  ASSUME NEW m, GoneOnce(m)
  PROVE  Cardinality({l \in gone : l.msg = m}) = One(IsGone(m))
<1>1. CASE IsGone(m)
  <2>1. PICK k \in gone : k.msg = m BY <1>1 DEF IsGone
  <2>2. {l \in gone : l.msg = m} = {k} BY <2>1 DEF GoneOnce
  <2> QED BY <1>1, <2>2, FS_Singleton DEF One
<1>2. CASE ~IsGone(m)
  <2>1. {l \in gone : l.msg = m} = {} BY <1>2 DEF IsGone
  <2> QED BY <1>2, <2>1, FS_EmptySet DEF One
<1> QED BY <1>1, <1>2

\* A message that has come is in one place, or gone for one reason, over all
\* the ways in which ingress threads, deferrals, retries, restarts and failing
\* writes of the slot hand it on (bootstrap_pending_retry_into_inbound,
\* run_agent_loop_main, save_pending_retry, clear_pending_retry).
THEOREM OnePlaceCorrect == Spec => []MessageInOnePlace
<1>1. Init => PlaceInv BY PlaceInit, ReplayAssumption, InboundAssumption
<1>2. PathInv /\ PlaceInv /\ [Next]_vars => PlaceInv'
  BY PlacedStep, SlotPlacesStep, ReplayAssumption, InboundAssumption DEF PlaceInv
<1>3. PathInv /\ PlaceInv => MessageInOnePlace
  <2> SUFFICES ASSUME PathInv, PlaceInv, NEW m \in Msgs, m \notin unsent, m \notin stale
               PROVE  PlacesOf(m) = 1
    BY DEF MessageInOnePlace
  <2>1. Held(m) + Settled(m) = 1 /\ GoneOnce(m) BY DEF PlaceInv, Placed, Once, One
  <2>2. ToSet(userQ) \subseteq UserMsgs /\ ToSet(systemQ) \subseteq SystemMsgs
    BY ElementOfSeq, LenProperties DEF ToSet, PathInv, QueueTypes
  <2>3. UserMsgs \cap SystemMsgs = {} BY InboundAssumption DEF InboundAssumption
  <2>4. One(m \in ToSet(userQ)) + One(m \in ToSet(systemQ)) = One(Queued(m))
    BY <2>2, <2>3 DEF Queued, One
  <2>5. Cardinality({l \in gone : l.msg = m}) = One(IsGone(m)) BY <2>1, GoneCount
  <2> QED BY <2>1, <2>4, <2>5 DEF PlacesOf, Held, Settled, One
<1> QED BY <1>1, <1>2, <1>3, PathCorrect, PTL DEF Spec
=============================================================================
