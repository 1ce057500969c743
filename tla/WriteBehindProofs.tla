-------------------------- MODULE WriteBehindProofs --------------------------
(***************************************************************************)
(* That the write-back plane implements WriteBehind: the storage gets what *)
(* was accepted for a chat in order and once, but for the failures of the  *)
(* storage itself.                                                         *)
(*                                                                         *)
(* A step of the plane is mapped through the line of each chat, Line: what *)
(* the flush holds of the chat, then what is pending.  Most steps leave    *)
(* every line alone; a caller's write, a write of the storage and one that *)
(* fails change the line of one chat each.                                 *)
(***************************************************************************)
EXTENDS WriteBackProofs

-----------------------------------------------------------------------------
(* Sequences.                                                              *)

LEMMA FrontOfJoin ==
  ASSUME NEW a \in Seq(Nat), NEW b \in Seq(Nat), NEW n \in 0..Len(a)
  PROVE  SubSeq(a \o b, 1, n) = SubSeq(a, 1, n)
<1>1. a \o b \in Seq(Nat) /\ Len(a \o b) = Len(a) + Len(b) OBVIOUS
<1>2. Len(SubSeq(a \o b, 1, n)) = n /\ Len(SubSeq(a, 1, n)) = n BY <1>1
<1>3. \A i \in 1..n : SubSeq(a \o b, 1, n)[i] = SubSeq(a, 1, n)[i] BY <1>1
<1>4. SubSeq(a \o b, 1, n) \in Seq(Nat) /\ SubSeq(a, 1, n) \in Seq(Nat) BY <1>1
<1> QED BY <1>2, <1>3, <1>4

LEMMA WholeFront ==
  ASSUME NEW a \in Seq(Nat), NEW b \in Seq(Nat)
  PROVE  SubSeq(a \o b, 1, Len(a)) = a
<1>1. SubSeq(a, 1, Len(a)) = a OBVIOUS
<1> QED BY <1>1, FrontOfJoin

LEMMA RestOfJoin ==
  ASSUME NEW a \in Seq(Nat), NEW b \in Seq(Nat)
  PROVE  SubSeq(a \o b, Len(a) + 1, Len(a \o b)) = b
<1>1. a \o b \in Seq(Nat) /\ Len(a \o b) = Len(a) + Len(b) OBVIOUS
<1> DEFINE r == SubSeq(a \o b, Len(a) + 1, Len(a \o b))
<1>2. r \in Seq(Nat) /\ Len(r) = Len(b) BY <1>1
<1>3. \A i \in 1..Len(b) : r[i] = b[i] BY <1>1
<1> HIDE DEF r
<1>4. r = b BY <1>2, <1>3
<1> QED BY <1>4 DEF r

LEMMA JoinIsAssociative ==
  ASSUME NEW a \in Seq(Nat), NEW b \in Seq(Nat), NEW d \in Seq(Nat)
  PROVE  (a \o b) \o d = a \o (b \o d)
OBVIOUS

LEMMA EmptyJoin ==
  ASSUME NEW a \in Seq(Nat)
  PROVE  a \o <<>> = a /\ <<>> \o a = a
OBVIOUS

-----------------------------------------------------------------------------
(* Writes, their atoms and what they do to the contents of a store.        *)

\* A write of a store: a map store's replaces the value, and no entry is 0.
Sound(s, write) ==
  write # NoWrite => /\ s \in MapStores => write.clear
                     /\ \A i \in 1..Len(write.entries) : write.entries[i] # 0

LEMMA AtomsType ==
  ASSUME NEW w \in Write \cup {NoWrite}
  PROVE  Atoms(w) \in Seq(Nat)
<1>1. CASE w = NoWrite BY <1>1 DEF Atoms
<1>2. CASE w # NoWrite
  <2>1. w.entries \in Seq(Nat) BY <1>2 DEF Write
  <2>2. <<0>> \in Seq(Nat) /\ <<>> \in Seq(Nat) OBVIOUS
  <2> QED BY <1>2, <2>1, <2>2 DEF Atoms
<1> QED BY <1>1, <1>2

LEMMA ReachedWithoutWipe ==
  ASSUME NEW old \in Seq(Nat), NEW q \in Seq(Nat), \A i \in 1..Len(q) : q[i] # 0
  PROVE  Behind!Reached(old, q) = old \o q
BY DEF Behind!Reached, Behind!LastWipe, Behind!Wipe

LEMMA ReachedWithWipe ==
  ASSUME NEW old \in Seq(Nat), NEW e \in Seq(Nat), \A i \in 1..Len(e) : e[i] # 0
  PROVE  Behind!Reached(old, <<0>> \o e) = e
<1> DEFINE q == <<0>> \o e
<1>1. q \in Seq(Nat) /\ Len(q) = Len(e) + 1 /\ q[1] = 0 OBVIOUS
<1>2. \A i \in 1..Len(q) : i # 1 => q[i] # 0
  <2>1. \A i \in 1..Len(q) : i # 1 => i - 1 \in 1..Len(e) /\ q[i] = e[i - 1] BY <1>1
  <2> QED BY <2>1
<1>3. SubSeq(q, 1 + 1, Len(q)) = e
  <2>1. <<0>> \in Seq(Nat) /\ Len(<<0>>) = 1 OBVIOUS
  <2> QED BY <2>1, RestOfJoin
<1> HIDE DEF q
<1>4. Behind!LastWipe(q) = {1} BY <1>1, <1>2 DEF Behind!LastWipe, Behind!Wipe
<1>5. (CHOOSE i \in {1} : TRUE) = 1 OBVIOUS
<1>6. Behind!Reached(old, q) = e BY <1>3, <1>4, <1>5 DEF Behind!Reached
<1> QED BY <1>6 DEF q

LEMMA WrittenIsReached ==
  ASSUME NEW old \in Seq(Nat), NEW w \in Write, w # NoWrite,
         \A i \in 1..Len(w.entries) : w.entries[i] # 0
  PROVE  Written(old, w) = Behind!Reached(old, Atoms(w))
<1>1. w.entries \in Seq(Nat) /\ w.clear \in BOOLEAN BY DEF Write
<1>2. CASE w.clear
  <2>1. Atoms(w) = <<0>> \o w.entries BY <1>2 DEF Atoms
  <2> QED BY <1>1, <1>2, <2>1, ReachedWithWipe DEF Written
<1>3. CASE ~w.clear
  <2>1. Atoms(w) = w.entries
    <3>1. Atoms(w) = <<>> \o w.entries BY <1>3 DEF Atoms
    <3> QED BY <1>1, <3>1, EmptyJoin
  <2> QED BY <1>1, <1>3, <2>1, ReachedWithoutWipe DEF Written
<1> QED BY <1>2, <1>3

\* A line may stay whole, and may lose what lies before a wipe.
LEMMA ThinnedWhole ==
  ASSUME NEW q
  PROVE  q \in Behind!Thinned(q)
BY DEF Behind!Thinned

LEMMA ThinnedBeforeWipe ==
  ASSUME NEW a \in Seq(Nat), NEW b \in Seq(Nat), NEW r \in Seq(Nat), Len(r) > 0, r[1] = 0
  PROVE  a \o r \in Behind!Thinned((a \o b) \o r)
<1> DEFINE ab == a \o b
           q  == ab \o r
<1>1. ab \in Seq(Nat) /\ Len(ab) = Len(a) + Len(b) OBVIOUS
<1>2. SubSeq(q, Len(ab) + 1, Len(q)) = r BY <1>1, RestOfJoin
<1>3. SubSeq(q, 1, Len(a)) = a
  <2>1. SubSeq(ab, 1, Len(a)) = a BY WholeFront
  <2>2. Len(a) \in 0..Len(ab) BY <1>1
  <2> HIDE DEF ab
  <2> QED BY <1>1, <2>1, <2>2, FrontOfJoin
<1>4. Len(ab) + 1 \in 1..Len(q) /\ q[Len(ab) + 1] = 0 /\ Len(a) \in 0..Len(q)
  <2> HIDE DEF ab
  <2> QED BY <1>1
<1> HIDE DEF ab, q
<1> DEFINE i == Len(a)
           j == Len(ab) + 1
<1>5. i \in 0..Len(q) /\ j \in {k \in 1..Len(q) : q[k] = Behind!Wipe}
  BY <1>4 DEF Behind!Wipe
<1>6. a \o r = SubSeq(q, 1, i) \o SubSeq(q, j, Len(q)) BY <1>2, <1>3
<1> HIDE DEF i, j
<1>7. a \o r \in {SubSeq(q, 1, n) \o SubSeq(q, j, Len(q)) : n \in 0..Len(q)} BY <1>5, <1>6
<1>8. a \o r \in Behind!Thinned(q) BY <1>5, <1>7 DEF Behind!Thinned
<1> QED BY <1>8 DEF q, ab

-----------------------------------------------------------------------------
(* The steps that touch the buffers.                                       *)

\* A step that leaves all that is buffered, taken and stored alone.
BuffersKept ==
  /\ UNCHANGED <<pending, stored, ops, faults, drained, failed>>
  /\ \A w \in Workers : /\ stage'[w] = "apply" <=> stage[w] = "apply"
                        /\ stage[w] = "apply" => flushing'[w] = flushing[w]

CallerWrites ==
  \E t \in Callers, c \in Chats :
    (\E s \in MapStores : Set(t, s, c)) \/ AppendTo(t, c) \/ Clear(t, c)

FlushMoves ==
  \E w \in Workers :
    \/ \E l \in Labels : TakeAll(w, l)
    \/ \E c \in Chats : Apply(w, c) \/ ApplyFails(w, c)
    \/ RestoreFailed(w)

LEMMA LookKeepsFaults ==
  ASSUME NEW t, NEW armed, Look(t, armed)
  PROVE  UNCHANGED faults
BY DEF Look, LookLater, LookDenied, LookGranted, ArmRetry, Refused, envVars

LEMMA StageMoves ==
  ASSUME Types, NEW w \in Workers, NEW place, Stage(w, place), place # "apply",
         stage[w] # "apply"
  PROVE  \A v \in Workers : stage'[v] = "apply" <=> stage[v] = "apply"
BY DEF Stage, Types, WorkerTypes

LEMMA StepsOfBuffers ==
  ASSUME Assumptions, Types, [Next]_vars
  PROVE  BuffersKept \/ CallerWrites \/ FlushMoves
<1>1. ASSUME UNCHANGED <<pending, stored, ops, faults, workerVars>>
      PROVE  BuffersKept
  BY <1>1 DEF BuffersKept, workerVars
<1>2. CASE \E t \in Threads : CallNext(t)
  <2>1. PICK t \in Threads : CallNext(t) BY <1>2
  <2>2. CASE \E s \in Stores : MarkScheduled(t, s) \/ ClearAfterReject(t, s)
    BY <1>1, <2>2 DEF MarkScheduled, ClearAfterReject, envVars
  <2>3. CASE Spawn(t)
    <3>1. PICK w \in Workers : stage[w] = "off" /\ Stage(w, "poll")
      <4> DEFINE off == {v \in Workers : stage[v] = "off" /\ at[v] = "idle"}
      <4>1. off # {} /\ Stage(CHOOSE w \in off : TRUE, "poll") BY <2>3 DEF Spawn
      <4>2. (CHOOSE w \in off : TRUE) \in off BY <4>1
      <4> QED BY <4>1, <4>2
    <3>2. \A v \in Workers : stage'[v] = "apply" <=> stage[v] = "apply" BY <3>1, StageMoves
    <3> QED BY <2>3, <3>2 DEF Spawn, BuffersKept, envVars, bufferVars
  <2>4. CASE QueueStep(t) /\ UNCHANGED <<bufferVars, workerVars>>
    <3>1. UNCHANGED faults
      BY <2>4, LookKeepsFaults
      DEF QueueStep, Push, Coalesce, Reject, EnsureStops, StartedAlready, SpawnFails, Refused, envVars
    <3> QED BY <1>1, <2>4, <3>1 DEF bufferVars
  <2> QED BY <2>1, <2>2, <2>3, <2>4 DEF CallNext, QueueStep
<1>3. CASE \E t \in Callers : CallStarts(t)
  <2>1. PICK t \in Callers : CallStarts(t) BY <1>3
  <2>2. CASE /\ \E l \in Maintenance : Push(t, l) \/ Coalesce(t, l)
             /\ UNCHANGED <<pending, stored, flag, stranded, ops, workerVars>>
    BY <1>1, <2>2, LookKeepsFaults DEF Push, Coalesce, envVars
  <2> QED BY <2>1, <2>2 DEF CallStarts, CallerWrites
<1>4. CASE AgentPolls \/ RetryNext
  BY <1>1, <1>4, LookKeepsFaults DEF AgentPolls, RetryNext, RetryFires, Poll, bufferVars
<1>5. CASE TimeNext \/ LoadNext
  BY <1>1, <1>5 DEF TimeNext, LoadNext, BecomesDue, AttemptTimeComes, LoadComes, LoadEnds,
                    bufferVars, envVars
<1>6. CASE \E w \in Workers : WorkerNext(w) \/ StopIdle(w)
  <2>1. PICK w \in Workers : WorkerNext(w) \/ StopIdle(w) BY <1>6
  <2>2. CASE TakeJobs(w) \/ RunJobs(w) \/ PutJobsBack(w) \/ JobsDone(w) \/ StopIdle(w)
    <3>1. UNCHANGED faults
      BY <2>2 DEF TakeJobs, RunJobs, PutJobsBack, JobsDone, StopIdle, ArmRetry, Refused, envVars
    <3>2. \A v \in Workers : stage'[v] = "apply" <=> stage[v] = "apply"
      BY <2>2, StageMoves DEF TakeJobs, RunJobs, PutJobsBack, JobsDone, StopIdle
    <3> QED BY <2>2, <3>1, <3>2
         DEF TakeJobs, RunJobs, PutJobsBack, JobsDone, StopIdle, BuffersKept, bufferVars
  <2>3. CASE ClearUnlooked(w) \/ CheckPending(w)
    <3>1. \A v \in Workers : stage'[v] = "apply" <=> stage[v] = "apply"
      BY <2>3, StageMoves DEF ClearUnlooked, CheckPending, FlushDone
    <3>2. \A v \in Workers : stage[v] = "apply" => flushing'[v] = flushing[v]
      BY <2>3 DEF ClearUnlooked, CheckPending, FlushDone, Types, WorkerTypes
    <3> QED BY <2>3, <3>1, <3>2
         DEF ClearUnlooked, CheckPending, FlushDone, BuffersKept, bufferVars, envVars
  <2>4. CASE ClearScheduled(w)
    <3>1. \A v \in Workers : stage'[v] = "apply" <=> stage[v] = "apply"
      BY <2>4, StageMoves DEF ClearScheduled
    <3> QED BY <2>4, <3>1 DEF ClearScheduled, BuffersKept, envVars
  <2> QED BY <2>1, <2>2, <2>3, <2>4 DEF WorkerNext, FlushNext, FlushMoves
<1>7. CASE UNCHANGED vars
  BY <1>1, <1>7 DEF vars, bufferVars, envVars
<1> QED BY <1>2, <1>3, <1>4, <1>5, <1>6, <1>7 DEF Next

-----------------------------------------------------------------------------
(* What the buffers hold at any time: sound writes, and of a chat that is  *)
(* being flushed no write both ahead of it and put aside.                  *)

HandInv(w) ==
  IF stage[w] = "apply"
    THEN \A c \in Chats : /\ Sound(flushing[w], drained[w][c])
                          /\ Sound(flushing[w], failed[w][c])
                          /\ drained[w][c] = NoWrite \/ failed[w][c] = NoWrite
    ELSE drained[w] = NoWrites /\ failed[w] = NoWrites

BufferInv ==
  /\ \A s \in Stores, c \in Chats : Sound(s, pending[s][c])
  /\ \A w \in Workers : HandInv(w)

LEMMA SoundWrites ==
  ASSUME Assumptions, NEW v \in Nat, v # 0, NEW s
  PROVE  Sound(s, SetWrite(v)) /\ Sound(s, ClearWrite)
BY DEF Sound, SetWrite, ClearWrite

LEMMA SoundAppended ==
  ASSUME Assumptions, NEW v \in Nat, v # 0, NEW w \in Write \cup {NoWrite}, Sound(Session, w)
  PROVE  Sound(Session, Appended(w, v))
<1>0. Session \notin MapStores BY DEF Assumptions, WorkerAssumption
<1>1. CASE w = NoWrite BY <1>0, <1>1 DEF Sound, Appended
<1>2. CASE w # NoWrite
  <2> DEFINE e == w.entries
             x == Append(e, v)
  <2>1. e \in Seq(Nat) BY <1>2 DEF Write
  <2>2. \A i \in 1..Len(e) : e[i] # 0 BY <1>2 DEF Sound
  <2>3. Appended(w, v).entries = x BY <1>2 DEF Appended
  <2> HIDE DEF e
  <2>4. \A i \in 1..Len(x) : x[i] # 0 BY <2>1, <2>2
  <2> HIDE DEF x
  <2> QED BY <1>0, <2>3, <2>4 DEF Sound
<1> QED BY <1>1, <1>2

LEMMA SoundRestored ==
  ASSUME Assumptions, NEW s, NEW x \in Write \cup {NoWrite}, NEW y \in Write \cup {NoWrite},
         Sound(s, x), Sound(s, y)
  PROVE  Sound(s, Restored(s, x, y))
<1>1. CASE Restored(s, x, y) = x \/ Restored(s, x, y) = y BY <1>1
<1>2. CASE ~(Restored(s, x, y) = x \/ Restored(s, x, y) = y)
  <2>1. s = Session /\ x # NoWrite /\ y # NoWrite
    BY <1>2 DEF Restored, RestoredSet, RestoredLog
  <2>2. Restored(s, x, y) = [clear |-> y.clear, entries |-> y.entries \o x.entries]
    BY <1>2, <2>1 DEF Restored, RestoredLog
  <2> DEFINE a == y.entries
             b == x.entries
             j == a \o b
  <2>3. a \in Seq(Nat) /\ b \in Seq(Nat) BY <2>1 DEF Write
  <2>4. (\A i \in 1..Len(a) : a[i] # 0) /\ (\A i \in 1..Len(b) : b[i] # 0)
    BY <2>1 DEF Sound
  <2>5. Restored(s, x, y).entries = j
    <3>1. Restored(s, x, y) = [clear |-> y.clear, entries |-> j] BY Zenon, <2>2
    <3> HIDE DEF j
    <3> QED BY <3>1
  <2> HIDE DEF a, b
  <2>6. \A i \in 1..Len(j) : j[i] # 0 BY <2>3, <2>4
  <2> HIDE DEF j
  <2>7. s \notin MapStores BY <2>1 DEF Assumptions, WorkerAssumption
  <2> QED BY <2>5, <2>6, <2>7 DEF Sound
<1> QED BY <1>1, <1>2

LEMMA BuffersKeptInv ==
  ASSUME Types, BufferInv, BuffersKept
  PROVE  BufferInv'
<1>1. \A s \in Stores, c \in Chats : Sound(s, pending[s][c])' BY DEF BufferInv, BuffersKept, Sound
<1>2. ASSUME NEW w \in Workers PROVE HandInv(w)'
  <2>1. HandInv(w) BY DEF BufferInv
  <2>2. stage'[w] = "apply" <=> stage[w] = "apply" BY DEF BuffersKept
  <2>3. drained'[w] = drained[w] /\ failed'[w] = failed[w] BY DEF BuffersKept
  <2>4. CASE stage[w] = "apply"
    <3>1. flushing'[w] = flushing[w] BY <2>4 DEF BuffersKept
    <3> QED BY <2>1, <2>2, <2>3, <2>4, <3>1 DEF HandInv, Sound
  <2>5. CASE stage[w] # "apply" BY <2>1, <2>2, <2>3, <2>5 DEF HandInv
  <2> QED BY <2>4, <2>5
<1> QED BY <1>1, <1>2 DEF BufferInv

\* A step of one worker leaves what the others hold.
LEMMA OtherHands ==
  ASSUME Types, BufferInv, NEW w \in Workers, NEW v \in Workers, v # w,
         stage'[v] = stage[v], flushing'[v] = flushing[v], drained'[v] = drained[v],
         failed'[v] = failed[v]
  PROVE  HandInv(v)'
BY DEF BufferInv, HandInv, Sound

LEMMA AcceptKeepsInv ==
  ASSUME Assumptions, Types, BufferInv, NEW t, NEW s \in Stores, NEW c \in Chats,
         NEW write \in Write, Sound(s, write), Accept(t, s, c, write)
  PROVE  BufferInv'
<1>1. \A z \in Stores, d \in Chats :
        pending'[z][d] = IF z = s /\ d = c THEN write ELSE pending[z][d]
  BY DEF Accept, Types, BufferTypes, Writes
<1>2. \A z \in Stores, d \in Chats : Sound(z, pending[z][d])' BY <1>1 DEF BufferInv, Sound
<1>3. \A w \in Workers : HandInv(w)' BY DEF Accept, workerVars, BufferInv, HandInv, Sound
<1> QED BY <1>2, <1>3 DEF BufferInv

LEMMA CallerWritesInv ==
  ASSUME Assumptions, Types, BufferInv, CallerWrites
  PROVE  BufferInv'
<1> USE ConstantTypes
<1>1. ops + 1 \in Nat /\ ops + 1 # 0 BY DEF Types, BufferTypes
<1>2. PICK t \in Callers, c \in Chats :
        (\E s \in MapStores : Set(t, s, c)) \/ AppendTo(t, c) \/ Clear(t, c)
  BY DEF CallerWrites
<1>3. CASE \E s \in MapStores : Set(t, s, c)
  BY <1>1, <1>3, SoundWrites, WriteTypes, AcceptKeepsInv DEF Set
<1>4. CASE AppendTo(t, c)
  <2>1. pending[Session][c] \in Write \cup {NoWrite} BY DEF Types, BufferTypes, Writes
  <2>2. Sound(Session, pending[Session][c]) BY DEF BufferInv
  <2> QED BY <1>1, <1>4, <2>1, <2>2, SoundAppended, WriteTypes, AcceptKeepsInv DEF AppendTo
<1>5. CASE Clear(t, c)
  BY <1>1, <1>5, SoundWrites, WriteTypes, AcceptKeepsInv DEF Clear
<1> QED BY <1>2, <1>3, <1>4, <1>5

LEMMA TakeAllKeepsInv ==
  ASSUME Assumptions, Types, BufferInv, NEW w \in Workers, NEW l \in Labels, TakeAll(w, l)
  PROVE  BufferInv'
<1> DEFINE s == FlushOf(l)
<1>1. s \in Stores BY ConstantTypes DEF FlushOf
<1>2. /\ stage[w] = "run"
      /\ flushing' = [flushing EXCEPT ![w] = s]
      /\ drained' = [drained EXCEPT ![w] = pending[s]]
      /\ pending' = [pending EXCEPT ![s] = NoWrites]
      /\ Stage(w, IF HasPending(s) THEN "apply" ELSE "nothing")
      /\ UNCHANGED failed
  BY DEF TakeAll
<1> HIDE DEF s
<1>3. \A z \in Stores, d \in Chats :
        pending'[z][d] = pending[z][d] \/ pending'[z][d] = NoWrite
  BY <1>1, <1>2 DEF Types, BufferTypes, Writes, NoWrites
<1>4. \A z \in Stores, d \in Chats : Sound(z, pending[z][d])' BY <1>3 DEF BufferInv, Sound
<1>5. HandInv(w)'
  <2>1. failed[w] = NoWrites BY <1>2 DEF BufferInv, HandInv
  <2>2. flushing'[w] = s /\ drained'[w] = pending[s] /\ failed'[w] = NoWrites
    BY <1>2, <2>1 DEF Types, WorkerTypes
  <2>3. CASE HasPending(s)
    <3>1. stage'[w] = "apply" BY <1>2, <2>3 DEF Stage, Types, WorkerTypes
    <3>2. \A c \in Chats : Sound(s, pending[s][c]) BY <1>1 DEF BufferInv
    <3> QED BY <2>2, <3>1, <3>2 DEF HandInv, NoWrites, Sound
  <2>4. CASE ~HasPending(s)
    <3>1. stage'[w] = "nothing" BY <1>2, <2>4 DEF Stage, Types, WorkerTypes
    <3>2. pending[s] = NoWrites
      BY <1>1, <2>4 DEF HasPending, NoWrites, Types, BufferTypes, Writes
    <3> QED BY <2>2, <3>1, <3>2 DEF HandInv
  <2> QED BY <2>3, <2>4
<1>6. ASSUME NEW v \in Workers, v # w PROVE HandInv(v)'
  BY <1>2, <1>6, OtherHands DEF Stage, Types, WorkerTypes
<1> QED BY <1>4, <1>5, <1>6 DEF BufferInv

\* A write that was taken is written, or not and then kept or given up.
LEMMA AppliedKeepsInv ==
  ASSUME Assumptions, Types, BufferInv, NEW w \in Workers, NEW c \in Chats,
         Apply(w, c) \/ ApplyFails(w, c)
  PROVE  BufferInv'
<1>1. /\ stage[w] = "apply" /\ drained[w][c] # NoWrite
      /\ drained' = [drained EXCEPT ![w][c] = NoWrite]
      /\ failed' = [failed EXCEPT ![w][c] = drained[w][c]] \/ UNCHANGED failed
      /\ UNCHANGED <<pending, stage, flushing>>
  BY DEF Apply, ApplyFails
<1>2. \A z \in Stores, d \in Chats : Sound(z, pending[z][d])' BY <1>1 DEF BufferInv, Sound
<1>3. HandInv(w)'
  <2>1. ASSUME NEW d \in Chats
        PROVE  /\ Sound(flushing[w], drained[w][d])'
               /\ Sound(flushing[w], failed[w][d])'
               /\ drained'[w][d] = NoWrite \/ failed'[w][d] = NoWrite
    <3>1. /\ Sound(flushing[w], drained[w][d]) /\ Sound(flushing[w], failed[w][d])
          /\ drained[w][d] = NoWrite \/ failed[w][d] = NoWrite
      BY <1>1 DEF BufferInv, HandInv
    <3>2. drained'[w][d] = IF d = c THEN NoWrite ELSE drained[w][d]
      BY <1>1 DEF Types, WorkerTypes, Writes
    <3>3. failed'[w][d] = failed[w][d] \/ (d = c /\ failed'[w][d] = drained[w][d])
      BY <1>1 DEF Types, WorkerTypes, Writes
    <3> QED BY <1>1, <3>1, <3>2, <3>3 DEF Sound
  <2> QED BY <1>1, <2>1 DEF HandInv
<1>4. ASSUME NEW v \in Workers, v # w PROVE HandInv(v)'
  <2>1. drained'[v] = drained[v] /\ failed'[v] = failed[v] BY <1>1, <1>4 DEF Types, WorkerTypes
  <2> QED BY <1>1, <1>4, <2>1, OtherHands
<1> QED BY <1>2, <1>3, <1>4 DEF BufferInv

LEMMA RestoreKeepsInv ==
  ASSUME Assumptions, Types, WorkersAreConsistent, BufferInv, NEW w \in Workers, RestoreFailed(w)
  PROVE  BufferInv'
<1> DEFINE s == flushing[w]
<1>1. /\ stage[w] = "apply" /\ drained[w] = NoWrites /\ UNCHANGED <<flushing, drained>>
      /\ pending' = [pending EXCEPT ![s] =
                       [c \in Chats |-> Restored(s, pending[s][c], failed[w][c])]]
      /\ failed' = [failed EXCEPT ![w] = NoWrites]
      /\ Stage(w, "clear")
  BY DEF RestoreFailed
<1>2. s \in Stores BY <1>1 DEF WorkersAreConsistent
<1> HIDE DEF s
<1>3. ASSUME NEW z \in Stores, NEW d \in Chats PROVE Sound(z, pending[z][d])'
  <2>1. CASE z # s
    <3>1. pending'[z] = pending[z] BY <1>1, <2>1 DEF Types, BufferTypes
    <3> QED BY <3>1 DEF BufferInv, Sound
  <2>2. CASE z = s
    <3>1. pending'[s][d] = Restored(s, pending[s][d], failed[w][d])
      BY <1>1, <1>2 DEF Types, BufferTypes
    <3>2. Sound(s, pending[s][d]) BY <1>2 DEF BufferInv
    <3>3. Sound(s, failed[w][d]) BY <1>1 DEF BufferInv, HandInv, s
    <3>4. pending[s][d] \in Write \cup {NoWrite} /\ failed[w][d] \in Write \cup {NoWrite}
      BY <1>2 DEF Types, BufferTypes, WorkerTypes, Writes
    <3>5. Sound(s, Restored(s, pending[s][d], failed[w][d])) BY <3>2, <3>3, <3>4, SoundRestored
    <3> QED BY <2>2, <3>1, <3>5 DEF Sound
  <2> QED BY <2>1, <2>2
<1>4. HandInv(w)' BY <1>1 DEF HandInv, Stage, Types, WorkerTypes
<1>5. ASSUME NEW v \in Workers, v # w PROVE HandInv(v)'
  BY <1>1, <1>5, OtherHands DEF Stage, Types, WorkerTypes
<1> QED BY <1>3, <1>4, <1>5 DEF BufferInv

LEMMA BufferInvKept ==
  ASSUME Assumptions, Types, WorkersAreConsistent, BufferInv, [Next]_vars
  PROVE  BufferInv'
<1>1. BuffersKept \/ CallerWrites \/ FlushMoves BY StepsOfBuffers
<1>2. CASE FlushMoves
  BY <1>2, TakeAllKeepsInv, AppliedKeepsInv, RestoreKeepsInv DEF FlushMoves
<1> QED BY <1>1, <1>2, BuffersKeptInv, CallerWritesInv

-----------------------------------------------------------------------------
(* The atoms of the writes the code makes.                                 *)

LEMMA WipingAtoms ==
  ASSUME Assumptions, NEW v \in Nat
  PROVE  /\ Wipes(SetWrite(v)) /\ Atoms(SetWrite(v)) = <<0, v>>
         /\ Wipes(ClearWrite) /\ Atoms(ClearWrite) = <<0>>
<1>1. SetWrite(v) \in Write /\ ClearWrite \in Write BY WriteTypes
<1>2. SetWrite(v) # NoWrite /\ ClearWrite # NoWrite
  BY <1>1 DEF Assumptions, WorkerAssumption
<1>3. <<0>> \o <<v>> = <<0, v>> /\ <<0>> \o <<>> = <<0>>
  <2> DEFINE a == <<0>> \o <<v>>
             b == <<0, v>>
  <2>1. a \in Seq(Nat) /\ Len(a) = 2 /\ a[1] = 0 /\ a[2] = v OBVIOUS
  <2>2. b \in Seq(Nat) /\ Len(b) = 2 /\ b[1] = 0 /\ b[2] = v OBVIOUS
  <2> HIDE DEF a, b
  <2>3. a = b BY <2>1, <2>2
  <2>4. <<0>> \in Seq(Nat) OBVIOUS
  <2> QED BY <2>3, <2>4, EmptyJoin DEF a, b
<1>4. Atoms(SetWrite(v)) = <<0>> \o <<v>> /\ Atoms(ClearWrite) = <<0>> \o <<>>
  BY <1>2 DEF Atoms, SetWrite, ClearWrite
<1> QED BY <1>2, <1>3, <1>4 DEF Wipes, SetWrite, ClearWrite

LEMMA AppendedAtoms ==
  ASSUME Assumptions, NEW v \in Nat, NEW w \in Write \cup {NoWrite}
  PROVE  /\ Wipes(Appended(w, v)) <=> Wipes(w)
         /\ Atoms(Appended(w, v)) = Atoms(w) \o <<v>>
<1>1. Appended(w, v) # NoWrite BY WriteTypes DEF Assumptions, WorkerAssumption
<1>2. CASE w = NoWrite
  <2>1. Appended(w, v) = [clear |-> FALSE, entries |-> <<v>>] BY <1>2 DEF Appended
  <2>2. Atoms(Appended(w, v)) = <<>> \o <<v>> BY <1>1, <2>1 DEF Atoms
  <2> QED BY <1>2, <2>1, <2>2 DEF Atoms, Wipes
<1>3. CASE w # NoWrite
  <2> DEFINE e == w.entries
             h == IF w.clear THEN <<0>> ELSE <<>>
             x == Append(e, v)
  <2>1. e \in Seq(Nat) /\ h \in Seq(Nat) BY <1>3 DEF Write
  <2>2. Appended(w, v) = [clear |-> w.clear, entries |-> x] BY <1>3 DEF Appended
  <2>3. Atoms(w) = h \o e BY <1>3 DEF Atoms
  <2> HIDE DEF e
  <2>4. Atoms(Appended(w, v)) = h \o x
    <3> HIDE DEF x
    <3> QED BY <1>1, <2>2 DEF Atoms
  <2>5. Wipes(Appended(w, v)) <=> Wipes(w)
    <3> HIDE DEF x
    <3> QED BY <1>1, <1>3, <2>2 DEF Wipes
  <2> HIDE DEF h
  <2>6. h \o x = (h \o e) \o <<v>> BY <2>1
  <2> QED BY <2>3, <2>4, <2>5, <2>6
<1> QED BY <1>2, <1>3

\* What restore_missing puts back is the line as it stood: the failed write
\* before the newer one, unless that wipes it out.
LEMMA RestoredAtoms ==
  ASSUME Assumptions, NEW s \in Stores,
         NEW p \in Write \cup {NoWrite}, NEW f \in Write \cup {NoWrite}, Sound(s, p)
  PROVE  Atoms(Restored(s, p, f)) = (IF Wipes(p) THEN <<>> ELSE Atoms(f)) \o Atoms(p)
<1> DEFINE P == Atoms(p)
           F == Atoms(f)
<1>1. P \in Seq(Nat) /\ F \in Seq(Nat) BY AtomsType
<1>2. p = NoWrite => P = <<>> BY DEF Atoms
<1>3. f = NoWrite => F = <<>> BY DEF Atoms
<1>4. CASE Wipes(p)
  <2>1. Restored(s, p, f) = p BY <1>4 DEF Wipes, Restored, RestoredSet, RestoredLog
  <2> QED BY <1>1, <1>4, <2>1
<1>5. CASE ~Wipes(p) /\ p = NoWrite
  <2>1. Restored(s, p, f) = f BY <1>5 DEF Restored, RestoredSet, RestoredLog
  <2>2. F \o P = F
    <3> HIDE DEF F, P
    <3> QED BY <1>1, <1>2, <1>5
  <2> QED BY <1>5, <2>1, <2>2
<1>6. CASE ~Wipes(p) /\ p # NoWrite
  <2>1. s = Session /\ ~p.clear BY <1>6 DEF Sound, Wipes, Stores
  <2>2. CASE f = NoWrite
    <3>1. Restored(s, p, f) = p BY <2>1, <2>2 DEF Restored, RestoredLog
    <3>2. F \o P = P
      <4> HIDE DEF F, P
      <4> QED BY <1>1, <1>3, <2>2
    <3> QED BY <1>6, <3>1, <3>2
  <2>3. CASE f # NoWrite
    <3> DEFINE a == f.entries
               b == p.entries
               h == IF f.clear THEN <<0>> ELSE <<>>
               j == a \o b
               r == [clear |-> f.clear, entries |-> j]
    <3>1. a \in Seq(Nat) /\ b \in Seq(Nat) /\ h \in Seq(Nat) BY <1>6, <2>3 DEF Write
    <3>2. Restored(s, p, f) = r BY <1>6, <2>1, <2>3 DEF Restored, RestoredLog
    <3>3. r # NoWrite
      <4>1. f.clear \in BOOLEAN BY <2>3 DEF Write
      <4> HIDE DEF a, b
      <4>2. j \in Seq(Nat) BY <3>1
      <4> HIDE DEF j
      <4> QED BY <4>1, <4>2 DEF Assumptions, WorkerAssumption, Write
    <3>4. F = h \o a BY <2>3 DEF Atoms
    <3>5. P = <<>> \o b BY <1>6, <2>1 DEF Atoms
    <3> HIDE DEF a, b
    <3>6. Atoms(r) = h \o j
      <4> HIDE DEF j
      <4> QED BY <3>3 DEF Atoms
    <3> HIDE DEF h, r, F, P
    <3>7. h \o j = F \o P
      <4>1. P = b BY <3>1, <3>5, EmptyJoin
      <4>2. (h \o a) \o b = h \o (a \o b) BY <3>1, JoinIsAssociative
      <4> QED BY Zenon, <3>4, <4>1, <4>2
    <3> HIDE DEF j
    <3>8. Atoms(Restored(s, p, f)) = F \o P BY <3>2, <3>6, <3>7
    <3> QED BY <1>6, <3>8 DEF F, P
  <2> QED BY <2>2, <2>3
<1> QED BY <1>4, <1>5, <1>6

\* A write that fails leaves the contents as some first part of it would.
LEMMA FailureIsReached ==
  ASSUME Assumptions, NEW s, NEW old \in Seq(Nat), NEW w \in Write, Sound(s, w),
         NEW o \in AfterFailure(s, old, w)
  PROVE  \E n \in 0..Len(Atoms(w)) : o = Behind!Reached(old, SubSeq(Atoms(w), 1, n))
<1>1. Atoms(w) \in Seq(Nat) BY AtomsType
<1>2. CASE o = old
  <2>1. SubSeq(Atoms(w), 1, 0) = <<>> BY <1>1
  <2>2. Behind!Reached(old, <<>>) = old \o <<>>
    <3>1. <<>> \in Seq(Nat) /\ \A i \in 1..Len(<<>>) : <<>>[i] # 0 OBVIOUS
    <3> QED BY <3>1, ReachedWithoutWipe
  <2>3. o = Behind!Reached(old, SubSeq(Atoms(w), 1, 0)) BY <1>2, <2>1, <2>2, EmptyJoin
  <2>4. 0 \in 0..Len(Atoms(w)) BY <1>1
  <2> QED BY <2>3, <2>4
<1>3. CASE o # old
  <2> DEFINE e == w.entries
  <2>0. e \in Seq(Nat) /\ w.clear \in BOOLEAN BY DEF Write
  <2>1. PICK m \in 0..Len(e) :
          o = Written(old, [clear |-> w.clear, entries |-> SubSeq(e, 1, m)])
    BY <1>3 DEF AfterFailure
  <2> DEFINE x == SubSeq(e, 1, m)
             part == [clear |-> w.clear, entries |-> x]
  <2>2. w # NoWrite BY DEF Assumptions, WorkerAssumption
  <2>3. \A i \in 1..Len(e) : e[i] # 0 BY <2>2 DEF Sound
  <2> HIDE DEF e
  <2>4. x \in Seq(Nat) /\ \A i \in 1..Len(x) : x[i] # 0 BY <2>0, <2>3
  <2> HIDE DEF x
  <2>5. part \in Write BY <2>0, <2>4 DEF Write
  <2>6. part # NoWrite BY <2>5 DEF Assumptions, WorkerAssumption
  <2>7. o = Behind!Reached(old, Atoms(part))
    <3>1. part.entries = x OBVIOUS
    <3> HIDE DEF part
    <3>2. Written(old, part) = Behind!Reached(old, Atoms(part)) BY <2>4, <2>5, <2>6, <3>1, WrittenIsReached
    <3> QED BY <2>1, <3>2 DEF part, x
  <2>8. CASE w.clear
    <3>1. Atoms(w) = <<0>> \o e BY <2>2, <2>8 DEF Atoms, e
    <3>2. Atoms(part) = <<0>> \o x BY <2>6, <2>8 DEF Atoms
    <3>3. SubSeq(<<0>> \o e, 1, m + 1) = <<0>> \o x BY <2>0 DEF x
    <3>4. m + 1 \in 0..Len(<<0>> \o e) BY <2>0
    <3> QED BY <2>7, <3>1, <3>2, <3>3, <3>4
  <2>9. CASE ~w.clear
    <3>1. Atoms(w) = <<>> \o e BY <2>2, <2>9 DEF Atoms, e
    <3>2. Atoms(part) = <<>> \o x BY <2>6, <2>9 DEF Atoms
    <3>3. Atoms(w) = e /\ Atoms(part) = x BY <2>0, <2>4, <3>1, <3>2, EmptyJoin
    <3> QED BY <2>7, <3>3 DEF x
  <2> QED BY <2>8, <2>9
<1> QED BY <1>2, <1>3

-----------------------------------------------------------------------------
(* The line of a chat: the state of WriteBehind under the refinement map.  *)

Line(s, c) == InHand(s, c) \o Atoms(pending[s][c])

Lines == [k \in Stores \X Chats |-> InHand(k[1], k[2]) \o Atoms(pending[k[1]][k[2]])]
Stored == [k \in Stores \X Chats |-> stored[k[1]][k[2]]]

LEMMA HandOf ==
  ASSUME OneWorker, NEW w \in Workers, NEW s, stage[w] = "apply", flushing[w] = s, NEW c
  PROVE  InHand(s, c) = Atoms(drained[w][c]) \o
                        (IF Wipes(pending[s][c]) THEN <<>> ELSE Atoms(failed[w][c]))
<1> DEFINE v == CHOOSE x \in Workers : stage[x] = "apply" /\ flushing[x] = s
<1>1. v \in Workers /\ stage[v] = "apply" OBVIOUS
<1>2. v = w BY <1>1 DEF OneWorker
<1>3. \E x \in Workers : stage[x] = "apply" /\ flushing[x] = s OBVIOUS
<1>4. InHand(s, c) = Atoms(drained[v][c]) \o (IF Wipes(pending[s][c]) THEN <<>> ELSE Atoms(failed[v][c]))
  BY <1>3 DEF InHand
<1> HIDE DEF v
<1> QED BY <1>2, <1>4

LEMMA HandOfNext ==
  ASSUME OneWorker', NEW w \in Workers, NEW s, stage'[w] = "apply", flushing'[w] = s, NEW c
  PROVE  InHand(s, c)' = Atoms(drained'[w][c]) \o
                         (IF Wipes(pending'[s][c]) THEN <<>> ELSE Atoms(failed'[w][c]))
<1> DEFINE v == CHOOSE x \in Workers : stage'[x] = "apply" /\ flushing'[x] = s
<1>1. v \in Workers /\ stage'[v] = "apply" OBVIOUS
<1>2. v = w BY <1>1 DEF OneWorker
<1>3. \E x \in Workers : stage'[x] = "apply" /\ flushing'[x] = s OBVIOUS
<1>4. InHand(s, c)' =
        Atoms(drained'[v][c]) \o (IF Wipes(pending'[s][c]) THEN <<>> ELSE Atoms(failed'[v][c]))
  BY <1>3 DEF InHand
<1> HIDE DEF v
<1> QED BY <1>2, <1>4

LEMMA NoHand ==
  ASSUME NEW s, NEW c, \A w \in Workers : ~(stage[w] = "apply" /\ flushing[w] = s)
  PROVE  InHand(s, c) = <<>>
BY DEF InHand

LEMMA NoHandNext ==
  ASSUME NEW s, NEW c, \A w \in Workers : ~(stage'[w] = "apply" /\ flushing'[w] = s)
  PROVE  InHand(s, c)' = <<>>
BY DEF InHand

LEMMA LineType ==
  ASSUME Types, OneWorker, NEW s \in Stores, NEW c \in Chats
  PROVE  Line(s, c) \in Seq(Nat)
<1>1. Atoms(pending[s][c]) \in Seq(Nat)
  <2>1. pending[s][c] \in Write \cup {NoWrite} BY DEF Types, BufferTypes, Writes
  <2> QED BY <2>1, AtomsType
<1>2. InHand(s, c) \in Seq(Nat)
  <2>1. CASE \A w \in Workers : ~(stage[w] = "apply" /\ flushing[w] = s)
    <3>1. InHand(s, c) = <<>> BY <2>1, NoHand
    <3>2. <<>> \in Seq(Nat) OBVIOUS
    <3> QED BY <3>1, <3>2
  <2>2. ASSUME NEW w \in Workers, stage[w] = "apply", flushing[w] = s
        PROVE  InHand(s, c) \in Seq(Nat)
    <3> DEFINE D == Atoms(drained[w][c])
               F == IF Wipes(pending[s][c]) THEN <<>> ELSE Atoms(failed[w][c])
    <3>1. drained[w][c] \in Write \cup {NoWrite} /\ failed[w][c] \in Write \cup {NoWrite}
      BY DEF Types, WorkerTypes, Writes
    <3>2. D \in Seq(Nat) /\ F \in Seq(Nat) BY <3>1, AtomsType
    <3>3. InHand(s, c) = D \o F BY <2>2, HandOf
    <3> HIDE DEF D, F
    <3> QED BY <3>2, <3>3
  <2> QED BY <2>1, <2>2
<1> HIDE DEF InHand
<1> DEFINE H == InHand(s, c)
           P == Atoms(pending[s][c])
<1>3. Line(s, c) = H \o P BY DEF Line
<1> HIDE DEF H, P
<1>4. H \in Seq(Nat) /\ P \in Seq(Nat) BY <1>1, <1>2 DEF H, P
<1> QED BY <1>3, <1>4

-----------------------------------------------------------------------------
(* What is to be shown of a step of the plane for it to be one of          *)
(* WriteBehind.                                                            *)

LinesKeptBut(s, c) ==
  \A z \in Stores, d \in Chats : ~(z = s /\ d = c) => Line(z, d)' = Line(z, d)

LinesKept == \A z \in Stores, d \in Chats : Line(z, d)' = Line(z, d)

\* The update of a function at one place.
LEMMA UpdatedAt ==
  ASSUME NEW K, NEW k \in K, NEW f, NEW g, f = [x \in K |-> f[x]], g = [x \in K |-> g[x]],
         \A x \in K : x # k => g[x] = f[x]
  PROVE  g = [f EXCEPT ![k] = g[k]]
OBVIOUS

LEMMA LinesUpdate ==
  ASSUME NEW s \in Stores, NEW c \in Chats, LinesKeptBut(s, c)
  PROVE  Lines' = [Lines EXCEPT ![<<s, c>>] = Line(s, c)']
<1> DEFINE K == Stores \X Chats
<1>1. \A k \in K : Lines[k] = Line(k[1], k[2]) /\ Lines'[k] = Line(k[1], k[2])'
  BY DEF Lines, Line
<1>2. \A k \in K : k # <<s, c>> => ~(k[1] = s /\ k[2] = c) OBVIOUS
<1>3. \A k \in K : k # <<s, c>> => Lines'[k] = Lines[k]
  BY <1>1, <1>2 DEF LinesKeptBut
<1>4. Lines = [k \in K |-> Lines[k]] /\ Lines' = [k \in K |-> Lines'[k]] BY DEF Lines
<1>5. <<s, c>> \in K /\ Lines'[<<s, c>>] = Line(s, c)' BY <1>1
<1> HIDE DEF K
<1>6. Lines' = [Lines EXCEPT ![<<s, c>>] = Lines'[<<s, c>>]] BY <1>3, <1>4, <1>5, UpdatedAt
<1> QED BY <1>5, <1>6

LEMMA StoredUpdate ==
  ASSUME NEW s \in Stores, NEW c \in Chats,
         \A z \in Stores, d \in Chats : ~(z = s /\ d = c) => stored'[z][d] = stored[z][d]
  PROVE  Stored' = [Stored EXCEPT ![<<s, c>>] = stored'[s][c]]
<1> DEFINE K == Stores \X Chats
<1>1. \A k \in K : Stored[k] = stored[k[1]][k[2]] /\ Stored'[k] = stored'[k[1]][k[2]]
  BY DEF Stored
<1>2. \A k \in K : k # <<s, c>> => ~(k[1] = s /\ k[2] = c) OBVIOUS
<1>3. \A k \in K : k # <<s, c>> => Stored'[k] = Stored[k] BY <1>1, <1>2
<1>4. Stored = [k \in K |-> Stored[k]] /\ Stored' = [k \in K |-> Stored'[k]] BY DEF Stored
<1>5. <<s, c>> \in K /\ Stored'[<<s, c>>] = stored'[s][c] BY <1>1
<1> HIDE DEF K
<1>6. Stored' = [Stored EXCEPT ![<<s, c>>] = Stored'[<<s, c>>]] BY <1>3, <1>4, <1>5, UpdatedAt
<1> QED BY <1>5, <1>6

LEMMA StutterStep ==
  ASSUME LinesKept, UNCHANGED <<stored, ops, faults>>
  PROVE  UNCHANGED Behind!behindVars
<1>1. Lines' = Lines BY DEF LinesKept, Lines, Line
<1>2. Stored' = Stored BY DEF Stored
<1> QED BY <1>1, <1>2 DEF Behind!behindVars, Lines, Stored

LEMMA PromiseStep ==
  ASSUME NEW s \in Stores, NEW c \in Chats, LinesKeptBut(s, c),
         NEW write \in {<<ops + 1>>, << 0 >>, <<0, ops + 1>>},
         Line(s, c)' \in Behind!Thinned(Line(s, c) \o write),
         ops' = ops + 1, UNCHANGED <<stored, faults>>
  PROVE  Behind!Promise(<<s, c>>)
<1>1. Lines' = [Lines EXCEPT ![<<s, c>>] = Line(s, c)'] BY LinesUpdate
<1>2. Lines[<<s, c>>] = Line(s, c) BY DEF Lines, Line
<1>3. Stored' = Stored BY DEF Stored
<1>4. \E line \in Behind!Thinned(Lines[<<s, c>>] \o write) : Lines' = [Lines EXCEPT ![<<s, c>>] = line]
  BY <1>1, <1>2
<1> QED BY <1>3, <1>4 DEF Behind!Promise, Behind!Wipe, Lines, Stored

LEMMA PersistStep ==
  ASSUME Types, NEW s \in Stores, NEW c \in Chats, LinesKeptBut(s, c),
         NEW n \in 1..Len(Line(s, c)),
         stored' = [stored EXCEPT ![s][c] = Behind!Reached(@, SubSeq(Line(s, c), 1, n))],
         Line(s, c)' = SubSeq(Line(s, c), n + 1, Len(Line(s, c))),
         UNCHANGED <<ops, faults>>
  PROVE  Behind!Persist(<<s, c>>)
<1> DEFINE k == <<s, c>>
<1>1. Lines[k] = Line(s, c) /\ Stored[k] = stored[s][c] BY DEF Lines, Line, Stored
<1>2. Lines' = [Lines EXCEPT ![k] = SubSeq(@, n + 1, Len(@))]
  BY <1>1, LinesUpdate
<1>3. Stored' = [Stored EXCEPT ![k] = Behind!Reached(@, SubSeq(Lines[k], 1, n))]
  <2> DEFINE x == Behind!Reached(stored[s][c], SubSeq(Line(s, c), 1, n))
  <2>1. stored' = [stored EXCEPT ![s][c] = x] OBVIOUS
  <2>2. x = Behind!Reached(Stored[k], SubSeq(Lines[k], 1, n)) BY Zenon, <1>1
  <2> HIDE DEF x
  <2>3. /\ \A z \in Stores, d \in Chats : ~(z = s /\ d = c) => stored'[z][d] = stored[z][d]
        /\ stored'[s][c] = x
    BY <2>1 DEF Types, BufferTypes
  <2>4. Stored' = [Stored EXCEPT ![k] = x] BY <2>3, StoredUpdate
  <2> QED BY <2>2, <2>4
<1>4. n \in 1..Len(Lines[k]) BY <1>1
<1> HIDE DEF k
<1>5. \E m \in 1..Len(Lines[k]) :
        /\ Stored' = [Stored EXCEPT ![k] = Behind!Reached(@, SubSeq(Lines[k], 1, m))]
        /\ Lines' = [Lines EXCEPT ![k] = SubSeq(@, m + 1, Len(@))]
  BY <1>2, <1>3, <1>4
<1>6. Behind!Persist(k) BY <1>5 DEF Behind!Persist, Lines, Stored
<1> QED BY <1>6 DEF k

LEMMA FailStep ==
  ASSUME Assumptions, Types, NEW s \in Stores, NEW c \in Chats, LinesKeptBut(s, c),
         NEW n \in 0..Len(Line(s, c)), NEW given \in 0..Len(Line(s, c)),
         stored' = [stored EXCEPT ![s][c] = Behind!Reached(@, SubSeq(Line(s, c), 1, n))],
         Line(s, c)' = SubSeq(Line(s, c), given + 1, Len(Line(s, c))),
         faults < MaxMishaps, faults' = faults + 1, UNCHANGED ops
  PROVE  Behind!Fail(<<s, c>>)
<1> DEFINE k == <<s, c>>
<1>1. Lines[k] = Line(s, c) /\ Stored[k] = stored[s][c] BY DEF Lines, Line, Stored
<1>2. Lines' = [Lines EXCEPT ![k] = SubSeq(@, given + 1, Len(@))]
  BY <1>1, LinesUpdate
<1>3. Stored' = [Stored EXCEPT ![k] = Behind!Reached(@, SubSeq(Lines[k], 1, n))]
  <2> DEFINE x == Behind!Reached(stored[s][c], SubSeq(Line(s, c), 1, n))
  <2>1. stored' = [stored EXCEPT ![s][c] = x] OBVIOUS
  <2>2. x = Behind!Reached(Stored[k], SubSeq(Lines[k], 1, n)) BY Zenon, <1>1
  <2> HIDE DEF x
  <2>3. /\ \A z \in Stores, d \in Chats : ~(z = s /\ d = c) => stored'[z][d] = stored[z][d]
        /\ stored'[s][c] = x
    BY <2>1 DEF Types, BufferTypes
  <2>4. Stored' = [Stored EXCEPT ![k] = x] BY <2>3, StoredUpdate
  <2> QED BY <2>2, <2>4
<1>4. n \in 0..Len(Lines[k]) /\ given \in 0..Len(Lines[k]) BY <1>1
<1> HIDE DEF k
<1>5. \E m \in 0..Len(Lines[k]), g \in 0..Len(Lines[k]) :
        /\ Stored' = [Stored EXCEPT ![k] = Behind!Reached(@, SubSeq(Lines[k], 1, m))]
        /\ Lines' = [Lines EXCEPT ![k] = SubSeq(@, g + 1, Len(@))]
  BY <1>2, <1>3, <1>4
<1>6. Behind!Fail(k) BY <1>5 DEF Behind!Fail, Lines, Stored
<1> QED BY <1>6 DEF k

-----------------------------------------------------------------------------
(* The steps of the plane.                                                 *)

Flushes(w, s) == stage[w] = "apply" /\ flushing[w] = s

\* A line whose pending write and whose flush stay as they are stays.
LEMMA LineKept ==
  ASSUME OneWorker, OneWorker', NEW s \in Stores, NEW c \in Chats,
         pending'[s][c] = pending[s][c],
         \A w \in Workers :
           /\ Flushes(w, s)' <=> Flushes(w, s)
           /\ Flushes(w, s) => drained'[w][c] = drained[w][c] /\ failed'[w][c] = failed[w][c]
  PROVE  Line(s, c)' = Line(s, c)
<1>1. InHand(s, c)' = InHand(s, c)
  <2>1. CASE \A w \in Workers : ~Flushes(w, s)
    <3>1. InHand(s, c) = <<>> BY <2>1, NoHand DEF Flushes
    <3>2. InHand(s, c)' = <<>> BY <2>1, NoHandNext DEF Flushes
    <3> QED BY <3>1, <3>2
  <2>2. ASSUME NEW w \in Workers, Flushes(w, s)
        PROVE  InHand(s, c)' = InHand(s, c)
    <3>1. /\ stage[w] = "apply" /\ flushing[w] = s /\ stage'[w] = "apply" /\ flushing'[w] = s
          /\ drained'[w][c] = drained[w][c] /\ failed'[w][c] = failed[w][c]
      BY <2>2 DEF Flushes
    <3>2. InHand(s, c) = Atoms(drained[w][c]) \o
                         (IF Wipes(pending[s][c]) THEN <<>> ELSE Atoms(failed[w][c]))
      BY <3>1, HandOf
    <3>3. InHand(s, c)' = Atoms(drained'[w][c]) \o
                          (IF Wipes(pending'[s][c]) THEN <<>> ELSE Atoms(failed'[w][c]))
      BY <3>1, HandOfNext
    <3> QED BY <3>1, <3>2, <3>3
  <2> QED BY <2>1, <2>2
<1> QED BY <1>1 DEF Line

LEMMA KeptLines ==
  ASSUME OneWorker, OneWorker', BuffersKept
  PROVE  LinesKept
BY LineKept DEF BuffersKept, LinesKept, Flushes

LEMMA AcceptLines ==
  ASSUME Types, OneWorker, OneWorker', NEW t, NEW s \in Stores, NEW c \in Chats,
         NEW write, Accept(t, s, c, write)
  PROVE  /\ LinesKeptBut(s, c)
         /\ \E A \in Seq(Nat), F \in Seq(Nat) :
              /\ Line(s, c) = (A \o (IF Wipes(pending[s][c]) THEN <<>> ELSE F)) \o Atoms(pending[s][c])
              /\ Line(s, c)' = (A \o (IF Wipes(write) THEN <<>> ELSE F)) \o Atoms(write)
<1>1. \A z \in Stores, d \in Chats :
        pending'[z][d] = IF z = s /\ d = c THEN write ELSE pending[z][d]
  BY DEF Accept, Types, BufferTypes, Writes
<1>2. UNCHANGED <<stage, flushing, drained, failed>> BY DEF Accept, workerVars
<1>3. LinesKeptBut(s, c) BY <1>1, <1>2, LineKept DEF LinesKeptBut, Flushes
<1>4. pending'[s][c] = write BY <1>1
<1>5. CASE \A w \in Workers : ~Flushes(w, s)
  <2>1. InHand(s, c) = <<>> BY <1>5, NoHand DEF Flushes
  <2>2. InHand(s, c)' = <<>> BY <1>2, <1>5, NoHandNext DEF Flushes
  <2>3. <<>> \in Seq(Nat) /\ <<>> \o <<>> = <<>> BY EmptyJoin
  <2>4. /\ Line(s, c) = (<<>> \o <<>>) \o Atoms(pending[s][c])
        /\ Line(s, c)' = (<<>> \o <<>>) \o Atoms(write)
    BY <1>4, <2>1, <2>2, <2>3 DEF Line
  <2> QED BY <1>3, <2>3, <2>4
<1>6. ASSUME NEW w \in Workers, Flushes(w, s)
      PROVE  \E A \in Seq(Nat), F \in Seq(Nat) :
              /\ Line(s, c) = (A \o (IF Wipes(pending[s][c]) THEN <<>> ELSE F)) \o Atoms(pending[s][c])
              /\ Line(s, c)' = (A \o (IF Wipes(write) THEN <<>> ELSE F)) \o Atoms(write)
  <2> DEFINE A == Atoms(drained[w][c])
             F == Atoms(failed[w][c])
  <2>1. A \in Seq(Nat) /\ F \in Seq(Nat)
    <3>1. drained[w][c] \in Write \cup {NoWrite} /\ failed[w][c] \in Write \cup {NoWrite}
      BY DEF Types, WorkerTypes, Writes
    <3> QED BY <3>1, AtomsType
  <2>2. InHand(s, c) = A \o (IF Wipes(pending[s][c]) THEN <<>> ELSE F)
    BY <1>6, HandOf DEF Flushes
  <2>3. InHand(s, c)' = A \o (IF Wipes(write) THEN <<>> ELSE F)
    BY <1>2, <1>4, <1>6, HandOfNext DEF Flushes
  <2> HIDE DEF A, F
  <2>4. /\ Line(s, c) = (A \o (IF Wipes(pending[s][c]) THEN <<>> ELSE F)) \o Atoms(pending[s][c])
        /\ Line(s, c)' = (A \o (IF Wipes(write) THEN <<>> ELSE F)) \o Atoms(write)
    BY <1>4, <2>2, <2>3 DEF Line
  <2> QED BY <2>1, <2>4
<1> QED BY <1>3, <1>5, <1>6

\* A set or a clear wipes what waits, but for what a flush is writing.
LEMMA WipeStep ==
  ASSUME Types, OneWorker, OneWorker', NEW t, NEW s \in Stores, NEW c \in Chats, NEW write,
         NEW atoms \in {<< 0 >>, <<0, ops + 1>>}, Wipes(write), Atoms(write) = atoms,
         Accept(t, s, c, write)
  PROVE  Behind!Promise(<<s, c>>)
<1>1. LinesKeptBut(s, c) BY AcceptLines
<1>2. PICK A \in Seq(Nat), F \in Seq(Nat) :
        /\ Line(s, c) = (A \o (IF Wipes(pending[s][c]) THEN <<>> ELSE F)) \o Atoms(pending[s][c])
        /\ Line(s, c)' = (A \o (IF Wipes(write) THEN <<>> ELSE F)) \o Atoms(write)
  BY AcceptLines
<1> DEFINE X == IF Wipes(pending[s][c]) THEN <<>> ELSE F
           P == Atoms(pending[s][c])
           B == X \o P
<1>3. pending[s][c] \in Write \cup {NoWrite} BY DEF Types, BufferTypes, Writes
<1>4. X \in Seq(Nat) /\ P \in Seq(Nat) BY <1>3, AtomsType
<1>5. Line(s, c) = (A \o X) \o P BY <1>2
<1>6. Line(s, c)' = A \o atoms BY <1>2, EmptyJoin
<1> HIDE DEF X, P
<1>7. Line(s, c) = A \o B BY <1>4, <1>5, JoinIsAssociative
<1>8. B \in Seq(Nat) BY <1>4
<1> HIDE DEF B
<1>9. atoms \in Seq(Nat) /\ Len(atoms) > 0 /\ atoms[1] = 0
  <2> DEFINE v == ops + 1
  <2>1. v \in Nat BY DEF Types, BufferTypes
  <2>2. atoms = <<0>> \/ atoms = <<0, v>> OBVIOUS
  <2> HIDE DEF v
  <2>3. CASE atoms = <<0>> BY <2>3
  <2>4. CASE atoms = <<0, v>> BY <2>1, <2>4
  <2> QED BY <2>2, <2>3, <2>4
<1>10. A \o atoms \in Behind!Thinned((A \o B) \o atoms) BY <1>8, <1>9, ThinnedBeforeWipe
<1>11. Line(s, c)' \in Behind!Thinned(Line(s, c) \o atoms) BY <1>6, <1>7, <1>10
<1>12. ops' = ops + 1 /\ UNCHANGED <<stored, faults>> BY DEF Accept, envVars
<1> QED BY <1>1, <1>11, <1>12, PromiseStep

\* An append joins the end of the line.
LEMMA JoinStep ==
  ASSUME Types, OneWorker, OneWorker', NEW t, NEW s \in Stores, NEW c \in Chats, NEW write,
         NEW P \in Seq(Nat), P = Atoms(pending[s][c]),
         NEW e \in Seq(Nat), e = <<ops + 1>>,
         Wipes(write) <=> Wipes(pending[s][c]), Atoms(write) = P \o e,
         Accept(t, s, c, write)
  PROVE  Behind!Promise(<<s, c>>)
<1>1. LinesKeptBut(s, c) BY AcceptLines
<1>2. PICK A \in Seq(Nat), F \in Seq(Nat) :
        /\ Line(s, c) = (A \o (IF Wipes(pending[s][c]) THEN <<>> ELSE F)) \o Atoms(pending[s][c])
        /\ Line(s, c)' = (A \o (IF Wipes(write) THEN <<>> ELSE F)) \o Atoms(write)
  BY AcceptLines
<1> DEFINE X == IF Wipes(pending[s][c]) THEN <<>> ELSE F
           H == A \o X
<1>3. Line(s, c) = H \o P BY <1>2
<1>4. Line(s, c)' = H \o (P \o e)
  <2>1. (IF Wipes(write) THEN <<>> ELSE F) = X OBVIOUS
  <2> HIDE DEF X
  <2> QED BY <1>2, <2>1
<1>5. X \in Seq(Nat) OBVIOUS
<1> HIDE DEF X
<1>6. H \in Seq(Nat) BY <1>5
<1> HIDE DEF H
<1>7. Line(s, c)' = Line(s, c) \o e
  <2>1. (H \o P) \o e = H \o (P \o e) BY <1>6, JoinIsAssociative
  <2> QED BY Zenon, <1>3, <1>4, <2>1
<1>8. Line(s, c)' \in Behind!Thinned(Line(s, c) \o e) BY <1>7, ThinnedWhole
<1>9. ops' = ops + 1 /\ UNCHANGED <<stored, faults>> BY DEF Accept, envVars
<1> QED BY <1>1, <1>8, <1>9, PromiseStep

LEMMA AppendStep ==
  ASSUME Assumptions, Types, OneWorker, OneWorker', NEW t, NEW c \in Chats, AppendTo(t, c)
  PROVE  Behind!Promise(<<Session, c>>)
<1> USE ConstantTypes
<1>1. ops + 1 \in Nat /\ pending[Session][c] \in Write \cup {NoWrite}
  BY DEF Types, BufferTypes, Writes
<1>2. /\ Wipes(Appended(pending[Session][c], ops + 1)) <=> Wipes(pending[Session][c])
      /\ Atoms(Appended(pending[Session][c], ops + 1)) = Atoms(pending[Session][c]) \o <<ops + 1>>
  BY <1>1, AppendedAtoms
<1>3. Atoms(pending[Session][c]) \in Seq(Nat) /\ <<ops + 1>> \in Seq(Nat) BY <1>1, AtomsType
<1> QED BY <1>2, <1>3, JoinStep DEF AppendTo

LEMMA CallerStep ==
  ASSUME Assumptions, Types, OneWorker, OneWorker', CallerWrites
  PROVE  \E k \in Stores \X Chats : Behind!Promise(k)
<1> USE ConstantTypes
<1>1. ops + 1 \in Nat BY DEF Types, BufferTypes
<1>2. PICK t \in Callers, c \in Chats :
        (\E s \in MapStores : Set(t, s, c)) \/ AppendTo(t, c) \/ Clear(t, c)
  BY DEF CallerWrites
<1>3. CASE \E s \in MapStores : Set(t, s, c)
  <2>1. PICK s \in MapStores : Accept(t, s, c, SetWrite(ops + 1)) BY <1>3 DEF Set
  <2>2. Wipes(SetWrite(ops + 1)) /\ Atoms(SetWrite(ops + 1)) = <<0, ops + 1>> BY <1>1, WipingAtoms
  <2>3. Behind!Promise(<<s, c>>) BY <2>1, <2>2, WipeStep
  <2> QED BY <2>3
<1>4. CASE AppendTo(t, c)
  <2>1. Behind!Promise(<<Session, c>>) BY <1>4, AppendStep
  <2> QED BY <2>1
<1>5. CASE Clear(t, c)
  <2>1. Accept(t, Session, c, ClearWrite) BY <1>5 DEF Clear
  <2>2. Wipes(ClearWrite) /\ Atoms(ClearWrite) = <<0>> BY <1>1, WipingAtoms
  <2>3. Behind!Promise(<<Session, c>>) BY <2>1, <2>2, WipeStep
  <2> QED BY <2>3
<1> QED BY <1>2, <1>3, <1>4, <1>5

\* What a flush takes stays in line: it is now in the worker's hand.
LEMMA TakeAllStep ==
  ASSUME Assumptions, Types, OneWorker, OneWorker', BufferInv,
         NEW w \in Workers, NEW l \in Labels, TakeAll(w, l)
  PROVE  LinesKept /\ UNCHANGED <<stored, ops, faults>>
<1> DEFINE s == FlushOf(l)
<1>1. s \in Stores BY ConstantTypes DEF FlushOf
<1>2. /\ stage[w] = "run"
      /\ flushing' = [flushing EXCEPT ![w] = s]
      /\ drained' = [drained EXCEPT ![w] = pending[s]]
      /\ pending' = [pending EXCEPT ![s] = NoWrites]
      /\ Stage(w, IF HasPending(s) THEN "apply" ELSE "nothing")
      /\ UNCHANGED <<failed, stored, ops, faults>>
  BY DEF TakeAll, envVars
<1> HIDE DEF s
<1>3. \A v \in Workers : stage[v] # "apply" BY <1>2 DEF OneWorker
<1>4. \A v \in Workers, z \in Stores : Flushes(v, z)' => v = w /\ z = s
  BY <1>2, <1>3 DEF Flushes, Stage, Types, WorkerTypes
<1>5. ASSUME NEW z \in Stores, NEW d \in Chats, z # s
      PROVE  Line(z, d)' = Line(z, d)
  <2>1. pending'[z][d] = pending[z][d] BY <1>2, <1>5 DEF Types, BufferTypes
  <2> QED BY <1>3, <1>4, <1>5, <2>1, LineKept DEF Flushes
<1>6. ASSUME NEW d \in Chats
      PROVE  Line(s, d)' = Line(s, d)
  <2> DEFINE P == Atoms(pending[s][d])
  <2>1. P \in Seq(Nat)
    <3>1. pending[s][d] \in Write \cup {NoWrite} BY <1>1 DEF Types, BufferTypes, Writes
    <3> QED BY <3>1, AtomsType
  <2>2. Line(s, d) = P
    <3>1. InHand(s, d) = <<>> BY <1>3, NoHand
    <3> QED BY <2>1, <3>1, EmptyJoin DEF Line
  <2>3. pending'[s][d] = NoWrite BY <1>1, <1>2 DEF Types, BufferTypes, NoWrites
  <2>4. Atoms(NoWrite) = <<>> /\ ~Wipes(NoWrite) BY DEF Atoms, Wipes
  <2>5. InHand(s, d)' = P
    <3>1. CASE HasPending(s)
      <4>1. stage'[w] = "apply" /\ flushing'[w] = s /\ drained'[w] = pending[s]
        BY <1>2, <3>1 DEF Stage, Types, WorkerTypes
      <4>2. failed'[w][d] = NoWrite BY <1>2, <1>3 DEF BufferInv, HandInv, NoWrites
      <4>3. InHand(s, d)' = Atoms(drained'[w][d]) \o
                            (IF Wipes(pending'[s][d]) THEN <<>> ELSE Atoms(failed'[w][d]))
        BY <4>1, HandOfNext
      <4>4. InHand(s, d)' = P \o <<>> BY <2>3, <2>4, <4>1, <4>2, <4>3
      <4> QED BY <2>1, <4>4, EmptyJoin
    <3>2. CASE ~HasPending(s)
      <4>1. stage'[w] = "nothing" BY <1>2, <3>2 DEF Stage, Types, WorkerTypes
      <4>2. \A v \in Workers : ~Flushes(v, s)' BY <1>1, <1>4, <4>1 DEF Flushes
      <4>3. InHand(s, d)' = <<>> BY <4>2, NoHandNext DEF Flushes
      <4>4. P = <<>> BY <2>4, <3>2 DEF HasPending
      <4> QED BY <4>3, <4>4
    <3> QED BY <3>1, <3>2
  <2>6. Line(s, d)' = P \o <<>> BY <2>3, <2>4, <2>5 DEF Line
  <2> QED BY <2>1, <2>2, <2>6, EmptyJoin
<1> QED BY <1>2, <1>5, <1>6 DEF LinesKept

\* Of a taken write: it is done with, and kept, if it failed so, to be put back.
Leaves(w, c, kept) ==
  /\ stage[w] = "apply" /\ drained[w][c] # NoWrite
  /\ drained' = [drained EXCEPT ![w][c] = NoWrite]
  /\ kept \in {NoWrite, drained[w][c]} /\ failed' = [failed EXCEPT ![w][c] = kept]
  /\ UNCHANGED <<pending, stage, flushing>>

\* The chat a flush is writing: what it took of it, then what is pending.
LEMMA FlushedLine ==
  ASSUME Types, OneWorker, OneWorker', WorkersAreConsistent, BufferInv,
         NEW w \in Workers, NEW s \in Stores, s = flushing[w], NEW c \in Chats,
         NEW kept, Leaves(w, c, kept)
  PROVE  /\ LinesKeptBut(s, c)
         /\ Line(s, c) = Atoms(drained[w][c]) \o Atoms(pending[s][c])
         /\ Line(s, c)' =
              (IF Wipes(pending[s][c]) THEN <<>> ELSE Atoms(kept)) \o Atoms(pending[s][c])
<1> DEFINE D == Atoms(drained[w][c])
           P == Atoms(pending[s][c])
           K == IF Wipes(pending[s][c]) THEN <<>> ELSE Atoms(kept)
<1>1. stage'[w] = "apply" /\ flushing'[w] = s /\ pending' = pending /\ stage[w] = "apply"
  BY DEF Leaves
<1>2. D \in Seq(Nat) /\ K \in Seq(Nat)
  <2>1. drained[w][c] \in Write \cup {NoWrite} /\ kept \in Write \cup {NoWrite}
    BY DEF Leaves, Types, WorkerTypes, Writes
  <2> QED BY <2>1, AtomsType
<1>3. \A v \in Workers, d \in Chats :
        ~(v = w /\ d = c) => drained'[v][d] = drained[v][d] /\ failed'[v][d] = failed[v][d]
  BY DEF Leaves, Types, WorkerTypes, Writes
<1>4. drained'[w][c] = NoWrite /\ failed'[w][c] = kept
  BY DEF Leaves, Types, WorkerTypes, Writes
<1>5. ASSUME NEW z \in Stores, NEW d \in Chats, ~(z = s /\ d = c)
      PROVE  Line(z, d)' = Line(z, d)
  <2>1. \A v \in Workers : Flushes(v, z) => ~(v = w /\ d = c) BY <1>5 DEF Flushes
  <2> QED BY <1>3, <2>1, LineKept DEF Flushes, Leaves
<1>6. failed[w][c] = NoWrite BY DEF Leaves, BufferInv, HandInv
<1>7. Atoms(NoWrite) = <<>> BY DEF Atoms
<1>8. InHand(s, c) = D
  <2>1. InHand(s, c) = D \o (IF Wipes(pending[s][c]) THEN <<>> ELSE Atoms(failed[w][c]))
    BY <1>1, HandOf
  <2> HIDE DEF D
  <2>2. InHand(s, c) = D \o <<>> BY <1>6, <1>7, <2>1
  <2> QED BY <1>2, <2>2, EmptyJoin
<1>9. InHand(s, c)' = K
  <2>1. InHand(s, c)' = Atoms(drained'[w][c]) \o
                        (IF Wipes(pending'[s][c]) THEN <<>> ELSE Atoms(failed'[w][c]))
    BY <1>1, HandOfNext
  <2>2. InHand(s, c)' = <<>> \o K BY <1>1, <1>4, <1>7, <2>1
  <2> HIDE DEF K
  <2> QED BY <1>2, <2>2, EmptyJoin
<1>10. Line(s, c) = D \o P
  <2> HIDE DEF D
  <2> QED BY <1>8 DEF Line
<1>11. Line(s, c)' = K \o P
  <2> HIDE DEF K
  <2> QED BY <1>1, <1>9 DEF Line
<1> QED BY <1>5, <1>10, <1>11 DEF LinesKeptBut

LEMMA ApplyStep ==
  ASSUME Assumptions, Types, OneWorker, OneWorker', WorkersAreConsistent, BufferInv,
         NEW w \in Workers, NEW c \in Chats, Apply(w, c)
  PROVE  \/ \E k \in Stores \X Chats : Behind!Persist(k)
         \/ UNCHANGED Behind!behindVars
<1>0. PICK s \in Stores : s = flushing[w] BY DEF Apply, WorkersAreConsistent
<1> DEFINE write == drained[w][c]
           D == Atoms(write)
           P == Atoms(pending[s][c])
           old == stored[s][c]
<1>1. /\ stage[w] = "apply" /\ write # NoWrite
      /\ stored' = [stored EXCEPT ![s][c] = Written(old, write)]
      /\ drained' = [drained EXCEPT ![w][c] = NoWrite]
      /\ UNCHANGED <<pending, stage, flushing, failed, ops, faults>>
  BY <1>0 DEF Apply, envVars
<1>3. write \in Write /\ old \in Seq(Nat) BY <1>1 DEF Types, WorkerTypes, BufferTypes, Writes
<1>4. D \in Seq(Nat) /\ P \in Seq(Nat)
  <2>1. pending[s][c] \in Write \cup {NoWrite} BY DEF Types, BufferTypes, Writes
  <2> QED BY <1>3, <2>1, AtomsType
<1>5. failed' = [failed EXCEPT ![w][c] = NoWrite]
  <2>1. failed[w][c] = NoWrite BY <1>1 DEF BufferInv, HandInv
  <2>2. failed \in [Workers -> Writes] BY DEF Types, WorkerTypes
  <2> QED BY <1>1, <2>1, <2>2 DEF Writes
<1>6. LinesKeptBut(s, c) /\ Line(s, c) = D \o P /\ Line(s, c)' = P
  <2>1. Atoms(NoWrite) = <<>> BY DEF Atoms
  <2>2. /\ LinesKeptBut(s, c) /\ Line(s, c) = D \o P
        /\ Line(s, c)' = (IF Wipes(pending[s][c]) THEN <<>> ELSE Atoms(NoWrite)) \o P
    <3>1. Leaves(w, c, NoWrite) BY <1>1, <1>5 DEF Leaves
    <3> QED BY <1>0, <3>1, FlushedLine
  <2> HIDE DEF P, D
  <2> QED BY <1>4, <2>1, <2>2, EmptyJoin
<1>7. Written(old, write) = Behind!Reached(old, D)
  <2>1. \A i \in 1..Len(write.entries) : write.entries[i] # 0
    BY <1>0, <1>1 DEF BufferInv, HandInv, Sound
  <2> QED BY <1>1, <1>3, <2>1, WrittenIsReached
<1>8. CASE Len(D) > 0
  <2>1. SubSeq(Line(s, c), 1, Len(D)) = D BY <1>4, <1>6, WholeFront
  <2>2. Line(s, c)' = SubSeq(Line(s, c), Len(D) + 1, Len(Line(s, c)))
    BY <1>4, <1>6, RestOfJoin
  <2>3. stored' = [stored EXCEPT ![s][c] = Behind!Reached(@, SubSeq(Line(s, c), 1, Len(D)))]
    BY <1>1, <1>7, <2>1
  <2>4. Len(D) \in 1..Len(Line(s, c))
    <3> HIDE DEF D, P
    <3> QED BY <1>4, <1>6, <1>8
  <2>5. Behind!Persist(<<s, c>>)
    <3> HIDE DEF D
    <3> QED BY <1>1, <1>6, <2>2, <2>3, <2>4, PersistStep
  <2> QED BY <2>5
\* a write of nothing
<1>9. CASE Len(D) = 0
  <2>1. D = <<>>
    <3> HIDE DEF D
    <3> QED BY <1>4, <1>9
  <2>2. Line(s, c) = P
    <3> HIDE DEF P
    <3> QED BY <1>4, <1>6, <2>1, EmptyJoin
  <2>3. LinesKept BY <1>6, <2>2 DEF LinesKept, LinesKeptBut
  <2>4. Written(old, write) = old
    <3>1. \A i \in 1..Len(D) : D[i] # 0 BY <1>9
    <3> HIDE DEF D, old
    <3> QED BY <1>3, <1>4, <1>7, <2>1, <3>1, ReachedWithoutWipe, EmptyJoin
  <2>5. stored' = stored
    <3>1. stored' = [stored EXCEPT ![s][c] = stored[s][c]] BY <1>1, <2>4
    <3>2. stored \in [Stores -> [Chats -> Seq(Nat)]] BY DEF Types, BufferTypes
    <3> QED BY <3>1, <3>2
  <2> QED BY <1>1, <2>3, <2>5, StutterStep
<1>10. Len(D) \in Nat
  <2> HIDE DEF D
  <2> QED BY <1>4
<1> QED BY <1>8, <1>9, <1>10

LEMMA FailsStep ==
  ASSUME Assumptions, Types, OneWorker, OneWorker', WorkersAreConsistent, BufferInv,
         NEW w \in Workers, NEW c \in Chats, ApplyFails(w, c)
  PROVE  \E k \in Stores \X Chats : Behind!Fail(k)
<1>0. PICK s \in Stores : s = flushing[w] BY DEF ApplyFails, WorkersAreConsistent
<1> DEFINE write == drained[w][c]
           D == Atoms(write)
           P == Atoms(pending[s][c])
           old == stored[s][c]
<1>1. /\ stage[w] = "apply" /\ write # NoWrite
      /\ \E o \in AfterFailure(s, old, write) : stored' = [stored EXCEPT ![s][c] = o]
      /\ drained' = [drained EXCEPT ![w][c] = NoWrite]
      /\ failed' = [failed EXCEPT ![w][c] = write] \/ UNCHANGED failed
      /\ troubles + faults < MaxMishaps /\ faults' = faults + 1
      /\ UNCHANGED <<pending, stage, flushing, ops>>
  BY <1>0 DEF ApplyFails
<1>2. write \in Write /\ old \in Seq(Nat) BY <1>1 DEF Types, WorkerTypes, BufferTypes, Writes
<1>3. D \in Seq(Nat) /\ P \in Seq(Nat)
  <2>1. pending[s][c] \in Write \cup {NoWrite} BY DEF Types, BufferTypes, Writes
  <2> QED BY <1>2, <2>1, AtomsType
<1>4. faults < MaxMishaps BY <1>1, ConstantTypes DEF Types, EnvTypes
<1>5. PICK kept \in {NoWrite, write} : Leaves(w, c, kept)
  <2>1. CASE failed' = [failed EXCEPT ![w][c] = write]
    <3>1. Leaves(w, c, write) BY <1>1, <2>1 DEF Leaves
    <3> QED BY <3>1
  <2>2. CASE UNCHANGED failed
    <3>1. failed[w][c] = NoWrite BY <1>1 DEF BufferInv, HandInv
    <3>2. failed' = [failed EXCEPT ![w][c] = NoWrite] BY <2>2, <3>1 DEF Types, WorkerTypes, Writes
    <3>3. Leaves(w, c, NoWrite) BY <1>1, <3>2 DEF Leaves
    <3> QED BY <3>3
  <2> QED BY <1>1, <2>1, <2>2
<1>6. /\ LinesKeptBut(s, c) /\ Line(s, c) = D \o P
      /\ Line(s, c)' = (IF Wipes(pending[s][c]) THEN <<>> ELSE Atoms(kept)) \o P
  BY <1>0, <1>5, FlushedLine
\* the write was put aside, or was given up or wiped out meanwhile
<1>7. Line(s, c)' = D \o P \/ Line(s, c)' = P
  <2>1. Atoms(NoWrite) = <<>> BY DEF Atoms
  <2>2. (IF Wipes(pending[s][c]) THEN <<>> ELSE Atoms(kept)) \in {D, <<>>} BY <2>1
  <2> HIDE DEF D, P
  <2>3. Line(s, c)' = D \o P \/ Line(s, c)' = <<>> \o P BY <1>6, <2>2
  <2> QED BY <1>3, <2>3, EmptyJoin
<1>8. \E given \in 0..Len(Line(s, c)) :
        Line(s, c)' = SubSeq(Line(s, c), given + 1, Len(Line(s, c)))
  <2> HIDE DEF D, P
  <2> DEFINE L == D \o P
  <2>1. L \in Seq(Nat) /\ Len(L) = Len(D) + Len(P) /\ Len(D) \in Nat /\ Len(P) \in Nat BY <1>3
  <2>2. SubSeq(L, Len(D) + 1, Len(L)) = P BY <1>3, RestOfJoin
  <2> HIDE DEF L
  <2>3. SubSeq(L, 0 + 1, Len(L)) = L BY <2>1
  <2>4. 0 \in 0..Len(L) /\ Len(D) \in 0..Len(L) BY <2>1
  <2>5. \E given \in 0..Len(L) : Line(s, c)' = SubSeq(L, given + 1, Len(L))
    <3>1. CASE Line(s, c)' = L BY <2>3, <2>4, <3>1
    <3>2. CASE Line(s, c)' = P BY <2>2, <2>4, <3>2
    <3> QED BY <1>7, <3>1, <3>2 DEF L
  <2> QED BY <1>6, <2>5 DEF L
<1>9. \E n \in 0..Len(Line(s, c)) :
        stored' = [stored EXCEPT ![s][c] = Behind!Reached(@, SubSeq(Line(s, c), 1, n))]
  <2>1. PICK o \in AfterFailure(s, old, write) : stored' = [stored EXCEPT ![s][c] = o] BY <1>1
  <2>2. Sound(s, write) BY <1>0, <1>1 DEF BufferInv, HandInv
  <2>3. PICK n \in 0..Len(D) : o = Behind!Reached(old, SubSeq(D, 1, n))
    BY <1>2, <2>2, FailureIsReached
  <2>4. SubSeq(Line(s, c), 1, n) = SubSeq(D, 1, n)
    <3> HIDE DEF D, P
    <3> QED BY <1>3, <1>6, FrontOfJoin
  <2>5. n \in 0..Len(Line(s, c))
    <3> HIDE DEF D, P
    <3> QED BY <1>3, <1>6
  <2>6. o = Behind!Reached(stored[s][c], SubSeq(Line(s, c), 1, n)) BY <2>3, <2>4
  <2> QED BY <2>1, <2>5, <2>6
<1>10. Behind!Fail(<<s, c>>) BY <1>1, <1>4, <1>6, <1>8, <1>9, FailStep
<1> QED BY <1>10

\* restore_missing puts a line back as WriteBehind has it.
LEMMA RestoreStep ==
  ASSUME Assumptions, Types, OneWorker, OneWorker', WorkersAreConsistent, BufferInv,
         NEW w \in Workers, RestoreFailed(w)
  PROVE  LinesKept /\ UNCHANGED <<stored, ops, faults>>
<1>0. PICK s \in Stores : s = flushing[w] BY DEF RestoreFailed, WorkersAreConsistent
<1>1. /\ stage[w] = "apply" /\ drained[w] = NoWrites
      /\ pending' = [pending EXCEPT ![s] =
                       [c \in Chats |-> Restored(s, pending[s][c], failed[w][c])]]
      /\ Stage(w, "clear")
      /\ UNCHANGED <<flushing, drained, stored, ops, faults>>
  BY <1>0 DEF RestoreFailed, envVars
<1>2. \A v \in Workers : stage'[v] # "apply"
  <2>1. \A v \in Workers : stage[v] = "apply" => v = w BY <1>1 DEF OneWorker
  <2> QED BY <1>1, <2>1 DEF Stage, Types, WorkerTypes
<1>3. \A v \in Workers, z \in Stores : Flushes(v, z) => z = s
  BY <1>0, <1>1 DEF Flushes, OneWorker
<1>4. ASSUME NEW z \in Stores, NEW d \in Chats, z # s
      PROVE  Line(z, d)' = Line(z, d)
  <2>1. pending'[z][d] = pending[z][d] BY <1>1, <1>4 DEF Types, BufferTypes
  <2> QED BY <1>2, <1>3, <1>4, <2>1, LineKept DEF Flushes
<1>5. ASSUME NEW d \in Chats
      PROVE  Line(s, d)' = Line(s, d)
  <2> DEFINE p == pending[s][d]
             f == failed[w][d]
             F == IF Wipes(p) THEN <<>> ELSE Atoms(f)
             P == Atoms(p)
             R == Atoms(Restored(s, p, f))
  <2>1. p \in Write \cup {NoWrite} /\ f \in Write \cup {NoWrite}
    BY DEF Types, BufferTypes, WorkerTypes, Writes
  <2>2. Sound(s, p) BY DEF BufferInv
  <2>3. P \in Seq(Nat) /\ F \in Seq(Nat) /\ R \in Seq(Nat) BY <2>1, AtomsType, RestoredTypes
  <2>4. R = F \o P BY <2>1, <2>2, RestoredAtoms
  <2>5. pending'[s][d] = Restored(s, p, f) BY <1>1 DEF Types, BufferTypes
  <2>6. InHand(s, d) = F
    <3>1. InHand(s, d) = Atoms(drained[w][d]) \o F BY <1>0, <1>1, HandOf
    <3>2. Atoms(drained[w][d]) = <<>> BY <1>1 DEF NoWrites, Atoms
    <3> HIDE DEF F
    <3> QED BY <2>3, <3>1, <3>2, EmptyJoin
  <2>7. InHand(s, d)' = <<>> BY <1>2, NoHandNext
  <2>8. Line(s, d) = F \o P
    <3> HIDE DEF F
    <3> QED BY <2>6 DEF Line
  <2>9. Line(s, d)' = <<>> \o R
    BY <2>5, <2>7 DEF Line
  <2> HIDE DEF F, P, R
  <2> QED BY <2>3, <2>4, <2>8, <2>9, EmptyJoin
<1> QED BY <1>1, <1>4, <1>5 DEF LinesKept

-----------------------------------------------------------------------------
(* The refinement.                                                         *)

LEMMA BehindInitially ==
  ASSUME Assumptions, Init
  PROVE  BufferInv /\ Behind!BehindInit
<1>1. /\ \A w \in Workers : stage[w] = "off" /\ drained[w] = NoWrites /\ failed[w] = NoWrites
      /\ \A s \in Stores, c \in Chats : pending[s][c] = NoWrite /\ stored[s][c] = <<>>
      /\ ops = 0 /\ faults = 0
  BY DEF Init, QueueInit, WorkerInit, NoWrites
<1>2. BufferInv BY <1>1 DEF BufferInv, HandInv, Sound
<1>3. \A s \in Stores, c \in Chats : InHand(s, c) = <<>> BY <1>1, NoHand
<1>4. \A s \in Stores, c \in Chats : Line(s, c) = <<>>
  <2>1. Atoms(NoWrite) = <<>> BY DEF Atoms
  <2>2. <<>> \o <<>> = <<>> BY EmptyJoin
  <2> QED BY <1>1, <1>3, <2>1, <2>2 DEF Line
<1>5. Lines = [k \in Stores \X Chats |-> <<>>] BY <1>4 DEF Lines, Line
<1>6. Stored = [k \in Stores \X Chats |-> <<>>] BY <1>1 DEF Stored
<1> QED BY <1>1, <1>2, <1>5, <1>6 DEF Behind!BehindInit, Lines, Stored

LEMMA BehindStep ==
  ASSUME Assumptions, Types, OneWorker, OneWorker', WorkersAreConsistent, BufferInv, [Next]_vars
  PROVE  [Behind!BehindNext]_(Behind!behindVars)
<1>1. BuffersKept \/ CallerWrites \/ FlushMoves BY StepsOfBuffers
<1>2. CASE BuffersKept
  <2>1. LinesKept BY <1>2, KeptLines
  <2> QED BY <1>2, <2>1, StutterStep DEF BuffersKept
<1>3. CASE CallerWrites
  BY <1>3, CallerStep DEF Behind!BehindNext
<1>4. CASE FlushMoves
  <2>1. PICK w \in Workers :
          \/ \E l \in Labels : TakeAll(w, l)
          \/ \E c \in Chats : Apply(w, c) \/ ApplyFails(w, c)
          \/ RestoreFailed(w)
    BY <1>4 DEF FlushMoves
  <2>2. CASE \E l \in Labels : TakeAll(w, l) BY <2>2, TakeAllStep, StutterStep
  <2>3. CASE \E c \in Chats : Apply(w, c) BY <2>3, ApplyStep DEF Behind!BehindNext
  <2>4. CASE \E c \in Chats : ApplyFails(w, c) BY <2>4, FailsStep DEF Behind!BehindNext
  <2>5. CASE RestoreFailed(w) BY <2>5, RestoreStep, StutterStep
  <2> QED BY <2>1, <2>2, <2>3, <2>4, <2>5
<1> QED BY <1>1, <1>2, <1>3, <1>4

\* What the buffers hold is sound in every state.
LEMMA BuffersAlways == Spec => []BufferInv
<1>1. Assumptions BY QueueAssumption, WorkerAssumption, AgentAssumption DEF Assumptions
<1>2. Init => BufferInv BY <1>1, BehindInitially
<1>3. WriteBackInv /\ BufferInv /\ [Next]_vars => BufferInv'
  BY <1>1, BufferInvKept DEF WriteBackInv
<1> QED BY <1>2, <1>3, WriteBackAlways, PTL DEF Spec

\* The write-back plane implements WriteBehind: accepted writes of a chat
\* reach the storage in order and once, and only a failing storage repeats
\* or loses any, whatever the scheduler, its retries, the coalescing and the
\* writes that flush_map and flush_session_store put back.
THEOREM WriteBackImplements == Spec => ImplementsWriteBehind
<1>1. Assumptions BY QueueAssumption, WorkerAssumption, AgentAssumption DEF Assumptions
<1>2. Init => Behind!BehindInit BY <1>1, BehindInitially
<1>3. WriteBackInv /\ WriteBackInv' /\ BufferInv /\ [Next]_vars
        => [Behind!BehindNext]_(Behind!behindVars)
  BY <1>1, BehindStep DEF WriteBackInv
<1> QED BY <1>2, <1>3, WriteBackAlways, BuffersAlways, PTL
     DEF Spec, ImplementsWriteBehind, Behind!BehindSpec
=============================================================================
