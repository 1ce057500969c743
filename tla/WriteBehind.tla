----------------------------- MODULE WriteBehind -----------------------------
(***************************************************************************)
(* What the buffered stores of src/src/runtime/write_back.rs promise, with *)
(* no scheduler, queue, worker or flush.  Each chat of each store has a    *)
(* line of accepted writes that wait, first in first out; the storage gets *)
(* them in that order and each one once.  A write that a later clear wipes *)
(* out anyway may be dropped unwritten.  Only a failing storage may repeat *)
(* appends or lose writes, and each time it does so it counts.             *)
(*                                                                         *)
(* A waiting line is made of atoms: an entry's number, or Wipe.            *)
(***************************************************************************)
EXTENDS Naturals, Sequences

CONSTANTS
  Keys,          \* the chats of the stores
  MaxFaults      \* bound: failing writes of the storage

Wipe == 0

VARIABLES
  waiting,       \* accepted and not yet in the storage, by key
  contents,      \* what the storage holds, by key
  accepted,      \* number of writes accepted so far
  faults         \* failing writes so far

behindVars == <<waiting, contents, accepted, faults>>

\* What contents become when a line of atoms is written.
LastWipe(q) == {i \in 1..Len(q) : q[i] = Wipe /\ \A j \in i + 1..Len(q) : q[j] # Wipe}
Reached(old, q) ==
  IF LastWipe(q) = {} THEN old \o q
  ELSE SubSeq(q, (CHOOSE i \in LastWipe(q) : TRUE) + 1, Len(q))

\* A line, with or without a stretch that the wipe after it undoes.
Thinned(q) ==
  {q} \cup UNION {{SubSeq(q, 1, i) \o SubSeq(q, j, Len(q)) : i \in 0..Len(q)} :
                    j \in {k \in 1..Len(q) : q[k] = Wipe}}

BehindInit ==
  /\ waiting = [k \in Keys |-> <<>>] /\ contents = [k \in Keys |-> <<>>]
  /\ accepted = 0 /\ faults = 0

Promise(k) ==
  /\ accepted' = accepted + 1
  /\ \E write \in {<<accepted + 1>>, <<Wipe>>, <<Wipe, accepted + 1>>} :
       \E line \in Thinned(waiting[k] \o write) : waiting' = [waiting EXCEPT ![k] = line]
  /\ UNCHANGED <<contents, faults>>

\* The first n atoms of a line reach the storage.
Persist(k) ==
  /\ \E n \in 1..Len(waiting[k]) :
       /\ contents' = [contents EXCEPT ![k] = Reached(@, SubSeq(waiting[k], 1, n))]
       /\ waiting' = [waiting EXCEPT ![k] = SubSeq(@, n + 1, Len(@))]
  /\ UNCHANGED <<accepted, faults>>

\* The storage fails: some atoms may be in it, they and others may be given
\* up, or all be written again.
Fail(k) ==
  /\ faults < MaxFaults /\ faults' = faults + 1
  /\ \E n \in 0..Len(waiting[k]), given \in 0..Len(waiting[k]) :
       /\ contents' = [contents EXCEPT ![k] = Reached(@, SubSeq(waiting[k], 1, n))]
       /\ waiting' = [waiting EXCEPT ![k] = SubSeq(@, given + 1, Len(@))]
  /\ UNCHANGED accepted

BehindNext == \E k \in Keys : Promise(k) \/ Persist(k) \/ Fail(k)

BehindSpec == BehindInit /\ [][BehindNext]_behindVars
=============================================================================
