----------------------------- MODULE WriteBuffer -----------------------------
(***************************************************************************)
(* The writes that the buffered stores of src/src/runtime/write_back.rs    *)
(* keep in memory until a flush: at most one per chat, into which later    *)
(* writes are merged.  A map store (execution state, turn ledger, session  *)
(* summary...) holds one value per chat, so each of its writes starts by   *)
(* forgetting the old one; a log store (the session) also takes appends.   *)
(*                                                                         *)
(* The contents of a store, for one chat, are the sequence of the entries  *)
(* it holds: at most one for a map store.                                  *)
(***************************************************************************)
EXTENDS Naturals, Sequences

CONSTANT NoWrite   \* no pending write for a chat

Write == [clear : BOOLEAN, entries : Seq(Nat)]

\* PendingValue (Clear is the value that is no value), and stage_clear.
SetWrite(v) == [clear |-> TRUE, entries |-> <<v>>]
ClearWrite  == [clear |-> TRUE, entries |-> <<>>]

\* stage_append: joins the write that is pending for the chat.
Appended(w, e) ==
  IF w = NoWrite THEN [clear |-> FALSE, entries |-> <<e>>]
                 ELSE [clear |-> w.clear, entries |-> Append(w.entries, e)]

\* What contents become when a write reaches them.
Written(contents, w) ==
  IF w = NoWrite THEN contents
  ELSE IF w.clear THEN w.entries ELSE contents \o w.entries

\* Seeded fault: a failed write is put back over a newer one.
PutBackOlder(current, failed) == IF failed = NoWrite THEN current ELSE failed

\* PendingMapBuffer::restore_missing: a newer write wins.
RestoredSet(current, failed) == IF current = NoWrite THEN failed ELSE current

\* PendingSessionBuffer::restore_missing: older appends go before newer ones,
\* and a newer clear wins over them.
RestoredLog(current, failed) ==
  IF failed = NoWrite \/ (current # NoWrite /\ current.clear) THEN current
  ELSE IF current = NoWrite THEN failed
  ELSE [clear |-> failed.clear, entries |-> failed.entries \o current.entries]
=============================================================================
