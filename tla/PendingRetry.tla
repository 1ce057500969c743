---------------------------- MODULE PendingRetry ----------------------------
(***************************************************************************)
(* The single slot that keeps an inbound message across a restart          *)
(* (StoragePendingRetryStore of src/src/platform/storage/pending_retry.rs):*)
(* a file, and a mirror of it in memory that is filled on first use.       *)
(*                                                                         *)
(* Each operation is the set of its outcomes [ok, store]: ok is FALSE when *)
(* the file could not be read or written.  A write replaces the file as a  *)
(* whole (the host's tmp and rename).                                      *)
(***************************************************************************)
EXTENDS Naturals

CONSTANTS
  MaxReplay,  \* PENDING_RETRY_MAX_REPLAY
  Empty       \* no entry: no file, "{}", or one that cannot be parsed

ASSUME ReplayAssumption == MaxReplay \in Nat \ {0}

Fresh(file) == [file |-> file, loaded |-> FALSE, entry |-> Empty]

\* load_cache_locked, when the file can be read.
Loaded(s) == IF s.loaded THEN s ELSE [file |-> s.file, loaded |-> TRUE, entry |-> s.file]

ReadFailure(s) == IF s.loaded THEN {} ELSE {[ok |-> FALSE, store |-> s]}

CountAfter(entry) ==
  CASE entry = Empty -> 1
    [] entry # Empty /\ entry.count < MaxReplay -> entry.count + 1
    [] OTHER -> MaxReplay

Holding(m, n) == LET e == [msg |-> m, count |-> n]
                 IN  [file |-> e, loaded |-> TRUE, entry |-> e]

\* Seeded fault: the mirror is updated before the file is written.
MirrorFirst(s, m) ==
  LET saved == Holding(m, CountAfter(Loaded(s).entry))
  IN  ReadFailure(s) \cup
      {[ok |-> FALSE, store |-> [saved EXCEPT !.file = s.file]],
       [ok |-> TRUE,  store |-> saved]}

\* save_pending_retry: whatever the slot held is replaced, its count goes on.
Save(s, m) ==
  ReadFailure(s) \cup
  {[ok |-> FALSE, store |-> Loaded(s)],
   [ok |-> TRUE,  store |-> Holding(m, CountAfter(Loaded(s).entry))]}

\* load_pending_retry of an entry that was counted out: the file is emptied,
\* or not, and the mirror is empty in any case.
CountedOut(s) == Loaded(s).entry # Empty /\ Loaded(s).entry.count >= MaxReplay

Discard(s) ==
  {[ok |-> TRUE,  store |-> [file |-> Empty,  loaded |-> TRUE, entry |-> Empty]],
   [ok |-> FALSE, store |-> [file |-> s.file, loaded |-> TRUE, entry |-> Empty]]}

\* clear_pending_retry.
Clear(s) ==
  {[ok |-> TRUE,  store |-> [file |-> Empty, loaded |-> TRUE, entry |-> Empty]],
   [ok |-> FALSE, store |-> s]}
=============================================================================
