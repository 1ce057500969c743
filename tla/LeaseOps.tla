------------------------------ MODULE LeaseOps ------------------------------
(***************************************************************************)
(* The decisions of the runtime lease registry (src/src/runtime/lease.rs)  *)
(* as functions of the registry's records.  A record is identified by its  *)
(* token, so the registry's Vec is a set here: its order only picks which  *)
(* conflicting holder a denial names, which no caller acts on.             *)
(*                                                                         *)
(* The functions are shared by the registry itself (module Lease) and by   *)
(* the components that hold leases (module ExternalWss).                   *)
(***************************************************************************)
EXTENDS Integers

CONSTANTS
  Kinds,       \* LeaseKind: the resources the registry governs
  Owners,      \* LeaseOwner: the logical owners (plane, name)
  NoExpiry,    \* expires_at_ms = None
  TokenMax,    \* u64::MAX, where next_token saturates
  HoldMax      \* u32::MAX, where hold_count saturates

ASSUME LimitsAssumption ==
  /\ TokenMax \in Nat \ {0}
  /\ HoldMax \in Nat \ {0}
  /\ NoExpiry \notin Int

Modes    == {"Exclusive", "Shared"}
Policies == {"ReplaceExpired", "Never"}

LeaseRecord ==
  [token   : 1..TokenMax,
   kind    : Kinds,
   owner   : Owners,
   mode    : Modes,
   expires : Int \cup {NoExpiry},
   holds   : 1..HoldMax]

IsExpired(r, t) == r.expires # NoExpiry /\ t >= r.expires

OfKind(recs, k)    == {r \in recs : r.kind = k}
Active(recs, k, t) == {r \in OfKind(recs, k) : ~IsExpired(r, t)}

\* Seeded fault: the policy Never is not looked at.
NothingForbidden(recs, k, t, policy) == FALSE

\* An expired record may block its resource: with the policy Never nobody
\* takes over a kind all of whose records have expired.
ReplacementForbidden(recs, k, t, policy) ==
  /\ policy = "Never"
  /\ OfKind(recs, k) # {}
  /\ Active(recs, k, t) = {}

\* Seeded fault: expired records are skipped but not removed.
ExpiredKept(recs, k, t, policy) == recs

\* What an acquisition leaves of the registry before it looks for conflicts.
AfterExpiry(recs, k, t, policy) ==
  IF policy = "ReplaceExpired"
    THEN {r \in recs : r.kind = k => ~IsExpired(r, t)}
    ELSE recs

HeldBy(recs, k, o) == {r \in OfKind(recs, k) : r.owner = o}

Conflicts(recs, k, mode, t) ==
  {r \in Active(recs, k, t) : r.mode = "Exclusive" \/ mode = "Exclusive"}

\* Seeded faults: the counter does not saturate; a reentry is not counted.
NextNumber(token) == token + 1
SameHolds(r) == r

\* Saturating increments.
TokenAfter(token) == IF token < TokenMax THEN token + 1 ELSE TokenMax
OneMoreHold(r)    == [r EXCEPT !.holds = IF r.holds < HoldMax THEN r.holds + 1 ELSE HoldMax]

ExpiryOf(ttl, t) == IF ttl = NoExpiry THEN NoExpiry ELSE t + ttl

NewRecord(token, k, o, mode, ttl, t) ==
  [token |-> token, kind |-> k, owner |-> o, mode |-> mode,
   expires |-> ExpiryOf(ttl, t), holds |-> 1]

\* release_locked on the record it found: the last hold removes the record.
OneHoldLess(recs, r) ==
  IF r.holds > 1
    THEN (recs \ {r}) \cup {[r EXCEPT !.holds = r.holds - 1]}
    ELSE recs \ {r}
=============================================================================
