-------------------------------- MODULE Lease --------------------------------
(***************************************************************************)
(* The runtime lease registry of src/src/runtime/lease.rs: one mutex-held  *)
(* table of records that says who may use a display, a camera frame, the   *)
(* audio devices, a TLS handshake, the agent's heavy turn...  Every call   *)
(* takes the mutex once, so a call is one action.  What is not atomic is   *)
(* the clock: now_ms() is read BEFORE the mutex is taken, so a call may    *)
(* run with a timestamp older than the ones of calls it follows.           *)
(*                                                                         *)
(* The callers hold RAII guards (FrameLease, ForegroundTurnGuard, the      *)
(* display, audio and WSS guards...): a guard remembers its token and      *)
(* gives it back with release_token when it is dropped.                    *)
(***************************************************************************)
EXTENDS LeaseOps, FiniteSets

CONSTANTS
  Guards,      \* the guard objects callers may have alive
  NoGuard,     \* a guard that is not alive
  Ttls,        \* the time-to-live values callers ask for
  MaxTime      \* bound on the clock (the code has none)

ASSUME TtlAssumption ==
  /\ MaxTime \in Nat
  /\ Ttls \subseteq (Nat \cup {NoExpiry})
  /\ NoGuard \notin [kind : Kinds, owner : Owners, token : 1..TokenMax]

\* There are fewer guards than a u32 counts.
ASSUME GuardsAssumption ==
  /\ IsFiniteSet(Guards)
  /\ Cardinality(Guards) <= HoldMax

VARIABLES
  records,     \* LeaseRegistry.records
  nextToken,   \* LeaseRegistry.next_token
  guards,      \* the guards alive, by guard object
  now,         \* the monotonic clock, ms
  bare         \* history: a hold was given back without showing its token

vars == <<records, nextToken, guards, now, bare>>

GuardType == [kind : Kinds, owner : Owners, token : 1..TokenMax]

GuardOf(r) == [kind |-> r.kind, owner |-> r.owner, token |-> r.token]

Init ==
  /\ records = {}
  /\ nextToken = 1
  /\ guards = [g \in Guards |-> NoGuard]
  /\ now = 0
  /\ bare = FALSE

-----------------------------------------------------------------------------
(* try_acquire_with_policy_at and the wrappers around it.  The expired     *)
(* records of the kind are gone even when the call is then denied.         *)

DenyAcquire(g, k, o, mode, t, policy) ==
  LET kept == AfterExpiry(records, k, t, policy)
  IN  /\ guards[g] = NoGuard
      /\ ~ReplacementForbidden(records, k, t, policy)
      /\ \/ \E r \in HeldBy(kept, k, o) : r.mode # mode
         \/ /\ HeldBy(kept, k, o) = {}
            /\ Conflicts(kept, k, mode, t) # {}
      /\ records' = kept
      /\ UNCHANGED <<nextToken, guards, now>>

Reenter(g, k, o, mode, t, policy) ==
  LET kept == AfterExpiry(records, k, t, policy)
  IN  /\ guards[g] = NoGuard
      /\ ~ReplacementForbidden(records, k, t, policy)
      /\ \E r \in HeldBy(kept, k, o) :
           /\ r.mode = mode
           /\ records' = (kept \ {r}) \cup {OneMoreHold(r)}
           /\ guards' = [guards EXCEPT ![g] = GuardOf(r)]
      /\ UNCHANGED <<nextToken, now>>

Acquire(g, k, o, mode, ttl, t, policy) ==
  LET kept == AfterExpiry(records, k, t, policy)
      r    == NewRecord(nextToken, k, o, mode, ttl, t)
  IN  /\ guards[g] = NoGuard
      /\ ~ReplacementForbidden(records, k, t, policy)
      /\ HeldBy(kept, k, o) = {}
      /\ Conflicts(kept, k, mode, t) = {}
      /\ records' = kept \cup {r}
      /\ nextToken' = TokenAfter(nextToken)
      /\ guards' = [guards EXCEPT ![g] = GuardOf(r)]
      /\ UNCHANGED now

\* try_acquire_exclusive_once_at: no reentry, any active record denies.
AcquireOnce(g, k, o, ttl, t, policy) ==
  LET kept == AfterExpiry(records, k, t, policy)
      r    == NewRecord(nextToken, k, o, "Exclusive", ttl, t)
  IN  /\ guards[g] = NoGuard
      /\ ~ReplacementForbidden(records, k, t, policy)
      /\ IF Active(kept, k, t) # {}
           THEN records' = kept /\ UNCHANGED <<nextToken, guards>>
           ELSE /\ records' = kept \cup {r}
                /\ nextToken' = TokenAfter(nextToken)
                /\ guards' = [guards EXCEPT ![g] = GuardOf(r)]
      /\ UNCHANGED now

\* Seeded fault: the drop does not show the guard's token.
DropGuardByOwner(g) ==
  /\ guards[g] # NoGuard
  /\ LET matching == HeldBy(records, guards[g].kind, guards[g].owner)
     IN  \/ matching = {} /\ UNCHANGED records
         \/ \E r \in matching : records' = OneHoldLess(records, r)
  /\ guards' = [guards EXCEPT ![g] = NoGuard]
  /\ UNCHANGED <<nextToken, now>>

\* Drop of a guard: release_token with the token the guard remembers.
DropGuard(g) ==
  /\ guards[g] # NoGuard
  /\ LET matching == {r \in HeldBy(records, guards[g].kind, guards[g].owner) :
                        r.token = guards[g].token}
     IN  \/ matching = {} /\ UNCHANGED records
         \/ \E r \in matching : records' = OneHoldLess(records, r)
  /\ guards' = [guards EXCEPT ![g] = NoGuard]
  /\ UNCHANGED <<nextToken, now>>

\* release: gives back a hold without showing a token.
Release(k, o) ==
  /\ \E r \in HeldBy(records, k, o) : records' = OneHoldLess(records, r)
  /\ UNCHANGED <<nextToken, guards, now>>

ReleaseOwner(o) ==
  /\ records' = {r \in records : r.owner # o}
  /\ UNCHANGED <<nextToken, guards, now>>

ReleaseKind(k) ==
  /\ records' = {r \in records : r.kind # k}
  /\ UNCHANGED <<nextToken, guards, now>>

Tick ==
  /\ now < MaxTime
  /\ now' = now + 1
  /\ UNCHANGED <<records, nextToken, guards>>

-----------------------------------------------------------------------------
TryAcquire ==
  \E g \in Guards, k \in Kinds, o \in Owners, t \in 0..now, policy \in Policies :
    \/ \E mode \in Modes :
         \/ DenyAcquire(g, k, o, mode, t, policy)
         \/ Reenter(g, k, o, mode, t, policy)
         \/ \E ttl \in Ttls : Acquire(g, k, o, mode, ttl, t, policy)
    \/ \E ttl \in Ttls : AcquireOnce(g, k, o, ttl, t, policy)

\* The steps of callers that only hold guards, as all of the firmware does
\* outside network::set_external_wss_managed_present and the tests.
GuardNext ==
  /\ \/ TryAcquire
     \/ \E g \in Guards : DropGuard(g)
     \/ Tick
  /\ UNCHANGED bare

\* The releases that show no token.
BareRelease ==
  /\ \/ \E k \in Kinds, o \in Owners : Release(k, o)
     \/ \E o \in Owners : ReleaseOwner(o)
     \/ \E k \in Kinds : ReleaseKind(k)
  /\ bare' = TRUE

Next == GuardNext \/ BareRelease

Spec == Init /\ [][Next]_vars

-----------------------------------------------------------------------------
(* The registry holds lease records, its token counter has not passed      *)
(* u64::MAX, and every live guard names a kind, an owner and a token.      *)
TypeOK ==
  /\ records \in SUBSET LeaseRecord
  /\ nextToken \in 1..TokenMax
  /\ guards \in [Guards -> GuardType \cup {NoGuard}]
  /\ now \in Nat

(* Mutual exclusion: an exclusive record is the only record of its kind,   *)
(* even once it has expired and whatever stale timestamps callers use.     *)
(* This is what lets an RAII guard stand for "the device is mine".         *)
ExclusiveIsAlone ==
  \A r, q \in records :
    (r.kind = q.kind /\ r # q) => (r.mode = "Shared" /\ q.mode = "Shared")

(* An owner has at most one record of a kind: release and the reentry path *)
(* take the first match of their scan, so a second one would never be      *)
(* found again.                                                            *)
OneRecordPerOwner ==
  \A r, q \in records : (r.kind = q.kind /\ r.owner = q.owner) => r = q

(* Until the token counter saturates, a token is never given twice: no     *)
(* record or live guard has a token the registry has yet to give, and no   *)
(* two records share one.  A stale guard can then only match its own       *)
(* record.                                                                 *)
TokensAreFresh ==
  nextToken < TokenMax =>
    /\ \A r \in records : r.token < nextToken
    /\ \A g \in Guards : guards[g] # NoGuard => guards[g].token < nextToken
    /\ \A r, q \in records : r.token = q.token => r = q

\* The live guards that show a token.
HoldersOf(token) == {g \in Guards : guards[g] # NoGuard /\ guards[g].token = token}

(* hold_count counts the guards: while callers only use guards, a record's *)
(* count is the number of live guards with its token, so the record goes   *)
(* exactly when the last of them is dropped.                               *)
HoldsCountGuards ==
  (nextToken < TokenMax /\ ~bare) =>
    \A r \in records :
      r.holds = Cardinality(HoldersOf(r.token))

(* A guard's drop takes nothing from anybody else: a record only loses a   *)
(* hold, or goes, when a guard with its token is dropped, when the record  *)
(* has expired, or by a call that names its kind or owner and shows no     *)
(* token.  A guard whose lease expired and was taken over must not release *)
(* its successor.                                                          *)
OnlyOwnHoldsReleased ==
  [][(nextToken < TokenMax /\ ~BareRelease) =>
       \A r \in records :
         \/ \E q \in records' : q.token = r.token /\ q.holds >= r.holds
         \/ \E g \in Guards : /\ guards[g] # NoGuard
                              /\ guards[g].token = r.token
                              /\ guards'[g] = NoGuard
         \/ IsExpired(r, now)]_vars
=============================================================================
