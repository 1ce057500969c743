----------------------------- MODULE LeaseProofs -----------------------------
(***************************************************************************)
(* What the lease registry guarantees for every set of kinds, owners and   *)
(* guards, every time-to-live, and every value at which its counters       *)
(* saturate.                                                               *)
(***************************************************************************)
EXTENDS Lease, FiniteSetTheorems, TLAPS

-----------------------------------------------------------------------------
(* The pieces of a call, typed. *)

LEMMA NewRecordType ==
  ASSUME NEW token \in 1..TokenMax, NEW k \in Kinds, NEW o \in Owners,
         NEW mode \in Modes, NEW ttl \in Ttls, NEW t \in Nat
  PROVE  NewRecord(token, k, o, mode, ttl, t) \in LeaseRecord
BY LimitsAssumption, TtlAssumption DEF NewRecord, LeaseRecord, ExpiryOf

LEMMA OneMoreHoldType ==
  ASSUME NEW r \in LeaseRecord
  PROVE  /\ OneMoreHold(r) \in LeaseRecord
         /\ OneMoreHold(r).token = r.token
         /\ OneMoreHold(r).kind = r.kind
         /\ OneMoreHold(r).owner = r.owner
         /\ OneMoreHold(r).mode = r.mode
         /\ OneMoreHold(r).expires = r.expires
         /\ OneMoreHold(r).holds >= r.holds
BY LimitsAssumption DEF OneMoreHold, LeaseRecord

(* A release takes one hold of one record and leaves the others as they    *)
(* are.                                                                    *)
LEMMA OneHoldLessType ==
  ASSUME NEW recs \in SUBSET LeaseRecord, NEW r \in recs
  PROVE  /\ OneHoldLess(recs, r) \in SUBSET LeaseRecord
         /\ \A x \in OneHoldLess(recs, r) :
              \/ x \in recs \ {r}
              \/ x.token = r.token /\ x.kind = r.kind /\ x.owner = r.owner /\ x.mode = r.mode
         /\ \A x, y \in OneHoldLess(recs, r) :
              (x \notin recs \ {r} /\ y \notin recs \ {r}) => x = y
         /\ recs \ {r} \subseteq OneHoldLess(recs, r)
BY LimitsAssumption DEF OneHoldLess, LeaseRecord

LEMMA AfterExpirySubset ==
  ASSUME NEW recs, NEW k, NEW t, NEW policy
  PROVE  AfterExpiry(recs, k, t, policy) \subseteq recs
BY DEF AfterExpiry

LEMMA TokenAfterType ==
  ASSUME NEW token \in 1..TokenMax
  PROVE  /\ TokenAfter(token) \in 1..TokenMax
         /\ TokenAfter(token) >= token
         /\ TokenAfter(token) < TokenMax => token < TokenAfter(token)
BY LimitsAssumption DEF TokenAfter

-----------------------------------------------------------------------------
(* The registry keeps the types of its table: every step of every          *)
(* operation of runtime/lease.rs.                                          *)
THEOREM TypeCorrect == Spec => []TypeOK
<1>1. Init => TypeOK
  BY LimitsAssumption DEF Init, TypeOK, GuardType
<1>2. TypeOK /\ [Next]_vars => TypeOK'
  <2> SUFFICES ASSUME TypeOK, [Next]_vars PROVE TypeOK'
    OBVIOUS
  <2> USE DEF TypeOK
  <2>1. ASSUME NEW g \in Guards, NEW k \in Kinds, NEW o \in Owners, NEW t \in 0..now,
               NEW policy \in Policies, NEW mode \in Modes,
               DenyAcquire(g, k, o, mode, t, policy)
        PROVE  TypeOK'
    BY <2>1, AfterExpirySubset DEF DenyAcquire
  <2>2. ASSUME NEW g \in Guards, NEW k \in Kinds, NEW o \in Owners, NEW t \in 0..now,
               NEW policy \in Policies, NEW mode \in Modes,
               Reenter(g, k, o, mode, t, policy)
        PROVE  TypeOK'
    <3>1. PICK r \in HeldBy(AfterExpiry(records, k, t, policy), k, o) :
            /\ records' = (AfterExpiry(records, k, t, policy) \ {r}) \cup {OneMoreHold(r)}
            /\ guards' = [guards EXCEPT ![g] = GuardOf(r)]
      BY <2>2 DEF Reenter
    <3>2. r \in records
      BY AfterExpirySubset DEF HeldBy, OfKind
    <3>3. records' \in SUBSET LeaseRecord
      BY <3>1, <3>2, OneMoreHoldType, AfterExpirySubset
    <3>4. GuardOf(r) \in GuardType
      BY <3>2 DEF GuardOf, GuardType, LeaseRecord
    <3> QED
      BY <2>2, <3>1, <3>3, <3>4 DEF Reenter
  <2>3. ASSUME NEW g \in Guards, NEW k \in Kinds, NEW o \in Owners, NEW t \in 0..now,
               NEW policy \in Policies, NEW mode \in Modes, NEW ttl \in Ttls,
               Acquire(g, k, o, mode, ttl, t, policy)
        PROVE  TypeOK'
    <3> DEFINE r == NewRecord(nextToken, k, o, mode, ttl, t)
    <3>1. r \in LeaseRecord
      BY NewRecordType
    <3>2. GuardOf(r) \in GuardType
      BY <3>1 DEF GuardOf, GuardType, LeaseRecord
    <3>3. records' \in SUBSET LeaseRecord
      BY <2>3, <3>1, AfterExpirySubset DEF Acquire
    <3>4. nextToken' \in 1..TokenMax
      BY <2>3, TokenAfterType DEF Acquire
    <3> HIDE DEF r
    <3>5. guards' = [guards EXCEPT ![g] = GuardOf(r)] /\ now' = now
      BY <2>3 DEF Acquire, r
    <3> QED
      BY <3>2, <3>3, <3>4, <3>5
  <2>4. ASSUME NEW g \in Guards, NEW k \in Kinds, NEW o \in Owners, NEW t \in 0..now,
               NEW policy \in Policies, NEW ttl \in Ttls,
               AcquireOnce(g, k, o, ttl, t, policy)
        PROVE  TypeOK'
    <3> DEFINE r == NewRecord(nextToken, k, o, "Exclusive", ttl, t)
    <3>1. r \in LeaseRecord
      BY NewRecordType DEF Modes
    <3>2. GuardOf(r) \in GuardType
      BY <3>1 DEF GuardOf, GuardType, LeaseRecord
    <3>3. records' \in SUBSET LeaseRecord
      BY <2>4, <3>1, AfterExpirySubset DEF AcquireOnce
    <3>4. nextToken' \in 1..TokenMax
      BY <2>4, TokenAfterType DEF AcquireOnce
    <3> HIDE DEF r
    <3>5. (guards' = guards \/ guards' = [guards EXCEPT ![g] = GuardOf(r)]) /\ now' = now
      BY <2>4 DEF AcquireOnce, r
    <3> QED
      BY <3>2, <3>3, <3>4, <3>5
  <2>5. ASSUME NEW g \in Guards, DropGuard(g)
        PROVE  TypeOK'
    <3>1. records' \in SUBSET LeaseRecord
      BY <2>5, OneHoldLessType DEF DropGuard, HeldBy, OfKind
    <3> QED
      BY <2>5, <3>1 DEF DropGuard
  <2>6. ASSUME NEW k \in Kinds, NEW o \in Owners, Release(k, o)
        PROVE  TypeOK'
    BY <2>6, OneHoldLessType DEF Release, HeldBy, OfKind
  <2>7. ASSUME NEW o \in Owners, ReleaseOwner(o)
        PROVE  TypeOK'
    BY <2>7 DEF ReleaseOwner
  <2>8. ASSUME NEW k \in Kinds, ReleaseKind(k)
        PROVE  TypeOK'
    BY <2>8 DEF ReleaseKind
  <2>9. CASE Tick
    BY <2>9 DEF Tick
  <2>10. CASE UNCHANGED vars
    BY <2>10 DEF vars
  <2> QED
    BY <2>1, <2>2, <2>3, <2>4, <2>5, <2>6, <2>7, <2>8, <2>9, <2>10
       DEF Next, GuardNext, BareRelease, TryAcquire
<1> QED
  BY <1>1, <1>2, PTL DEF Spec

-----------------------------------------------------------------------------
(* Mutual exclusion and one record per owner and kind hold together: an    *)
(* acquisition adds a record only where both allow it.                     *)

ExclusionInv == ExclusiveIsAlone /\ OneRecordPerOwner

LEMMA ExclusionOfSubset ==
  ASSUME ExclusionInv, NEW S \in SUBSET records, records' = S
  PROVE  ExclusionInv'
BY DEF ExclusionInv, ExclusiveIsAlone, OneRecordPerOwner

(* Replacing a record by one of the same kind, owner and mode changes      *)
(* nothing for either invariant.                                           *)
LEMMA ExclusionOfUpdate ==
  ASSUME ExclusionInv, NEW r \in records, NEW q,
         q.kind = r.kind, q.owner = r.owner, q.mode = r.mode,
         records' \subseteq (records \ {r}) \cup {q}
  PROVE  ExclusionInv'
BY DEF ExclusionInv, ExclusiveIsAlone, OneRecordPerOwner

(* Adding a record whose kind has no record at all, or only shared ones of *)
(* other owners when the new record is shared too.                         *)
LEMMA ExclusionOfNewRecord ==
  ASSUME ExclusionInv, NEW S \in SUBSET records, NEW q, records' = S \cup {q},
         \A r \in S : r.kind = q.kind =>
           r.mode = "Shared" /\ q.mode = "Shared" /\ r.owner # q.owner
  PROVE  ExclusionInv'
BY DEF ExclusionInv, ExclusiveIsAlone, OneRecordPerOwner

(* An expired record that survives the call keeps the call from going on   *)
(* unless an active one is left: whatever the policy, the conflict test    *)
(* then looks at a record of every mode that is left.                      *)
LEMMA SurvivorsAreActiveOrGuarded ==
  ASSUME NEW k, NEW t, NEW policy \in Policies,
         ~ReplacementForbidden(records, k, t, policy),
         NEW r \in AfterExpiry(records, k, t, policy), r.kind = k
  PROVE  \E q \in AfterExpiry(records, k, t, policy) :
           q \in Active(AfterExpiry(records, k, t, policy), k, t)
BY DEF ReplacementForbidden, AfterExpiry, Active, OfKind, Policies

LEMMA ExclusionStep == ExclusionInv /\ TypeOK /\ [Next]_vars => ExclusionInv'
<1> SUFFICES ASSUME ExclusionInv, TypeOK, [Next]_vars PROVE ExclusionInv'
  OBVIOUS
<1>1. ASSUME NEW g \in Guards, NEW k \in Kinds, NEW o \in Owners, NEW t \in 0..now,
             NEW policy \in Policies, NEW mode \in Modes,
             DenyAcquire(g, k, o, mode, t, policy)
      PROVE  ExclusionInv'
  BY <1>1, AfterExpirySubset, ExclusionOfSubset DEF DenyAcquire
<1>2. ASSUME NEW g \in Guards, NEW k \in Kinds, NEW o \in Owners, NEW t \in 0..now,
             NEW policy \in Policies, NEW mode \in Modes,
             Reenter(g, k, o, mode, t, policy)
      PROVE  ExclusionInv'
  <2>1. PICK r \in HeldBy(AfterExpiry(records, k, t, policy), k, o) :
          records' = (AfterExpiry(records, k, t, policy) \ {r}) \cup {OneMoreHold(r)}
    BY <1>2 DEF Reenter
  <2>2. r \in records
    BY AfterExpirySubset DEF HeldBy, OfKind
  <2>3. records' \subseteq (records \ {r}) \cup {OneMoreHold(r)}
    BY <2>1, AfterExpirySubset
  <2> QED
    BY <2>2, <2>3, OneMoreHoldType, ExclusionOfUpdate DEF TypeOK
<1>3. ASSUME NEW g \in Guards, NEW k \in Kinds, NEW o \in Owners, NEW t \in 0..now,
             NEW policy \in Policies, NEW mode \in Modes, NEW ttl \in Ttls,
             Acquire(g, k, o, mode, ttl, t, policy)
      PROVE  ExclusionInv'
  <2> DEFINE kept == AfterExpiry(records, k, t, policy)
             q    == NewRecord(nextToken, k, o, mode, ttl, t)
  <2>1. kept \in SUBSET records /\ records' = kept \cup {q}
    BY <1>3, AfterExpirySubset DEF Acquire
  <2>2. q.kind = k /\ q.owner = o /\ q.mode = mode
    BY DEF NewRecord
  <2>3. ASSUME NEW r \in kept, r.kind = k
        PROVE  r.mode = "Shared" /\ mode = "Shared" /\ r.owner # o
    <3>1. r.owner # o
      BY <1>3, <2>3 DEF Acquire, HeldBy, OfKind
    <3>2. PICK a \in kept : a \in Active(kept, k, t)
      BY <1>3, <2>3, SurvivorsAreActiveOrGuarded DEF Acquire
    <3>3. a.mode # "Exclusive" /\ mode # "Exclusive" /\ a.kind = k
      BY <1>3, <3>2 DEF Acquire, Conflicts, Active, OfKind
    <3>4. mode = "Shared"
      BY <3>3 DEF Modes
    <3>5. r = a \/ r.mode = "Shared"
      BY <2>1, <2>3, <3>3 DEF ExclusionInv, ExclusiveIsAlone
    <3>6. r \in LeaseRecord
      BY <2>1, <2>3 DEF TypeOK
    <3> QED
      BY <3>1, <3>3, <3>4, <3>5, <3>6 DEF LeaseRecord, Modes
  <2> HIDE DEF kept, q
  <2> QED
    BY <2>1, <2>2, <2>3, ExclusionOfNewRecord
<1>4. ASSUME NEW g \in Guards, NEW k \in Kinds, NEW o \in Owners, NEW t \in 0..now,
             NEW policy \in Policies, NEW ttl \in Ttls,
             AcquireOnce(g, k, o, ttl, t, policy)
      PROVE  ExclusionInv'
  <2> DEFINE kept == AfterExpiry(records, k, t, policy)
             q    == NewRecord(nextToken, k, o, "Exclusive", ttl, t)
  <2>1. kept \in SUBSET records
    BY AfterExpirySubset
  <2>2. q.kind = k
    BY DEF NewRecord
  <2>3. CASE Active(kept, k, t) # {}
    BY <1>4, <2>1, <2>3, ExclusionOfSubset DEF AcquireOnce
  <2>4. CASE Active(kept, k, t) = {}
    <3>1. records' = kept \cup {q}
      BY <1>4, <2>4 DEF AcquireOnce
    <3>2. \A r \in kept : r.kind # k
      BY <1>4, <2>4, SurvivorsAreActiveOrGuarded DEF AcquireOnce
    <3> HIDE DEF kept, q
    <3> QED
      BY <2>1, <2>2, <3>1, <3>2, ExclusionOfNewRecord
  <2> QED
    BY <2>3, <2>4
<1>5. ASSUME NEW r \in records, records' = OneHoldLess(records, r)
      PROVE  ExclusionInv'
  <2> DEFINE q == [r EXCEPT !.holds = r.holds - 1]
  <2>1. r \in LeaseRecord
    BY DEF TypeOK
  <2>2. q.kind = r.kind /\ q.owner = r.owner /\ q.mode = r.mode
    BY <2>1 DEF LeaseRecord
  <2>3. records' \subseteq (records \ {r}) \cup {q}
    BY <1>5 DEF OneHoldLess
  <2> HIDE DEF q
  <2> QED
    BY <2>2, <2>3, ExclusionOfUpdate
<1>6. ASSUME NEW g \in Guards, DropGuard(g)
      PROVE  ExclusionInv'
  BY <1>5, <1>6, ExclusionOfSubset DEF DropGuard, HeldBy, OfKind
<1>7. ASSUME NEW k \in Kinds, NEW o \in Owners, Release(k, o)
      PROVE  ExclusionInv'
  BY <1>5, <1>7 DEF Release, HeldBy, OfKind
<1>8. ASSUME NEW o \in Owners, ReleaseOwner(o)
      PROVE  ExclusionInv'
  BY <1>8, ExclusionOfSubset DEF ReleaseOwner
<1>9. ASSUME NEW k \in Kinds, ReleaseKind(k)
      PROVE  ExclusionInv'
  BY <1>9, ExclusionOfSubset DEF ReleaseKind
<1>10. CASE Tick
  BY <1>10, ExclusionOfSubset DEF Tick
<1>11. CASE UNCHANGED vars
  BY <1>11, ExclusionOfSubset DEF vars
<1> QED
  BY <1>1, <1>2, <1>3, <1>4, <1>6, <1>7, <1>8, <1>9, <1>10, <1>11
     DEF Next, GuardNext, BareRelease, TryAcquire

LEMMA ExclusionHolds == Spec => []ExclusionInv
<1>1. Init => ExclusionInv
  BY DEF Init, ExclusionInv, ExclusiveIsAlone, OneRecordPerOwner
<1> QED
  BY <1>1, ExclusionStep, TypeCorrect, PTL DEF Spec

(* An exclusive lease is alone on its resource in every reachable state of *)
(* the registry, stale clocks, expiries and both replacement policies      *)
(* included (try_acquire_with_policy_at, try_acquire_exclusive_once_at).   *)
THEOREM MutualExclusion == Spec => []ExclusiveIsAlone
BY ExclusionHolds, PTL DEF ExclusionInv

(* An owner never has two records of one kind, so the first match of the   *)
(* scans in try_acquire and release_locked is the only one.                *)
THEOREM OwnerRecordUnique == Spec => []OneRecordPerOwner
BY ExclusionHolds, PTL DEF ExclusionInv

-----------------------------------------------------------------------------
(* What the holders of guards can rely on.                                 *)

(* A guard and a record with the same token are of the same kind and       *)
(* owner, so release_token finds the record of its guard.                  *)
GuardsMatchRecords ==
  nextToken < TokenMax =>
    \A r \in records, g \in Guards :
      (guards[g] # NoGuard /\ guards[g].token = r.token)
        => guards[g].kind = r.kind /\ guards[g].owner = r.owner

HoldInv == TokensAreFresh /\ GuardsMatchRecords /\ HoldsCountGuards

LEMMA NoGuardIsNoGuard ==
  ASSUME NEW r \in LeaseRecord
  PROVE  /\ GuardOf(r) # NoGuard
         /\ GuardOf(r).token = r.token /\ GuardOf(r).kind = r.kind /\ GuardOf(r).owner = r.owner
BY TtlAssumption DEF GuardOf, LeaseRecord

LEMMA HoldersFinite ==
  ASSUME NEW token
  PROVE  IsFiniteSet(HoldersOf(token)) /\ Cardinality(HoldersOf(token)) \in Nat
<1>1. HoldersOf(token) \subseteq Guards
  BY DEF HoldersOf
<1> QED
  BY <1>1, GuardsAssumption, FS_Subset, FS_CardinalityType

(* Dropping records and touching no guard keeps the counts.                *)
LEMMA HoldOfSubset ==
  ASSUME HoldInv, records' \subseteq records, nextToken' = nextToken, guards' = guards,
         bare' = bare
  PROVE  HoldInv'
BY DEF HoldInv, TokensAreFresh, GuardsMatchRecords, HoldsCountGuards, HoldersOf

(* A free guard that takes a token is one more holder of it, and of no     *)
(* other token.                                                            *)
LEMMA HoldersAfterTake ==
  ASSUME TypeOK, NEW g \in Guards, guards[g] = NoGuard, NEW r \in LeaseRecord,
         guards' = [guards EXCEPT ![g] = GuardOf(r)]
  PROVE  /\ HoldersOf(r.token)' = HoldersOf(r.token) \cup {g}
         /\ Cardinality(HoldersOf(r.token) \cup {g}) = Cardinality(HoldersOf(r.token)) + 1
         /\ Cardinality(HoldersOf(r.token)) < HoldMax
         /\ \A token : token # r.token => HoldersOf(token)' = HoldersOf(token)
<1>1. /\ \A x \in Guards \ {g} : guards'[x] = guards[x]
      /\ guards'[g] = GuardOf(r)
  BY DEF TypeOK
<1>2. g \notin HoldersOf(r.token)
  BY DEF HoldersOf
<1>3. HoldersOf(r.token) \cup {g} \subseteq Guards
  BY DEF HoldersOf
<1>4. Cardinality(HoldersOf(r.token) \cup {g}) = Cardinality(HoldersOf(r.token)) + 1
  BY <1>2, HoldersFinite, FS_AddElement
<1>5. Cardinality(HoldersOf(r.token) \cup {g}) <= Cardinality(Guards)
  BY <1>3, GuardsAssumption, FS_Subset
<1>6. Cardinality(HoldersOf(r.token)) < HoldMax
  BY <1>4, <1>5, GuardsAssumption, LimitsAssumption, HoldersFinite, FS_CardinalityType
<1>7. HoldersOf(r.token)' = HoldersOf(r.token) \cup {g}
  BY <1>1, NoGuardIsNoGuard DEF HoldersOf
<1>8. ASSUME NEW token, token # r.token
      PROVE  HoldersOf(token)' = HoldersOf(token)
  BY <1>1, <1>8, NoGuardIsNoGuard DEF HoldersOf
<1> QED
  BY <1>4, <1>6, <1>7, <1>8

LEMMA HoldersAfterDrop ==
  ASSUME TypeOK, NEW g \in Guards, NEW tk, guards[g] # NoGuard, guards[g].token = tk,
         guards' = [guards EXCEPT ![g] = NoGuard]
  PROVE  /\ HoldersOf(tk)' = HoldersOf(tk) \ {g}
         /\ Cardinality(HoldersOf(tk) \ {g}) = Cardinality(HoldersOf(tk)) - 1
         /\ \A token : token # tk => HoldersOf(token)' = HoldersOf(token)
<1>1. /\ \A x \in Guards \ {g} : guards'[x] = guards[x]
      /\ guards'[g] = NoGuard
  BY DEF TypeOK
<1>2. g \in HoldersOf(tk)
  BY DEF HoldersOf
<1>3. Cardinality(HoldersOf(tk) \ {g}) = Cardinality(HoldersOf(tk)) - 1
  BY <1>2, HoldersFinite, FS_RemoveElement
<1>4. HoldersOf(tk)' = HoldersOf(tk) \ {g}
  BY <1>1 DEF HoldersOf
<1>5. ASSUME NEW token, token # tk
      PROVE  HoldersOf(token)' = HoldersOf(token)
  BY <1>1, <1>5 DEF HoldersOf
<1> QED
  BY <1>3, <1>4, <1>5

LEMMA GuardHoldStep == HoldInv /\ TypeOK /\ GuardNext => HoldInv'
<1> SUFFICES ASSUME HoldInv, TypeOK, GuardNext PROVE HoldInv'
  OBVIOUS
<1>0. bare' = bare
  BY DEF GuardNext
<1>1. ASSUME NEW g \in Guards, NEW k \in Kinds, NEW o \in Owners, NEW t \in 0..now,
             NEW policy \in Policies, NEW mode \in Modes,
             DenyAcquire(g, k, o, mode, t, policy)
      PROVE  HoldInv'
  BY <1>1, AfterExpirySubset, <1>0, HoldOfSubset DEF DenyAcquire
<1>2. ASSUME NEW g \in Guards, NEW k \in Kinds, NEW o \in Owners, NEW t \in 0..now,
             NEW policy \in Policies, NEW mode \in Modes,
             Reenter(g, k, o, mode, t, policy)
      PROVE  HoldInv'
  <2> SUFFICES ASSUME nextToken < TokenMax PROVE HoldInv'
    BY <1>0, <1>2 DEF Reenter, HoldInv, TokensAreFresh, GuardsMatchRecords, HoldsCountGuards
  <2>1. PICK r \in HeldBy(AfterExpiry(records, k, t, policy), k, o) :
          /\ records' = (AfterExpiry(records, k, t, policy) \ {r}) \cup {OneMoreHold(r)}
          /\ guards' = [guards EXCEPT ![g] = GuardOf(r)]
    BY <1>2 DEF Reenter
  <2>2. r \in records /\ r \in LeaseRecord
    BY AfterExpirySubset DEF HeldBy, OfKind, TypeOK
  <2>3. guards[g] = NoGuard /\ nextToken' = nextToken
    BY <1>2 DEF Reenter
  <2> DEFINE u == OneMoreHold(r)
  <2>4. /\ u \in LeaseRecord /\ u.token = r.token /\ u.kind = r.kind /\ u.owner = r.owner
    BY <2>2, OneMoreHoldType
  <2>5. /\ HoldersOf(r.token)' = HoldersOf(r.token) \cup {g}
        /\ Cardinality(HoldersOf(r.token) \cup {g}) = Cardinality(HoldersOf(r.token)) + 1
        /\ Cardinality(HoldersOf(r.token)) < HoldMax
        /\ \A token : token # r.token => HoldersOf(token)' = HoldersOf(token)
    BY <2>1, <2>2, <2>3, HoldersAfterTake
  <2>6. ~bare => u.holds = r.holds + 1
    <3> SUFFICES ASSUME ~bare PROVE u.holds = r.holds + 1
      OBVIOUS
    <3>1. r.holds < HoldMax
      BY <2>2, <2>5 DEF HoldInv, HoldsCountGuards
    <3> QED
      BY <2>2, <3>1 DEF OneMoreHold, LeaseRecord
  <2>7. \A x \in records' : x = u \/ (x \in records /\ x # r)
    BY <2>1, AfterExpirySubset
  <2>8. \A x \in records : x # r => x.token # r.token
    BY <2>2 DEF HoldInv, TokensAreFresh
  <2>9. /\ \A x \in Guards \ {g} : guards'[x] = guards[x]
        /\ guards'[g] = GuardOf(r)
        /\ GuardOf(r).token = r.token /\ GuardOf(r).kind = r.kind /\ GuardOf(r).owner = r.owner
    BY <2>1, <2>2, NoGuardIsNoGuard DEF TypeOK
  <2> HIDE DEF u
  <2>10. TokensAreFresh'
    BY <2>2, <2>3, <2>4, <2>7, <2>8, <2>9 DEF HoldInv, TokensAreFresh
  <2>11. GuardsMatchRecords'
    BY <2>2, <2>3, <2>4, <2>7, <2>8, <2>9 DEF HoldInv, GuardsMatchRecords
  <2>12. HoldsCountGuards'
    <3> SUFFICES ASSUME ~bare, NEW x \in records'
                 PROVE  x.holds = Cardinality(HoldersOf(x.token)')
      BY <1>0 DEF HoldsCountGuards
    <3>1. CASE x = u
      BY <2>2, <2>4, <2>5, <2>6, <3>1 DEF HoldInv, HoldsCountGuards
    <3>2. CASE x \in records /\ x # r
      BY <2>5, <2>8, <3>2 DEF HoldInv, HoldsCountGuards
    <3> QED
      BY <2>7, <3>1, <3>2
  <2> QED
    BY <2>10, <2>11, <2>12 DEF HoldInv
<1>3. ASSUME NEW g \in Guards, NEW r \in LeaseRecord, guards[g] = NoGuard,
             r.token = nextToken, r.holds = 1,
             records' \subseteq records \cup {r}, nextToken' = TokenAfter(nextToken),
             guards' = [guards EXCEPT ![g] = GuardOf(r)]
      PROVE  HoldInv'
  <2> SUFFICES ASSUME nextToken' < TokenMax PROVE HoldInv'
    BY <1>0 DEF HoldInv, TokensAreFresh, GuardsMatchRecords, HoldsCountGuards
  <2>1. nextToken \in 1..TokenMax /\ nextToken < nextToken' /\ nextToken < TokenMax
    BY <1>3, TokenAfterType, LimitsAssumption DEF TypeOK
  <2>2. /\ \A x \in Guards \ {g} : guards'[x] = guards[x]
        /\ guards'[g] = GuardOf(r)
        /\ GuardOf(r).token = r.token /\ GuardOf(r).kind = r.kind /\ GuardOf(r).owner = r.owner
    BY <1>3, NoGuardIsNoGuard DEF TypeOK
  <2>3. \A x \in records : x.token < nextToken /\ x.token # r.token /\ x.token \in Int
    BY <1>3, <2>1, LimitsAssumption DEF HoldInv, TokensAreFresh, TypeOK, LeaseRecord
  <2>4. \A x \in Guards : guards[x] # NoGuard =>
           guards[x].token < nextToken /\ guards[x].token # r.token /\ guards[x].token \in Int
    BY <1>3, <2>1, LimitsAssumption DEF HoldInv, TokensAreFresh, TypeOK, GuardType
  <2>5. /\ HoldersOf(r.token)' = HoldersOf(r.token) \cup {g}
        /\ Cardinality(HoldersOf(r.token) \cup {g}) = Cardinality(HoldersOf(r.token)) + 1
        /\ \A token : token # r.token => HoldersOf(token)' = HoldersOf(token)
    BY <1>3, HoldersAfterTake
  <2>6. Cardinality(HoldersOf(r.token)) = 0
    BY <2>4, FS_EmptySet DEF HoldersOf
  <2>7. TokensAreFresh'
    <3>1. r.token < nextToken'
      BY <1>3, <2>1
    <3>2. \A x \in records' : x = r \/ x \in records
      BY <1>3
    <3>3. \A x \in records' : x.token < nextToken'
      BY <2>1, <2>3, <3>1, <3>2, TokenAfterType, <1>3
    <3>4. \A x \in Guards : guards'[x] # NoGuard => guards'[x].token < nextToken'
      <4> SUFFICES ASSUME NEW x \in Guards, guards'[x] # NoGuard
                   PROVE  guards'[x].token < nextToken'
        OBVIOUS
      <4>1. CASE x = g
        BY <2>2, <3>1, <4>1
      <4>2. CASE x # g
        <5>1. guards[x] # NoGuard /\ guards'[x] = guards[x]
          BY <2>2, <4>2
        <5> QED
          BY <1>3, <2>1, <2>4, <5>1, TokenAfterType
      <4> QED
        BY <4>1, <4>2
    <3>5. \A x, y \in records' : x.token = y.token => x = y
      BY <2>1, <2>3, <3>2 DEF HoldInv, TokensAreFresh
    <3> QED
      BY <3>3, <3>4, <3>5 DEF TokensAreFresh
  <2>8. GuardsMatchRecords'
    BY <1>3, <2>1, <2>2, <2>3, <2>4 DEF HoldInv, GuardsMatchRecords
  <2>9. HoldsCountGuards'
    <3> SUFFICES ASSUME ~bare, NEW x \in records'
                 PROVE  x.holds = Cardinality(HoldersOf(x.token)')
      BY <1>0 DEF HoldsCountGuards
    <3>1. CASE x = r
      BY <1>3, <2>5, <2>6, <3>1
    <3>2. CASE x \in records
      BY <2>1, <2>3, <2>5, <3>2 DEF HoldInv, HoldsCountGuards
    <3> QED
      BY <1>3, <3>1, <3>2
  <2> QED
    BY <2>7, <2>8, <2>9 DEF HoldInv
<1>4. ASSUME NEW g \in Guards, NEW k \in Kinds, NEW o \in Owners, NEW t \in 0..now,
             NEW policy \in Policies, NEW mode \in Modes, NEW ttl \in Ttls,
             Acquire(g, k, o, mode, ttl, t, policy)
      PROVE  HoldInv'
  <2> DEFINE r == NewRecord(nextToken, k, o, mode, ttl, t)
  <2>1. r \in LeaseRecord
    BY NewRecordType DEF TypeOK
  <2>2. r.token = nextToken /\ r.holds = 1
    BY DEF NewRecord
  <2>3. records' \subseteq records \cup {r} /\ guards[g] = NoGuard
    BY <1>4, AfterExpirySubset DEF Acquire
  <2>4. nextToken' = TokenAfter(nextToken) /\ guards' = [guards EXCEPT ![g] = GuardOf(r)]
    BY <1>4 DEF Acquire
  <2> HIDE DEF r
  <2> QED
    BY <1>3, <2>1, <2>2, <2>3, <2>4
<1>5. ASSUME NEW g \in Guards, NEW k \in Kinds, NEW o \in Owners, NEW t \in 0..now,
             NEW policy \in Policies, NEW ttl \in Ttls,
             AcquireOnce(g, k, o, ttl, t, policy)
      PROVE  HoldInv'
  <2> DEFINE r == NewRecord(nextToken, k, o, "Exclusive", ttl, t)
  <2>1. r \in LeaseRecord
    BY NewRecordType DEF TypeOK, Modes
  <2>2. r.token = nextToken /\ r.holds = 1
    BY DEF NewRecord
  <2>3. CASE records' = AfterExpiry(records, k, t, policy) /\ UNCHANGED <<nextToken, guards>>
    BY <2>3, AfterExpirySubset, <1>0, HoldOfSubset
  <2>4. CASE /\ records' = AfterExpiry(records, k, t, policy) \cup {r}
             /\ nextToken' = TokenAfter(nextToken)
             /\ guards' = [guards EXCEPT ![g] = GuardOf(r)]
    <3>1. records' \subseteq records \cup {r} /\ guards[g] = NoGuard
      BY <1>5, <2>4, AfterExpirySubset DEF AcquireOnce
    <3> HIDE DEF r
    <3> QED
      BY <1>3, <2>1, <2>2, <2>4, <3>1
  <2> QED
    BY <1>5, <2>3, <2>4 DEF AcquireOnce
<1>6. ASSUME NEW g \in Guards, DropGuard(g)
      PROVE  HoldInv'
  <2> SUFFICES ASSUME nextToken < TokenMax PROVE HoldInv'
    BY <1>0, <1>6 DEF DropGuard, HoldInv, TokensAreFresh, GuardsMatchRecords, HoldsCountGuards
  <2>0. PICK tk : tk = guards[g].token
    OBVIOUS
  <2>1. /\ guards[g] # NoGuard /\ nextToken' = nextToken
        /\ guards' = [guards EXCEPT ![g] = NoGuard]
    BY <1>6 DEF DropGuard
  <2>2. /\ \A x \in Guards \ {g} : guards'[x] = guards[x]
        /\ guards'[g] = NoGuard
    BY <2>1 DEF TypeOK
  <2>3. /\ HoldersOf(tk)' = HoldersOf(tk) \ {g}
        /\ Cardinality(HoldersOf(tk) \ {g}) = Cardinality(HoldersOf(tk)) - 1
        /\ \A token : token # tk => HoldersOf(token)' = HoldersOf(token)
    BY <2>0, <2>1, HoldersAfterDrop
  <2> DEFINE matching == {r \in HeldBy(records, guards[g].kind, guards[g].owner) :
                            r.token = guards[g].token}
  <2>4. \A x \in records : x.token = tk => x \in matching
    BY <2>0, <2>1 DEF HoldInv, GuardsMatchRecords, HeldBy, OfKind
  <2>5. CASE matching = {}
    <3>1. records' = records
      BY <1>6, <2>5 DEF DropGuard
    <3>2. \A x \in records : x.token # tk
      BY <2>4, <2>5
    <3> HIDE DEF matching
    <3> QED
      BY <1>0, <2>1, <2>2, <2>3, <3>1, <3>2
         DEF HoldInv, TokensAreFresh, GuardsMatchRecords, HoldsCountGuards
  <2>6. ASSUME NEW r \in matching, records' = OneHoldLess(records, r)
        PROVE  HoldInv'
    <3>1. r \in records /\ r \in LeaseRecord /\ r.token = tk
      BY <2>0, <2>6 DEF HeldBy, OfKind, TypeOK
    <3>2. ~bare => r.holds = Cardinality(HoldersOf(tk))
      BY <3>1 DEF HoldInv, HoldsCountGuards
    <3>3. \A x \in records : x # r => x.token # tk
      BY <3>1 DEF HoldInv, TokensAreFresh
    <3> DEFINE q == [r EXCEPT !.holds = r.holds - 1]
    <3>4. q.token = tk /\ q.kind = r.kind /\ q.owner = r.owner /\ q.holds = r.holds - 1
      BY <3>1 DEF LeaseRecord
    <3>5. \A x \in records' : x = q \/ (x \in records /\ x # r)
      BY <2>6 DEF OneHoldLess
    <3> HIDE DEF q, matching
    <3>6. TokensAreFresh'
      BY <2>1, <2>2, <3>1, <3>3, <3>4, <3>5 DEF HoldInv, TokensAreFresh
    <3>7. GuardsMatchRecords'
      BY <2>1, <2>2, <3>1, <3>3, <3>4, <3>5 DEF HoldInv, GuardsMatchRecords
    <3>8. HoldsCountGuards'
      <4> SUFFICES ASSUME ~bare, NEW x \in records'
                   PROVE  x.holds = Cardinality(HoldersOf(x.token)')
        BY <1>0 DEF HoldsCountGuards
      <4>1. CASE x = q
        BY <2>3, <3>2, <3>4, <4>1
      <4>2. CASE x \in records /\ x # r
        BY <2>3, <3>3, <4>2 DEF HoldInv, HoldsCountGuards
      <4> QED
        BY <3>5, <4>1, <4>2
    <3> QED
      BY <3>6, <3>7, <3>8 DEF HoldInv
  <2> QED
    BY <1>6, <2>5, <2>6 DEF DropGuard
<1>7. CASE Tick
  BY <1>7, <1>0, HoldOfSubset DEF Tick
<1> QED
  BY <1>1, <1>2, <1>4, <1>5, <1>6, <1>7 DEF GuardNext, TryAcquire

(* A release that shows no token takes holds without their guards: the     *)
(* counts are no longer exact, the tokens still are.                       *)
LEMMA BareHoldStep == HoldInv /\ TypeOK /\ BareRelease => HoldInv'
<1> SUFFICES ASSUME HoldInv, TypeOK, BareRelease PROVE HoldInv'
  OBVIOUS
<1>1. bare' = TRUE /\ nextToken' = nextToken /\ guards' = guards
  BY DEF BareRelease, Release, ReleaseOwner, ReleaseKind
<1>2. ASSUME records' \subseteq records PROVE HoldInv'
  BY <1>1, <1>2 DEF HoldInv, TokensAreFresh, GuardsMatchRecords, HoldsCountGuards
<1>3. ASSUME NEW r \in records, records' = OneHoldLess(records, r)
      PROVE  HoldInv'
  <2>1. /\ \A x \in records' :
             \/ x \in records \ {r}
             \/ x.token = r.token /\ x.kind = r.kind /\ x.owner = r.owner
        /\ \A x, y \in records' :
             (x \notin records \ {r} /\ y \notin records \ {r}) => x = y
    BY <1>3, OneHoldLessType DEF TypeOK
  <2>2. TokensAreFresh'
    BY <1>1, <2>1 DEF HoldInv, TokensAreFresh
  <2>3. GuardsMatchRecords'
    BY <1>1, <2>1 DEF HoldInv, GuardsMatchRecords
  <2> QED
    BY <1>1, <2>2, <2>3 DEF HoldInv, HoldsCountGuards
<1> QED
  BY <1>2, <1>3 DEF BareRelease, Release, ReleaseOwner, ReleaseKind, HeldBy, OfKind

LEMMA HoldStep == HoldInv /\ TypeOK /\ [Next]_vars => HoldInv'
<1>1. HoldInv /\ UNCHANGED vars => HoldInv'
  BY DEF vars, HoldInv, TokensAreFresh, GuardsMatchRecords, HoldsCountGuards, HoldersOf
<1> QED
  BY <1>1, GuardHoldStep, BareHoldStep DEF Next

LEMMA HoldHolds == Spec => []HoldInv
<1>1. Init => HoldInv
  BY DEF Init, HoldInv, TokensAreFresh, GuardsMatchRecords, HoldsCountGuards
<1> QED
  BY <1>1, HoldStep, TypeCorrect, PTL DEF Spec

(* No token is given twice before the u64 counter saturates (next_token).  *)
THEOREM FreshTokens == Spec => []TokensAreFresh
BY HoldHolds, PTL DEF HoldInv

(* hold_count is the number of live guards of the record, so a lease taken *)
(* again by its owner lasts until the last of its guards is dropped and    *)
(* not longer (Reentered, release_locked), as long as no hold is given     *)
(* back without its token.                                                 *)
THEOREM HoldCountIsGuardCount == Spec => []HoldsCountGuards
BY HoldHolds, PTL DEF HoldInv

(* A hold only goes with the drop of a guard that shows its token, or with *)
(* its expiry: no guard gives back a lease that was taken over by somebody *)
(* else (release_token in the Drop of every guard).                        *)
THEOREM StaleGuardIsHarmless == Spec => OnlyOwnHoldsReleased
<1> DEFINE Kept(r) ==
      \/ \E q \in records' : q.token = r.token /\ q.holds >= r.holds
      \/ \E g \in Guards : /\ guards[g] # NoGuard
                           /\ guards[g].token = r.token
                           /\ guards'[g] = NoGuard
      \/ IsExpired(r, now)
<1>1. TypeOK /\ [GuardNext]_vars => \A r \in records : Kept(r)
  <2> SUFFICES ASSUME TypeOK, [GuardNext]_vars, NEW r \in records PROVE Kept(r)
    OBVIOUS
  <2>1. r \in LeaseRecord /\ r.holds >= r.holds
    BY DEF TypeOK, LeaseRecord
  <2>2. ASSUME NEW k \in Kinds, NEW t \in 0..now, NEW policy \in Policies,
               r \notin AfterExpiry(records, k, t, policy)
        PROVE  Kept(r)
    <3>1. r.expires # NoExpiry /\ t >= r.expires
      BY <2>2 DEF AfterExpiry, IsExpired
    <3>2. r.expires \in Int /\ t \in Int /\ now \in Int /\ t <= now
      BY <2>1, <3>1 DEF LeaseRecord, TypeOK
    <3> QED
      BY <3>1, <3>2 DEF IsExpired
  <2>3. ASSUME r \in records' PROVE Kept(r)
    BY <2>1, <2>3
  <2>4. ASSUME NEW g \in Guards, NEW k \in Kinds, NEW o \in Owners, NEW t \in 0..now,
               NEW policy \in Policies, NEW mode \in Modes,
               DenyAcquire(g, k, o, mode, t, policy)
        PROVE  Kept(r)
    BY <2>2, <2>3, <2>4 DEF DenyAcquire
  <2>5. ASSUME NEW g \in Guards, NEW k \in Kinds, NEW o \in Owners, NEW t \in 0..now,
               NEW policy \in Policies, NEW mode \in Modes,
               Reenter(g, k, o, mode, t, policy)
        PROVE  Kept(r)
    <3>1. PICK x \in HeldBy(AfterExpiry(records, k, t, policy), k, o) :
            records' = (AfterExpiry(records, k, t, policy) \ {x}) \cup {OneMoreHold(x)}
      BY <2>5 DEF Reenter
    <3>2. CASE r = x
      BY <2>1, <3>1, <3>2, OneMoreHoldType
    <3>3. CASE r # x
      BY <2>2, <2>3, <3>1, <3>3
    <3> QED
      BY <3>2, <3>3
  <2>6. ASSUME NEW g \in Guards, NEW k \in Kinds, NEW o \in Owners, NEW t \in 0..now,
               NEW policy \in Policies, NEW mode \in Modes, NEW ttl \in Ttls,
               Acquire(g, k, o, mode, ttl, t, policy)
        PROVE  Kept(r)
    BY <2>2, <2>3, <2>6 DEF Acquire
  <2>7. ASSUME NEW g \in Guards, NEW k \in Kinds, NEW o \in Owners, NEW t \in 0..now,
               NEW policy \in Policies, NEW ttl \in Ttls,
               AcquireOnce(g, k, o, ttl, t, policy)
        PROVE  Kept(r)
    BY <2>2, <2>3, <2>7 DEF AcquireOnce
  <2>8. ASSUME NEW g \in Guards, DropGuard(g)
        PROVE  Kept(r)
    <3>1. guards[g] # NoGuard /\ guards'[g] = NoGuard
      BY <2>8 DEF DropGuard, TypeOK
    <3>2. CASE guards[g].token = r.token
      BY <3>1, <3>2
    <3>3. CASE guards[g].token # r.token
      <4>1. r \in records'
        BY <2>8, <3>3 DEF DropGuard, OneHoldLess
      <4> QED
        BY <2>3, <4>1
    <3> QED
      BY <3>2, <3>3
  <2>9. CASE Tick \/ UNCHANGED vars
    BY <2>3, <2>9 DEF Tick, vars
  <2> QED
    BY <2>4, <2>5, <2>6, <2>7, <2>8, <2>9 DEF GuardNext, TryAcquire
<1>2. TypeOK /\ [Next]_vars =>
        [(nextToken < TokenMax /\ ~BareRelease) => \A r \in records : Kept(r)]_vars
  BY <1>1 DEF Next
<1> QED
  BY <1>2, TypeCorrect, PTL DEF Spec, OnlyOwnHoldsReleased
=============================================================================
