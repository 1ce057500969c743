----------------------------- MODULE DelayedWork -----------------------------
(***************************************************************************)
(* What the delayed task queue and the background timer promise to those   *)
(* who schedule work.                                                      *)
(***************************************************************************)
EXTENDS BgTimer

Jobs == [msg : Nat, kind : Kinds, key : Keys \cup {NoKey}, first : Nat, due : Nat]

Losses == [msg : Nat, critical : BOOLEAN, why : {"evicted", "refused"},
           nCritical : Nat, nBestEffort : Nat]

\* The jobs, queues and ghosts hold what they should, a job has a key exactly
\* when its closure is coalesced, and the timer holds a batch only while it
\* runs one.
TypeOK ==
  /\ now \in Nat /\ deadline \in Nat /\ nextGuard \in Nat
  /\ allowedSince \in Nat /\ since \in [Keys -> Nat]
  /\ nextMsg \in Nat \ {0} /\ unnotified \in Nat
  /\ allowBestEffort \in BOOLEAN /\ news \in BOOLEAN
  /\ pc \in {"plan", "observe", "wait", "service", "run"}
  /\ pending \subseteq Jobs /\ batch \subseteq Jobs
  /\ \A j \in pending \cup batch : j.key # NoKey <=> j.kind = "keyed"
  /\ pc # "run" => batch = {}
  /\ done \subseteq Nat /\ superseded \subseteq Nat /\ lost \subseteq Losses

\* However callers, evictions and retries interleave, best-effort jobs never
\* take a slot of the critical reserve and the queue never outgrows its limit.
WithinQuota ==
  /\ Cardinality(BestEffortJobs(pending)) <= BestEffortMax
  /\ Cardinality(pending) <= TotalMax

\* A key has one job in the queue, although the job it had may be running, or
\* come back after a full queue, while another is scheduled.
OneJobPerKey ==
  \A j, k \in pending : j.key # NoKey /\ j.key = k.key => j = k

\* No stream of replacements puts a key's job off beyond MaxDefer of the time
\* the key entered the queue.
DeferralBounded ==
  \A j \in pending : j.key # NoKey => j.due <= since[j.key] + MaxDefer

\* A job is late by at most one guard period: a notification that is missed
\* between the timer's look at the queue and its sleep costs no more, nor does
\* a mode that starts to allow best-effort jobs, which nobody announces.
LateByAtMostAPeriod ==
  \A j \in pending :
    /\ Critical(j) => now <= j.due + GuardPeriod
    /\ Eligible(j, allowBestEffort) =>
         now <= Later(j.due, allowedSince) + GuardPeriod

PlacesOf(m) ==
  Cardinality({j \in pending : j.msg = m}) + Cardinality({j \in batch : j.msg = m})
  + Cardinality({m} \cap done) + Cardinality({m} \cap superseded)
  + Cardinality({l \in lost : l.msg = m})

\* An accepted closure is in exactly one place: it is not run twice and does
\* not vanish, across its run outside the lock and its retries.
ClosureInOnePlace == \A m \in 1..(nextMsg - 1) : PlacesOf(m) = 1

\* What was accepted is thrown away for two reasons only.  A critical closure
\* is lost when a retry finds every slot held by another critical one; a
\* best-effort one when the critical jobs have used up their reserve, or when
\* a retry finds the best-effort share, or the queue, full.
LossExplained ==
  \A l \in lost :
    LET full == l.nCritical + l.nBestEffort = TotalMax
    IN  /\ l.critical => l.why = "refused" /\ l.nCritical = TotalMax
        /\ l.why = "evicted" => full /\ l.nCritical >= CriticalReserved
        /\ l.why = "refused" => full \/ l.nBestEffort = BestEffortMax

\* The job of a key holds the latest message scheduled under it
\* (keyed_system_inbound_message_keeps_single_latest_job).
LatestKept ==
  [][\A j \in pending, k \in pending' :
       j.key # NoKey /\ j.key = k.key => j.msg <= k.msg]_vars
=============================================================================
