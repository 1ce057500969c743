------------------------------- MODULE Inbound -------------------------------
(***************************************************************************)
(* What the inbound path promises about a message once it has come.        *)
(***************************************************************************)
EXTENDS InboundLoop

Entries == [msg : Msgs, count : 1..MaxReplay]

Reasons == {"handled", "dropped", "refused", "overwritten", "unsaved",
            "discarded", "stale", "crash"}

\* Queues and tables are within their limits, the agent holds a message
\* exactly while it handles one, and a mirror that is not loaded is empty.
TypeOK ==
  /\ store.file \in Entries \cup {Empty} /\ store.entry \in Entries \cup {Empty}
  /\ store.loaded \in BOOLEAN /\ (~store.loaded => store.entry = Empty)
  /\ unsent \subseteq Msgs /\ ingress \subseteq UserMsgs /\ delayed \subseteq UserMsgs
  /\ \A m \in Msgs : tries[m] <= TriesOf(m)
  /\ userQ \in Seq(UserMsgs) /\ Len(userQ) <= UserCap
  /\ systemQ \in Seq(SystemMsgs) /\ Len(systemQ) <= SystemCap
  /\ pc \in {"boot", "clear", "poll", "user", "system", "wait", "taken", "admit", "work"}
  /\ hand \in Msgs \cup {NoMsg} /\ (hand # NoMsg <=> pc \in {"taken", "admit", "work"})
  /\ consecutive \in 0..MaxConsecutive
  /\ deferCount \in [Keys -> 0..MaxDefer] /\ failures \in [Keys -> 0..MaxFailures]
  /\ gone \subseteq [msg : Msgs, why : Reasons]
  /\ stale \subseteq Msgs /\ replays \in [Msgs -> 0..MaxReplay]

One(condition) == IF condition THEN 1 ELSE 0

PlacesOf(m) ==
  One(m \in ingress) + One(m \in ToSet(userQ)) + One(m \in ToSet(systemQ))
  + One(m \in delayed) + One(hand = m) + One(InSlot(m) /\ pc # "clear")
  + Cardinality({l \in gone : l.msg = m})

\* A message that has come is in exactly one place, or gone for one reason:
\* no interleaving of senders, deferrals, retries, restarts and failing writes
\* makes it vanish or be handled twice.  The exception is a message whose slot
\* could not be emptied.
MessageInOnePlace ==
  \A m \in (Msgs \ unsent) \ stale : PlacesOf(m) = 1

\* The mirror never promises what the file does not hold: after a failed write
\* both still hold the old message.
MirrorMatchesFile ==
  store.loaded =>
    \/ store.entry = store.file
    \/ store.entry = Empty /\ store.file # Empty /\ store.file.count = MaxReplay

\* Why a message of a user may end in a step: the agent is done with it; it
\* finds no room when it comes back from the delayed queue, or in a slot that
\* another message takes; the slot cannot be written; it comes to boot with
\* the count of replays exhausted, or too late; or the process ends.
Explained(l) ==
  \/ l.why = "handled" /\ l.msg = hand
  \/ l.why = "refused" /\ l.msg \in delayed /\ ~Room(l.msg)
  \/ /\ l.why = "overwritten" /\ InSlot(l.msg)
     /\ store'.file # Empty /\ store'.file.msg \in (ingress \cup {hand}) \ {l.msg}
  \/ l.why = "unsaved" /\ l.msg \in ingress \cup {hand} /\ faults' = faults + 1
  \/ l.why = "discarded" /\ InSlot(l.msg) /\ store.file.count = MaxReplay
  \/ l.why = "stale" /\ InSlot(l.msg) /\ l.msg \in PassiveMsgs
  \/ l.why = "crash" /\ ~InSlot(l.msg) /\ crashes' = crashes + 1

\* Users lose a message for these reasons only: never to a limit on deferrals
\* or to the admission, as system messages do, and never to an ending process
\* while the slot holds it.
UserLossExplained ==
  [][\A l \in gone' \ gone : l.msg \in UserMsgs => Explained(l)]_vars

\* While a system message waits at most MaxConsecutive user messages are
\* taken, however the arrivals interleave with the looks at the queues.
SystemOvertakenBounded == overtaken <= MaxConsecutive

\* A queued system message is taken in the end, although users, and the
\* deferral of their messages, may keep the user queue filled for ever.
SystemServed == \A m \in SystemMsgs : m \in ToSet(systemQ) ~> m \notin ToSet(systemQ)

\* A message is given up for its number of replays only after it was replayed
\* that often (constants.rs: "pending_retry 重放次数上限；超过则清除不再注入").
DiscardedAfterReplays ==
  \A l \in gone : l.why = "discarded" => replays[l.msg] >= MaxReplay
=============================================================================
