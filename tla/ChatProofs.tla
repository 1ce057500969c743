----------------------------- MODULE ChatProofs -----------------------------
(* What the chat streams promise for any number of requests, any capacities *)
(* and any lengths of the texts: types, that every stream is answered, that *)
(* it is ended once, and that a reader who reads the final has the reply.   *)
(*                                                                          *)
(* A stream in the table is nobody's to end yet, and who takes it out is    *)
(* the only one to end it (StreamOK); until then its queue has no end in it *)
(* (QueueOK). A message is in one place until its stream has a final        *)
(* (PlaceInv), and what an open stream was told of the text in hand is what *)
(* it has counted (TextInv).                                                *)
EXTENDS ChatStream, TLAPS

EndKinds == Terminals \cup {"done"}
AgentEnds(r) == agent \in {"final_pair", "err_pair"} /\ turn = r

\* A stream is in the table from the opening to the first who ends it, who is
\* the only one to close it.
StreamOK(r) ==
  /\ r \in streams =>
       /\ http[r] \notin NotOpen \cup {"left", "refused_pair", "timeout_pair", "recv2", "wait2"}
       /\ ~closed[r] /\ ~AgentEnds(r)
  /\ http[r] \in NotOpen => r \notin streams /\ ~closed[r] /\ ~AgentEnds(r)
  /\ r \notin streams /\ http[r] \notin NotOpen => closed[r] \/ Ending(r) \/ http[r] = "left"

NoEnd(s) == \A i \in 1 .. Len(s) : s[i].kind \notin EndKinds

\* One stream's part of EndsOnce.
EndedOnce(s) ==
  \A i \in 1 .. Len(s) :
    /\ s[i].kind \in Terminals => i + 1 = Len(s) /\ s[i + 1].kind = "done"
    /\ s[i].kind = "done" => i = Len(s) /\ i > 1 /\ s[i - 1].kind \in Terminals

\* The frames of a queue that is not closed, and what was read of it, do not
\* end the stream; those of a closed one, if at all, end it once.
QueueOK(r) ==
  IF closed[r] THEN EndedOnce(Log(r)) ELSE NoEnd(seen[r]) /\ NoEnd(frames[r])

ChatInv == TypeOK /\ \A r \in Requests : StreamOK(r) /\ QueueOK(r)

-----------------------------------------------------------------------------
(* Frames and queues.                                                        *)

\* What the threads push are frames.
LEMMA FrameTypes ==
  /\ \A k \in EventKinds : Event(k) \in Frames /\ Event(k).kind = k
  /\ \A t \in Nat, n \in Nat : Delta(t, n) \in Frames /\ Delta(t, n).kind = "delta"
PROOF
  BY DEF Frames, Event, Delta, EventKinds, Terminals

\* A pair is pushed to a queue of frames.
LEMMA PairIsTyped ==
  ASSUME NEW r \in Requests, NEW kind \in Terminals, TypeOK, PushPair(r, kind)
  PROVE  /\ frames' \in [Requests -> Seq(Frames)]
         /\ closed' \in [Requests -> BOOLEAN]
         /\ closed' = [closed EXCEPT ![r] = TRUE]
PROOF
<1>1. Event(kind) \in Frames /\ Event("done") \in Frames
  BY FrameTypes DEF EventKinds
<1>2. <<Event(kind), Event("done")>> \in Seq(Frames)
  BY <1>1
<1>3. Len(frames[r]) \in Nat /\ frames[r] \in Seq(Frames)
  BY DEF TypeOK
<1>4. Evicted(r) \in Nat
  BY <1>3, BrokerAssumption DEF Evicted
<1>5. SubSeq(frames[r], Evicted(r) + 1, Len(frames[r])) \in Seq(Frames)
  BY <1>3, <1>4
<1>6. SubSeq(frames[r], Evicted(r) + 1, Len(frames[r])) \o <<Event(kind), Event("done")>> \in Seq(Frames)
  BY <1>2, <1>5
<1>7. CASE closed[r]
  BY <1>7 DEF PushPair, TypeOK
<1>8. CASE ~closed[r]
  BY <1>6, <1>8 DEF PushPair, TypeOK
<1> QED BY <1>7, <1>8

\* Where the elements of a joined sequence come from.
LEMMA JoinIndexes ==
  ASSUME NEW S, NEW s \in Seq(S), NEW q \in Seq(S)
  PROVE  /\ s \o q \in Seq(S) /\ Len(s \o q) = Len(s) + Len(q)
         /\ Len(s) \in Nat /\ Len(q) \in Nat
         /\ \A i \in 1 .. Len(s) : (s \o q)[i] = s[i]
         /\ \A i \in 1 .. Len(q) : (s \o q)[Len(s) + i] = q[i]
PROOF
<1>1. Len(s) \in Nat /\ Len(q) \in Nat
  OBVIOUS
<1> QED BY <1>1

\* A queue without an end gets one with the pair, and only there.
LEMMA PairEnds ==
  ASSUME NEW s \in Seq(Frames), NEW q \in Seq(Frames), NoEnd(s), NoEnd(q),
         NEW n \in Nat, NEW kind \in Terminals
  PROVE  EndedOnce(s \o (SubSeq(q, n + 1, Len(q)) \o <<Event(kind), Event("done")>>))
PROOF
<1> DEFINE k == SubSeq(q, n + 1, Len(q))
           p == <<Event(kind), Event("done")>>
           w == s \o (k \o p)
<1>1. k \in Seq(Frames) /\ p \in Seq(Frames)
  BY FrameTypes DEF EventKinds
<1>2. NoEnd(k)
  <2> SUFFICES ASSUME NEW i \in 1 .. Len(k) PROVE k[i].kind \notin EndKinds
    BY DEF NoEnd
  <2>1. k[i] = q[n + i] /\ n + i \in 1 .. Len(q)
    OBVIOUS
  <2> QED BY <2>1 DEF NoEnd
<1>3. Len(w) = Len(s) + Len(k) + 2 /\ Len(s) \in Nat /\ Len(k) \in Nat
  BY <1>1
<1>a. /\ \A i \in 1 .. Len(k) : (k \o p)[i] = k[i]
      /\ \A i \in 1 .. Len(p) : (k \o p)[Len(k) + i] = p[i]
      /\ k \o p \in Seq(Frames) /\ Len(k \o p) = Len(k) + Len(p)
  <2> HIDE DEF k, p
  <2> QED BY <1>1, JoinIndexes
<1>b. /\ \A i \in 1 .. Len(s) : w[i] = s[i]
      /\ \A i \in 1 .. Len(k \o p) : w[Len(s) + i] = (k \o p)[i]
  <2> HIDE DEF k, p
  <2> QED BY <1>a, JoinIndexes
<1>c. Len(p) = 2
  OBVIOUS
<1>4. /\ w[Len(w) - 1] = Event(kind) /\ w[Len(w)] = Event("done")
      /\ \A i \in 1 .. Len(s) : w[i] = s[i]
      /\ \A i \in 1 .. Len(k) : w[Len(s) + i] = k[i]
  <2>1. p[1] = Event(kind) /\ p[2] = Event("done")
    OBVIOUS
  <2>2. Len(w) - 1 = Len(s) + (Len(k) + 1) /\ Len(w) = Len(s) + (Len(k) + 2)
    BY <1>3
  <2> HIDE DEF k, p, w
  <2>3. w[Len(s) + (Len(k) + 1)] = p[1] /\ w[Len(s) + (Len(k) + 2)] = p[2]
    BY <1>a, <1>b, <1>c, <1>3
  <2>4. \A i \in 1 .. Len(k) : w[Len(s) + i] = k[i]
    BY <1>a, <1>b, <1>c, <1>3
  <2> QED BY <1>b, <2>1, <2>2, <2>3, <2>4
<1>5. \A i \in 1 .. (Len(w) - 2) : w[i].kind \notin EndKinds
  <2> SUFFICES ASSUME NEW i \in 1 .. (Len(w) - 2) PROVE w[i].kind \notin EndKinds
    OBVIOUS
  <2> HIDE DEF k, p, w
  <2>1. CASE i <= Len(s)
    <3>1. i \in 1 .. Len(s) /\ w[i] = s[i]
      BY <2>1, <1>3, <1>4
    <3> QED BY <3>1 DEF NoEnd
  <2>2. CASE i > Len(s)
    <3>1. i - Len(s) \in 1 .. Len(k) /\ i = Len(s) + (i - Len(s))
      BY <2>2, <1>3
    <3>2. w[i] = k[i - Len(s)]
      BY <3>1, <1>4
    <3> QED BY <3>1, <3>2, <1>2 DEF NoEnd
  <2> QED BY <2>1, <2>2, <1>3
<1>6. Event(kind).kind = kind /\ Event("done").kind = "done" /\ kind # "done"
  BY DEF Event, Terminals
<1>7. Len(w) \in Nat /\ Len(w) >= 2
  BY <1>3
<1> HIDE DEF w
<1>8. ASSUME NEW i \in 1 .. Len(w)
      PROVE  /\ w[i].kind \in Terminals => i + 1 = Len(w) /\ w[i + 1].kind = "done"
             /\ w[i].kind = "done" => i = Len(w) /\ i > 1 /\ w[i - 1].kind \in Terminals
  <2>1. CASE i \in 1 .. (Len(w) - 2)
    BY <2>1, <1>5 DEF EndKinds
  <2>2. CASE i = Len(w) - 1
    BY <2>2, <1>4, <1>6, <1>7
  <2>3. CASE i = Len(w)
    <3>1. w[i].kind = "done" /\ w[i - 1].kind \in Terminals
      BY <2>3, <1>4, <1>6
    <3>2. "done" \notin Terminals
      BY DEF Terminals
    <3> QED BY <3>1, <3>2, <2>3, <1>7
  <2> QED BY <2>1, <2>2, <2>3, <1>7
<1>9. EndedOnce(w)
  BY <1>8 DEF EndedOnce
<1> QED BY <1>9 DEF w

\* A sequence without an end satisfies the condition.
LEMMA NoEndIsFine ==
  ASSUME NEW s, NoEnd(s)
  PROVE  EndedOnce(s)
PROOF
  BY DEF NoEnd, EndedOnce, EndKinds

\* Two sequences without an end are together without one.
LEMMA NoEndJoins ==
  ASSUME NEW s \in Seq(Frames), NEW q \in Seq(Frames), NoEnd(s), NoEnd(q)
  PROVE  NoEnd(s \o q)
PROOF
<1> SUFFICES ASSUME NEW i \in 1 .. Len(s \o q) PROVE (s \o q)[i].kind \notin EndKinds
  BY DEF NoEnd
<1>1. CASE i <= Len(s)
  BY <1>1 DEF NoEnd
<1>2. CASE i > Len(s)
  <2>1. (s \o q)[i] = q[i - Len(s)] /\ i - Len(s) \in 1 .. Len(q)
    BY <1>2
  <2> QED BY <2>1 DEF NoEnd
<1> QED BY <1>1, <1>2

\* A frame that is read stays where it is in the log.
LEMMA ReadKeepsLog ==
  ASSUME NEW s \in Seq(Frames), NEW q \in Seq(Frames), q # <<>>
  PROVE  Append(s, Head(q)) \o Tail(q) = s \o q
PROOF
<1>1. Len(Append(s, Head(q)) \o Tail(q)) = Len(s \o q)
  OBVIOUS
<1>2. \A i \in 1 .. Len(s \o q) : (Append(s, Head(q)) \o Tail(q))[i] = (s \o q)[i]
  OBVIOUS
<1>3. Append(s, Head(q)) \o Tail(q) \in Seq(Frames) /\ s \o q \in Seq(Frames)
  OBVIOUS
<1> QED BY <1>1, <1>2, <1>3

-----------------------------------------------------------------------------
(* Types.                                                                    *)

\* A frame is pushed to a queue of frames.
LEMMA PushIsTyped ==
  ASSUME TypeOK, NEW r \in Requests, NEW f \in Frames, Push(r, f)
  PROVE  frames' \in [Requests -> Seq(Frames)]
PROOF
<1>1. frames[r] \in Seq(Frames)
  BY DEF TypeOK
<1>2. Append(frames[r], f) \in Seq(Frames)
  BY <1>1
<1> QED BY <1>2 DEF Push, TypeOK

\* A message is put at the end of a queue that has room for it.
LEMMA InboxIsTyped ==
  ASSUME TypeOK, NEW r \in Requests, Len(inbox) < InboxCapacity
  PROVE  Append(inbox, r) \in Seq(Requests) /\ Len(Append(inbox, r)) <= InboxCapacity
PROOF
<1>1. inbox \in Seq(Requests) /\ InboxCapacity \in Nat
  BY InboxAssumption DEF TypeOK
<1>2. Append(inbox, r) \in Seq(Requests) /\ Len(Append(inbox, r)) = Len(inbox) + 1 /\ Len(inbox) \in Nat
  BY <1>1
<1> QED BY <1>1, <1>2

\* The steps of the requests' threads keep the types.
LEMMA HttpTypes ==
  ASSUME TypeOK, NEW r \in Requests, Open(r) \/ HttpStep(r), UNCHANGED agentVars
  PROVE  TypeOK'
PROOF
<1> USE DEF agentVars, turnVars, recordVars, brokerVars, HttpGoTo, HttpPlaces
<1>1. CASE Open(r)
  BY <1>1 DEF Open, Register, TypeOK
<1>2. CASE Enqueue(r)
  <2>1. inbox' \in Seq(Requests) /\ Len(inbox') <= InboxCapacity
    BY <1>2, InboxIsTyped DEF Enqueue, TypeOK
  <2>2. http' \in [Requests -> HttpPlaces]
    BY <1>2 DEF Enqueue, TypeOK
  <2> QED BY <1>2, <2>1, <2>2 DEF Enqueue, TypeOK
<1>3. CASE LookUpQueued(r)
  BY <1>3 DEF LookUpQueued, TypeOK
<1>4. CASE PushQueued(r)
  <2>1. Event("queued") \in Frames
    BY FrameTypes DEF EventKinds
  <2>2. frames' \in [Requests -> Seq(Frames)]
    BY <1>4, <2>1, PushIsTyped DEF PushQueued, TypeOK
  <2> QED BY <1>4, <2>2 DEF PushQueued, TypeOK
<1>5. CASE RemoveOnError(r)
  BY <1>5 DEF RemoveOnError, Remove, TypeOK
<1>6. CASE PushErrorPair(r)
  <2>1. PushPair(r, "error") /\ "error" \in Terminals
    BY <1>6 DEF PushErrorPair, Terminals
  <2>2. frames' \in [Requests -> Seq(Frames)] /\ closed' \in [Requests -> BOOLEAN]
    BY <2>1, PairIsTyped
  <2> QED BY <1>6, <2>2 DEF PushErrorPair, TypeOK
<1>7. CASE RecvFrame(r)
  <2>1. frames[r] \in Seq(Frames) /\ seen[r] \in Seq(Frames) /\ frames[r] # <<>>
    BY <1>7 DEF RecvFrame, TypeOK
  <2>2. Tail(frames[r]) \in Seq(Frames) /\ Append(seen[r], Head(frames[r])) \in Seq(Frames)
    BY <2>1
  <2>3. frames' \in [Requests -> Seq(Frames)] /\ seen' \in [Requests -> Seq(Frames)]
    BY <1>7, <2>2 DEF RecvFrame, TypeOK
  <2>4. http' \in [Requests -> HttpPlaces]
    BY <1>7 DEF RecvFrame, TypeOK
  <2> QED BY <1>7, <2>3, <2>4 DEF RecvFrame, TypeOK
<1>8. CASE RecvClosed(r) \/ Wait(r) \/ RecvTimesOut(r)
  BY <1>8 DEF RecvClosed, Wait, RecvTimesOut, TypeOK
<1>9. CASE Unregister(r)
  <2>1. <<>> \in Seq(Frames)
    OBVIOUS
  <2>2. frames' \in [Requests -> Seq(Frames)] /\ seen' \in [Requests -> Seq(Frames)]
    BY <1>9, <2>1 DEF Unregister, TypeOK
  <2>3. /\ closed' \in [Requests -> BOOLEAN] /\ http' \in [Requests -> HttpPlaces]
        /\ streams' \subseteq Requests /\ sent' \in [Requests -> Nat]
    BY <1>9 DEF Unregister, Remove, TypeOK
  <2> QED BY <1>9, <2>2, <2>3 DEF Unregister, TypeOK
<1> QED BY <1>1, <1>2, <1>3, <1>4, <1>5, <1>6, <1>7, <1>8, <1>9 DEF HttpStep

\* What every turn in hand has: a request, and places in its records.
LEMMA TurnTypes ==
  ASSUME TypeOK, agent # "idle"
  PROVE  /\ turn \in Requests /\ turn # NoRequest
         /\ ContentOf[turn] \in Contents
         /\ frames[turn] \in Seq(Frames) /\ closed[turn] \in BOOLEAN
         /\ texts[turn] \in Nat /\ reply[turn] \in [text : Nat, len : Nat]
         /\ failures[ContentOf[turn]] \in 0 .. MaxFailures
PROOF
<1>1. turn \in Requests /\ turn # NoRequest
  BY AgentAssumption DEF TypeOK
<1>2. ContentOf[turn] \in Contents
  BY <1>1, AgentAssumption
<1> QED BY <1>1, <1>2 DEF TypeOK

\* A count of failures is set.
LEMMA FailuresTyped ==
  ASSUME TypeOK, NEW c \in Contents, NEW n \in 0 .. MaxFailures
  PROVE  [failures EXCEPT ![c] = n] \in [Contents -> 0 .. MaxFailures]
PROOF
  BY AgentAssumption DEF TypeOK

LEMMA ZeroIsACount == 0 \in 0 .. MaxFailures
PROOF
  BY AgentAssumption

\* The turn's part of the types when emit_error is over, or emit_final.
LEMMA ErrorEndsTypes ==
  ASSUME TypeOK, agent \in {"err_remove", "err_pair"}, ErrorEnds
  PROVE  /\ agent' \in AgentPlaces /\ turn' \in Requests \cup {NoRequest}
         /\ (turn' = NoRequest) <=> (agent' = "idle")
         /\ acc' \in Nat /\ nextAt' \in Nat /\ after' \in {"idle", "llm", "completed", "failed"}
         /\ (after' # "idle") <=> (agent' \in {"err_remove", "err_pair"})
         /\ failures' \in [Contents -> 0 .. MaxFailures]
         /\ texts' \in [Requests -> Nat] /\ reply' = reply /\ cut' = cut /\ parked' = parked
PROOF
<1>1. failures' \in [Contents -> 0 .. MaxFailures]
  <2>1. ContentOf[turn] \in Contents /\ agent # "idle"
    BY TurnTypes
  <2>2. CASE after = "completed"
    <3>1. failures' = [failures EXCEPT ![ContentOf[turn]] = 0]
      BY <2>2 DEF ErrorEnds, SetFailures
    <3> QED BY <2>1, <3>1, FailuresTyped, ZeroIsACount
  <2>3. CASE after # "completed"
    BY <2>3 DEF ErrorEnds, TypeOK
  <2> QED BY <2>2, <2>3
<1>2. CASE after = "llm"
  BY <1>1, <1>2, TurnTypes DEF ErrorEnds, TypeOK, AgentPlaces
<1>3. CASE after # "llm"
  BY <1>1, <1>3, TurnTypes DEF ErrorEnds, Forget, AgentPlaces, TypeOK
<1> QED BY <1>2, <1>3

LEMMA CompletedTypes ==
  ASSUME TypeOK, agent # "idle", Completed
  PROVE  /\ agent' \in AgentPlaces /\ turn' \in Requests \cup {NoRequest}
         /\ (turn' = NoRequest) <=> (agent' = "idle")
         /\ acc' \in Nat /\ nextAt' \in Nat /\ after' \in {"idle", "llm", "completed", "failed"}
         /\ (after' # "idle") <=> (agent' \in {"err_remove", "err_pair"})
         /\ failures' \in [Contents -> 0 .. MaxFailures]
         /\ texts' \in [Requests -> Nat] /\ reply' = reply /\ parked' = parked
PROOF
<1>1. failures' \in [Contents -> 0 .. MaxFailures]
  BY TurnTypes, AgentAssumption DEF Completed, SetFailures, TypeOK
<1> QED BY <1>1, TurnTypes DEF Completed, Forget, AgentPlaces, TypeOK

\* The steps of the agent keep the types.
LEMMA AgentTypes ==
  ASSUME TypeOK, AgentStep
  PROVE  TypeOK'
PROOF
<1> USE AgentAssumption DEF turnVars, recordVars, brokerVars, httpVars, Forget, AgentPlaces
<1>1. CASE Take
  <2>a. inbox \in Seq(Requests) /\ inbox # <<>> /\ Len(inbox) <= InboxCapacity /\ InboxCapacity \in Nat
    BY <1>1, InboxAssumption DEF Take, TypeOK
  <2>b. /\ Head(inbox) \in Requests /\ Tail(inbox) \in Seq(Requests)
        /\ Len(Tail(inbox)) = Len(inbox) - 1 /\ Len(inbox) \in Nat
    BY <2>a
  <2>1. Head(inbox) \in Requests /\ Tail(inbox) \in Seq(Requests) /\ Len(Tail(inbox)) <= InboxCapacity
    BY <2>a, <2>b
  <2>2. ContentOf[Head(inbox)] \in Contents
    BY <2>1
  <2>3. failures' \in [Contents -> 0 .. MaxFailures]
    <3>1. CASE failures' = [failures EXCEPT ![ContentOf[Head(inbox)]] = 0]
      BY <2>2, <3>1, FailuresTyped, ZeroIsACount
    <3>2. CASE UNCHANGED failures
      BY <3>2 DEF TypeOK
    <3> QED BY <1>1, <3>1, <3>2 DEF Take
  <2>4. turn' \in Requests \cup {NoRequest} /\ turn' # NoRequest /\ agent' = "admit"
    BY <1>1, <2>1 DEF Take
  <2>5. inbox' \in Seq(Requests) /\ Len(inbox') <= InboxCapacity
    BY <1>1, <2>1 DEF Take
  <2> QED BY <1>1, <2>3, <2>4, <2>5 DEF Take, TypeOK
<1>2. CASE GiveUp
  BY <1>2, TurnTypes DEF GiveUp, TypeOK
<1>3. CASE PutOff
  <2>a. turn \in Requests
    BY <1>3, TurnTypes DEF PutOff
  <2>1. inbox' \in Seq(Requests) /\ Len(inbox') <= InboxCapacity
    <3>1. CASE Room /\ inbox' = Append(inbox, turn)
      BY <2>a, <3>1, InboxIsTyped DEF Room
    <3>2. CASE UNCHANGED inbox
      BY <3>2 DEF TypeOK
    <3> QED BY <1>3, <3>1, <3>2 DEF PutOff
  <2>2. parked' \subseteq Requests
    BY <1>3, TurnTypes DEF PutOff, TypeOK
  <2> QED BY <1>3, <2>1, <2>2 DEF PutOff, TypeOK
<1>19. CASE DelayedRuns
  <2>a. PICK r \in parked : inbox' = Append(inbox, r) /\ parked' = parked \ {r}
    BY <1>19 DEF DelayedRuns
  <2>b. r \in Requests /\ parked' \subseteq Requests
    BY <2>a DEF TypeOK
  <2>c. Len(inbox) < InboxCapacity
    BY <1>19 DEF DelayedRuns, Room
  <2>1. inbox' \in Seq(Requests) /\ Len(inbox') <= InboxCapacity /\ parked' \subseteq Requests
    BY <2>a, <2>b, <2>c, InboxIsTyped
  <2> QED BY <1>19, <2>1 DEF DelayedRuns, TypeOK
<1>4. CASE Admit
  BY <1>4, TurnTypes DEF Admit, NewText, TypeOK
<1>5. CASE Piece
  BY <1>5, TurnTypes DEF Piece, TypeOK
<1>6. CASE PushDelta
  <2>1. Delta(texts[turn], acc) \in Frames /\ turn \in Requests
    BY <1>6, TurnTypes, FrameTypes DEF PushDelta, TypeOK
  <2>a. sent' \in [Requests -> Nat]
    BY <1>6, <2>1 DEF PushDelta, MarkSent, TypeOK
  <2>b. frames' \in [Requests -> Seq(Frames)]
    BY <1>6, <2>1, PushIsTyped DEF PushDelta, TypeOK
  <2>2. frames' \in [Requests -> Seq(Frames)] /\ sent' \in [Requests -> Nat]
    BY <2>a, <2>b
  <2> QED BY <1>6, <2>2 DEF PushDelta, TypeOK
<1>7. CASE NextRound
  <2>1. texts' \in [Requests -> Nat]
    BY <1>7, TurnTypes DEF NextRound, NewText, TypeOK
  <2> QED BY <1>7, <2>1 DEF NextRound, TypeOK
<1>8. CASE ReplyFromRound
  <2>1. reply' \in [Requests -> [text : Nat, len : Nat]]
    BY <1>8, TurnTypes DEF ReplyFromRound, TypeOK
  <2> QED BY <1>8, <2>1 DEF ReplyFromRound, TypeOK
<1>9. CASE ReplyRewritten
  <2>1. reply' \in [Requests -> [text : Nat, len : Nat]]
    BY <1>9, TurnTypes DEF ReplyRewritten, TypeOK
  <2>2. texts' \in [Requests -> Nat]
    BY <1>9, TurnTypes DEF ReplyRewritten, NewText, TypeOK
  <2> QED BY <1>9, <2>1, <2>2, TurnTypes DEF ReplyRewritten, TypeOK
<1>10. CASE Silent
  BY <1>10 DEF Silent, TypeOK
<1>11. CASE Retry
  <2>1. inbox' \in Seq(Requests) /\ Len(inbox') <= InboxCapacity
    BY <1>11, TurnTypes, InboxIsTyped DEF Retry, Room, TypeOK
  <2>2. failures[ContentOf[turn]] + 1 \in 0 .. MaxFailures
    BY <1>11, TurnTypes DEF Retry
  <2>3. failures' \in [Contents -> 0 .. MaxFailures]
    BY <1>11, <2>2 DEF Retry, SetFailures, TypeOK
  <2> QED BY <1>11, <2>1, <2>3 DEF Retry, TypeOK
<1>12. CASE Fail
  <2>1. failures' \in [Contents -> 0 .. MaxFailures]
    <3>1. ContentOf[turn] \in Contents /\ failures[ContentOf[turn]] \in 0 .. MaxFailures
      BY <1>12, TurnTypes DEF Fail
    <3>2. CASE failures[ContentOf[turn]] < MaxFailures /\ SetFailures(failures[ContentOf[turn]] + 1)
      <4>1. failures[ContentOf[turn]] + 1 \in 0 .. MaxFailures
        BY <3>1, <3>2
      <4> QED BY <3>1, <3>2, <4>1, FailuresTyped DEF SetFailures
    <3> QED BY <1>12, <3>2 DEF Fail, TypeOK
  <2>2. turn' \in Requests \cup {NoRequest} /\ turn' # NoRequest
    BY <1>12, TurnTypes DEF Fail
  <2> QED BY <1>12, <2>1, <2>2 DEF Fail, TypeOK
<1>13. CASE RemoveForError
  <2>1. streams' \subseteq Requests
    BY <1>13 DEF RemoveForError, Remove, TypeOK
  <2>2. CASE turn \in streams
    BY <1>13, <2>1, <2>2, TurnTypes DEF RemoveForError, TypeOK
  <2>3. CASE turn \notin streams
    BY <1>13, <2>1, <2>3, ErrorEndsTypes DEF RemoveForError, TypeOK
  <2> QED BY <2>2, <2>3
<1>14. CASE PushAgentError
  <2>1. PushPair(turn, "error") /\ "error" \in Terminals /\ turn \in Requests
    BY <1>14, TurnTypes DEF PushAgentError, Terminals
  <2>2. frames' \in [Requests -> Seq(Frames)] /\ closed' \in [Requests -> BOOLEAN]
    BY <2>1, PairIsTyped
  <2> QED BY <1>14, <2>2, ErrorEndsTypes DEF PushAgentError, TypeOK
<1>15. CASE LookUpFinal
  <2>1. CASE turn \in streams
    <3>1. /\ turn \in Requests /\ turn # NoRequest /\ sent[turn] \in Nat
          /\ reply[turn].len \in Nat
      BY <1>15, TurnTypes DEF LookUpFinal, TypeOK
    <3>2. nextAt' \in Nat /\ acc' \in Nat /\ UNCHANGED <<turn, after, recordVars>>
      BY <1>15, <2>1, <3>1 DEF LookUpFinal
    <3>3. agent' = "final_push" /\ agent = "final"
      BY <1>15, <2>1 DEF LookUpFinal
    <3> QED BY <1>15, <3>1, <3>2, <3>3 DEF LookUpFinal, TypeOK
  <2>2. CASE turn \notin streams
    BY <1>15, <2>2, CompletedTypes DEF LookUpFinal, TypeOK
  <2> QED BY <2>1, <2>2
<1>16. CASE PushRest
  <2>1. Delta(reply[turn].text, nextAt) \in Frames /\ turn \in Requests
    BY <1>16, TurnTypes, FrameTypes DEF PushRest, TypeOK
  <2>2. frames' \in [Requests -> Seq(Frames)]
    BY <1>16, <2>1, PushIsTyped DEF PushRest, TypeOK
  <2>3. nextAt' \in Nat
    BY <1>16 DEF PushRest, TypeOK
  <2>4. CASE CanPush(turn)
    BY <1>16, <2>2, <2>3, <2>4 DEF PushRest, TypeOK
  <2>5. CASE ~CanPush(turn)
    BY <1>16, <2>2, <2>3, <2>5, TurnTypes DEF PushRest, TypeOK
  <2> QED BY <2>4, <2>5
<1>17. CASE RemoveForFinal
  <2>1. streams' \subseteq Requests
    BY <1>17 DEF RemoveForFinal, Remove, TypeOK
  <2>2. CASE turn \in streams
    <3>1. /\ agent = "final_push" /\ agent' = "final_pair" /\ nextAt' = 0
          /\ UNCHANGED <<turn, acc, after, recordVars>>
      BY <1>17, <2>2 DEF RemoveForFinal
    <3> QED BY <1>17, <2>1, <3>1 DEF RemoveForFinal, TypeOK
  <2>3. CASE turn \notin streams
    BY <1>17, <2>1, <2>3, CompletedTypes DEF RemoveForFinal, TypeOK
  <2> QED BY <2>2, <2>3
<1>18. CASE PushFinal
  <2>1. PushPair(turn, "final") /\ "final" \in Terminals /\ turn \in Requests
    BY <1>18, TurnTypes DEF PushFinal, Terminals
  <2>2. frames' \in [Requests -> Seq(Frames)] /\ closed' \in [Requests -> BOOLEAN]
    BY <2>1, PairIsTyped
  <2>3. cut' \subseteq Requests
    BY <1>18, <2>1 DEF PushFinal, TypeOK
  <2> QED BY <1>18, <2>2, <2>3, CompletedTypes DEF PushFinal, TypeOK
<1> QED BY <1>1, <1>2, <1>3, <1>4, <1>5, <1>6, <1>7, <1>8, <1>9, <1>10, <1>11, <1>12, <1>13,
           <1>14, <1>15, <1>16, <1>17, <1>18, <1>19 DEF AgentStep

-----------------------------------------------------------------------------
(* The table.                                                                *)

\* What a thread does to its own stream leaves the others as they are.
LEMMA OthersKept ==
  ASSUME NEW q \in Requests, StreamOK(q),
         http'[q] = http[q], closed'[q] = closed[q], q \in streams' <=> q \in streams,
         AgentEnds(q)' <=> AgentEnds(q)
  PROVE  StreamOK(q)'
PROOF
  BY DEF StreamOK, Ending, AgentEnds

\* The steps of the requests' threads.
LEMMA HttpStreams ==
  ASSUME TypeOK, \A q \in Requests : StreamOK(q),
         NEW r \in Requests, Open(r) \/ HttpStep(r), UNCHANGED agentVars
  PROVE  \A q \in Requests : StreamOK(q)'
PROOF
<1>1. \A q \in Requests : AgentEnds(q)' <=> AgentEnds(q)
  BY DEF agentVars, turnVars, AgentEnds
<1>2. http \in [Requests -> HttpPlaces] /\ closed \in [Requests -> BOOLEAN]
  BY DEF TypeOK
<1>3. PushErrorPair(r) => closed' = [closed EXCEPT ![r] = TRUE]
  BY PairIsTyped DEF PushErrorPair, Terminals
<1>4. ASSUME NEW q \in Requests, q # r
      PROVE  http'[q] = http[q] /\ closed'[q] = closed[q] /\ (q \in streams' <=> q \in streams)
  <2> USE <1>2, <1>4 DEF HttpGoTo, brokerVars
  <2>1. CASE Open(r) \/ Enqueue(r) \/ LookUpQueued(r) \/ PushQueued(r) \/ RemoveOnError(r)
    BY <2>1 DEF Open, Register, Enqueue, LookUpQueued, PushQueued, RemoveOnError, Remove
  <2>2. CASE PushErrorPair(r)
    BY <2>2, <1>3 DEF PushErrorPair
  <2>3. CASE RecvFrame(r) \/ RecvClosed(r) \/ Wait(r) \/ RecvTimesOut(r) \/ Unregister(r)
    BY <2>3 DEF RecvFrame, RecvClosed, Wait, RecvTimesOut, Unregister, Remove
  <2> QED BY <2>1, <2>2, <2>3 DEF HttpStep
<1>5. StreamOK(r)'
  <2> USE <1>1, <1>2 DEF HttpGoTo, brokerVars, StreamOK, NotOpen, Ending
  <2>0. StreamOK(r)
    OBVIOUS
  <2>a. Ending(r)' <=> http'[r] \in {"refused_pair", "timeout_pair"} \/ AgentEnds(r)
    BY DEF AgentEnds
  <2>b. Ending(r) <=> http[r] \in {"refused_pair", "timeout_pair"} \/ AgentEnds(r)
    BY DEF AgentEnds
  <2>1. CASE Open(r)
    BY <2>0, <2>1, <2>a, <2>b DEF Open, Register
  <2>2. CASE Enqueue(r) \/ LookUpQueued(r) \/ PushQueued(r)
    BY <2>0, <2>2, <2>a, <2>b DEF Enqueue, LookUpQueued, PushQueued
  <2>3. CASE RemoveOnError(r)
    <3>1. CASE r \in streams
      BY <2>0, <2>3, <2>a, <2>b, <3>1 DEF RemoveOnError, Remove
    <3>2. CASE r \notin streams
      BY <2>0, <2>3, <2>a, <2>b, <3>2 DEF RemoveOnError, Remove
    <3> QED BY <3>1, <3>2
  <2>4. CASE PushErrorPair(r)
    BY <2>0, <2>4, <2>a, <2>b, <1>3 DEF PushErrorPair
  <2>5. CASE RecvFrame(r)
    BY <2>0, <2>5, <2>a, <2>b DEF RecvFrame, Receiving
  <2>6. CASE RecvClosed(r) \/ Wait(r) \/ RecvTimesOut(r)
    BY <2>0, <2>6, <2>a, <2>b DEF RecvClosed, Wait, RecvTimesOut, Receiving
  <2>7. CASE Unregister(r)
    <3>1. r \notin streams' /\ http'[r] = "left"
      BY <2>7 DEF Unregister, Remove
    <3> QED BY <3>1
  <2> QED BY <2>1, <2>2, <2>3, <2>4, <2>5, <2>6, <2>7 DEF HttpStep
<1> QED BY <1>1, <1>4, <1>5, OthersKept

\* The steps of the agent: only the stream of its turn is touched.
LEMMA AgentStreams ==
  ASSUME TypeOK, \A q \in Requests : StreamOK(q), AgentStep
  PROVE  \A q \in Requests : StreamOK(q)'
PROOF
<1>1. http' = http
  BY DEF AgentStep, Take, GiveUp, PutOff, DelayedRuns, Admit, Piece, PushDelta, NextRound, ReplyFromRound,
         ReplyRewritten, Silent, Retry, Fail, RemoveForError, PushAgentError, LookUpFinal,
         PushRest, RemoveForFinal, PushFinal, httpVars
<1>2. CASE \/ Take \/ GiveUp \/ PutOff \/ DelayedRuns \/ Admit \/ Piece \/ PushDelta \/ NextRound
           \/ ReplyFromRound \/ ReplyRewritten \/ Silent \/ Retry \/ Fail
           \/ LookUpFinal \/ PushRest
  <2>a. UNCHANGED <<streams, closed>>
    BY <1>2 DEF Take, GiveUp, PutOff, DelayedRuns, Admit, Piece, PushDelta, NextRound,
         ReplyFromRound, ReplyRewritten, Silent, Retry, Fail, LookUpFinal, PushRest, brokerVars
  <2>b. CASE DelayedRuns
    BY <2>b, <2>a, <1>1, OthersKept DEF DelayedRuns, turnVars, AgentEnds
  <2>c. CASE ~DelayedRuns
    <3>1. agent \notin {"final_pair", "err_pair"} /\ agent' \notin {"final_pair", "err_pair"}
      BY <1>2, <2>c DEF Take, GiveUp, PutOff, Admit, Piece, PushDelta, NextRound, ReplyFromRound,
           ReplyRewritten, Silent, Retry, Fail, LookUpFinal, PushRest, Forget, Completed
    <3>2. \A q \in Requests : AgentEnds(q)' <=> AgentEnds(q)
      BY <3>1 DEF AgentEnds
    <3> QED BY <1>1, <2>a, <3>2, OthersKept
  <2> QED BY <2>b, <2>c
<1>3. CASE RemoveForError \/ RemoveForFinal
  <2>1. /\ turn \in Requests /\ streams' = streams \ {turn} /\ closed' = closed
        /\ agent \notin {"final_pair", "err_pair"}
    BY <1>3, TurnTypes DEF RemoveForError, RemoveForFinal, Remove
  <2>2. CASE turn \in streams
    <3>1. agent' \in {"final_pair", "err_pair"} /\ turn' = turn
      BY <1>3, <2>2 DEF RemoveForError, RemoveForFinal
    <3>2. \A q \in Requests : q # turn => (AgentEnds(q)' <=> AgentEnds(q))
      BY <2>1, <3>1 DEF AgentEnds
    <3>3. \A q \in Requests : q # turn => StreamOK(q)'
      BY <1>1, <2>1, <3>2, OthersKept
    <3>4. PICK r \in Requests : r = turn
      BY <2>1
    <3>5. http'[r] \notin NotOpen /\ Ending(r)' /\ r \notin streams'
      BY <1>1, <2>1, <2>2, <3>1, <3>4 DEF StreamOK, Ending
    <3>6. StreamOK(r)'
      BY <3>5 DEF StreamOK
    <3> QED BY <3>3, <3>4, <3>6
  <2>3. CASE turn \notin streams
    <3>1. agent' \notin {"final_pair", "err_pair"}
      BY <1>3, <2>3 DEF RemoveForError, RemoveForFinal, ErrorEnds, Completed, Forget
    <3>2. \A q \in Requests : AgentEnds(q)' <=> AgentEnds(q)
      BY <2>1, <3>1 DEF AgentEnds
    <3> QED BY <1>1, <2>1, <2>3, <3>2, OthersKept
  <2> QED BY <2>2, <2>3
<1>4. CASE PushAgentError \/ PushFinal
  <2>1. /\ turn \in Requests /\ streams' = streams /\ AgentEnds(turn)
        /\ closed' = [closed EXCEPT ![turn] = TRUE] /\ closed \in [Requests -> BOOLEAN]
    <3>1. turn \in Requests /\ streams' = streams /\ AgentEnds(turn)
      BY <1>4, TurnTypes DEF PushAgentError, PushFinal, AgentEnds
    <3>2. PushPair(turn, "error") \/ PushPair(turn, "final")
      BY <1>4 DEF PushAgentError, PushFinal
    <3> QED BY <3>1, <3>2, PairIsTyped DEF Terminals, TypeOK
  <2>2. agent' \notin {"final_pair", "err_pair"}
    BY <1>4 DEF PushAgentError, PushFinal, ErrorEnds, Completed, Forget
  <2>3. \A q \in Requests : ~AgentEnds(q)' /\ (q # turn => ~AgentEnds(q))
    BY <2>2 DEF AgentEnds
  <2>4. \A q \in Requests : q # turn => StreamOK(q)'
    BY <1>1, <2>1, <2>3, OthersKept
  <2>5. turn \notin streams /\ http[turn] \notin NotOpen
    BY <2>1 DEF StreamOK
  <2>6. PICK r \in Requests : r = turn
    BY <2>1
  <2>7. closed'[r] /\ r \notin streams' /\ http'[r] \notin NotOpen
    BY <1>1, <2>1, <2>5, <2>6
  <2>8. StreamOK(r)'
    BY <2>7 DEF StreamOK
  <2> QED BY <2>4, <2>6, <2>8
<1> QED BY <1>2, <1>3, <1>4 DEF AgentStep

-----------------------------------------------------------------------------
(* The queues.                                                               *)

\* A queue nothing happens to.
LEMMA QueueKept ==
  ASSUME NEW q \in Requests, QueueOK(q),
         frames'[q] = frames[q], seen'[q] = seen[q], closed'[q] = closed[q]
  PROVE  QueueOK(q)'
PROOF
  BY DEF QueueOK, Log

\* An event that ends nothing is added to a queue that takes it.
LEMMA QueuePushed ==
  ASSUME TypeOK, NEW r \in Requests, NEW f \in Frames, f.kind \notin EndKinds,
         CanPush(r), Push(r, f), UNCHANGED <<closed, seen>>, \A q \in Requests : QueueOK(q)
  PROVE  \A q \in Requests : QueueOK(q)'
PROOF
<1>1. /\ frames \in [Requests -> Seq(Frames)] /\ frames' = [frames EXCEPT ![r] = Append(@, f)]
      /\ frames[r] \in Seq(Frames) /\ ~closed[r]
  BY DEF TypeOK, Push, CanPush
<1>2. \A q \in Requests : q # r => QueueOK(q)'
  BY <1>1, QueueKept
<1>3. frames'[r] = Append(frames[r], f) /\ NoEnd(frames[r]) /\ NoEnd(seen[r])
  BY <1>1 DEF QueueOK
<1>4. NoEnd(Append(frames[r], f))
  <2> SUFFICES ASSUME NEW i \in 1 .. Len(Append(frames[r], f))
               PROVE  Append(frames[r], f)[i].kind \notin EndKinds
    BY DEF NoEnd
  <2>1. CASE i \in 1 .. Len(frames[r])
    <3>1. Append(frames[r], f)[i] = frames[r][i]
      BY <1>1, <2>1
    <3> QED BY <1>3, <2>1, <3>1 DEF NoEnd
  <2>2. CASE i \notin 1 .. Len(frames[r])
    <3>1. Append(frames[r], f)[i] = f
      BY <1>1, <2>2
    <3> QED BY <3>1
  <2> QED BY <2>1, <2>2
<1>5. QueueOK(r)'
  BY <1>1, <1>3, <1>4 DEF QueueOK
<1> QED BY <1>2, <1>5

\* The pair ends a stream that nobody has ended.
LEMMA QueueEnded ==
  ASSUME TypeOK, NEW r \in Requests, NEW kind \in Terminals,
         PushPair(r, kind), UNCHANGED seen, \A q \in Requests : QueueOK(q)
  PROVE  \A q \in Requests : QueueOK(q)'
PROOF
<1>1. /\ frames \in [Requests -> Seq(Frames)] /\ closed \in [Requests -> BOOLEAN]
      /\ frames[r] \in Seq(Frames) /\ seen[r] \in Seq(Frames)
  BY DEF TypeOK
<1>2. CASE closed[r]
  BY <1>2, QueueKept DEF PushPair
<1>3. CASE ~closed[r]
  <2>1. /\ frames' = [frames EXCEPT ![r] =
             SubSeq(@, Evicted(r) + 1, Len(@)) \o <<Event(kind), Event("done")>>]
        /\ closed' = [closed EXCEPT ![r] = TRUE]
    BY <1>3 DEF PushPair
  <2>2. \A q \in Requests : q # r => QueueOK(q)'
    BY <1>1, <2>1, QueueKept
  <2>3. NoEnd(frames[r]) /\ NoEnd(seen[r])
    BY <1>3 DEF QueueOK
  <2>4. Evicted(r) \in Nat
    BY <1>1, BrokerAssumption DEF Evicted
  <2>5. EndedOnce(seen[r] \o (SubSeq(frames[r], Evicted(r) + 1, Len(frames[r]))
                                \o <<Event(kind), Event("done")>>))
    BY <1>1, <2>3, <2>4, PairEnds
  <2>6. /\ seen'[r] = seen[r] /\ closed'[r]
        /\ frames'[r] = SubSeq(frames[r], Evicted(r) + 1, Len(frames[r]))
                          \o <<Event(kind), Event("done")>>
    BY <1>1, <2>1
  <2>7. QueueOK(r)'
    BY <2>5, <2>6 DEF QueueOK, Log
  <2> QED BY <2>2, <2>7
<1> QED BY <1>2, <1>3

\* A frame is handed out.
LEMMA QueueRead ==
  ASSUME TypeOK, NEW r \in Requests, RecvFrame(r), \A q \in Requests : QueueOK(q)
  PROVE  \A q \in Requests : QueueOK(q)'
PROOF
<1>1. /\ frames \in [Requests -> Seq(Frames)] /\ seen \in [Requests -> Seq(Frames)]
      /\ frames[r] \in Seq(Frames) /\ seen[r] \in Seq(Frames)
  BY DEF TypeOK
<1>2. /\ frames[r] # <<>> /\ closed' = closed
      /\ frames' = [frames EXCEPT ![r] = Tail(@)]
      /\ seen' = [seen EXCEPT ![r] = Append(@, Head(frames[r]))]
  BY DEF RecvFrame
<1>3. frames'[r] = Tail(frames[r]) /\ seen'[r] = Append(seen[r], Head(frames[r]))
  BY <1>1, <1>2
<1>4. \A q \in Requests : q # r => QueueOK(q)'
  BY <1>1, <1>2, QueueKept
<1>5. CASE closed[r]
  <2>1. seen'[r] \o frames'[r] = seen[r] \o frames[r]
    BY <1>1, <1>2, <1>3, ReadKeepsLog
  <2> QED BY <1>2, <1>4, <1>5, <2>1 DEF QueueOK, Log
<1>6. CASE ~closed[r]
  <2>1. NoEnd(frames[r]) /\ NoEnd(seen[r])
    BY <1>6 DEF QueueOK
  <2>2. Head(frames[r]) = frames[r][1] /\ 1 \in 1 .. Len(frames[r])
    BY <1>1, <1>2
  <2>3. \A i \in 1 .. Len(Tail(frames[r])) :
          Tail(frames[r])[i] = frames[r][i + 1] /\ i + 1 \in 1 .. Len(frames[r])
    BY <1>1, <1>2
  <2>4. NoEnd(Tail(frames[r]))
    BY <2>1, <2>3 DEF NoEnd
  <2>5. \A i \in 1 .. Len(Append(seen[r], Head(frames[r]))) :
          \/ i \in 1 .. Len(seen[r]) /\ Append(seen[r], Head(frames[r]))[i] = seen[r][i]
          \/ Append(seen[r], Head(frames[r]))[i] = Head(frames[r])
    BY <1>1
  <2>6. NoEnd(Append(seen[r], Head(frames[r])))
    BY <2>1, <2>2, <2>5 DEF NoEnd
  <2>7. QueueOK(r)'
    BY <1>2, <1>3, <1>6, <2>4, <2>6 DEF QueueOK
  <2> QED BY <1>4, <2>7
<1> QED BY <1>5, <1>6

\* The steps of the requests' threads.
LEMMA HttpQueues ==
  ASSUME TypeOK, \A q \in Requests : QueueOK(q), NEW r \in Requests, Open(r) \/ HttpStep(r)
  PROVE  \A q \in Requests : QueueOK(q)'
PROOF
<1>1. CASE \/ Open(r) \/ Enqueue(r) \/ LookUpQueued(r) \/ RemoveOnError(r)
           \/ RecvClosed(r) \/ Wait(r) \/ RecvTimesOut(r)
  <2>1. UNCHANGED <<frames, closed, seen>>
    BY <1>1 DEF Open, Enqueue, LookUpQueued, RemoveOnError, RecvClosed, Wait, RecvTimesOut, brokerVars
  <2> QED BY <2>1, QueueKept
<1>2. CASE PushQueued(r)
  <2>1. Event("queued") \in Frames /\ Event("queued").kind \notin EndKinds
    BY FrameTypes DEF EventKinds, EndKinds, Terminals, Event
  <2>2. UNCHANGED <<closed, seen>>
    BY <1>2 DEF PushQueued
  <2>3. CASE CanPush(r)
    BY <1>2, <2>1, <2>2, <2>3, QueuePushed DEF PushQueued
  <2>4. CASE ~CanPush(r)
    BY <1>2, <2>2, <2>4, QueueKept DEF PushQueued
  <2> QED BY <2>3, <2>4
<1>3. CASE PushErrorPair(r)
  BY <1>3, QueueEnded DEF PushErrorPair, Terminals
<1>4. CASE RecvFrame(r)
  BY <1>4, QueueRead
<1>5. CASE Unregister(r)
  <2>1. /\ frames \in [Requests -> Seq(Frames)] /\ seen \in [Requests -> Seq(Frames)]
        /\ closed \in [Requests -> BOOLEAN]
    BY DEF TypeOK
  <2>2. \A q \in Requests : q # r => QueueOK(q)'
    BY <1>5, <2>1, QueueKept DEF Unregister
  <2>3. frames'[r] = <<>> /\ seen'[r] = <<>>
    BY <1>5, <2>1 DEF Unregister
  <2>4. NoEnd(<<>>) /\ <<>> \o <<>> = <<>>
    BY DEF NoEnd
  <2>5. EndedOnce(<<>>)
    BY <2>4, NoEndIsFine
  <2>6. QueueOK(r)'
    BY <2>3, <2>4, <2>5 DEF QueueOK, Log
  <2> QED BY <2>2, <2>6
<1> QED BY <1>1, <1>2, <1>3, <1>4, <1>5 DEF HttpStep

\* The steps of the agent.
LEMMA AgentQueues ==
  ASSUME TypeOK, \A q \in Requests : QueueOK(q), AgentStep
  PROVE  \A q \in Requests : QueueOK(q)'
PROOF
<1>1. CASE \/ Take \/ GiveUp \/ PutOff \/ DelayedRuns \/ Admit \/ Piece \/ NextRound \/ ReplyFromRound
           \/ ReplyRewritten \/ Silent \/ Retry \/ Fail \/ RemoveForError \/ LookUpFinal
           \/ RemoveForFinal
  <2>1. UNCHANGED <<frames, closed, seen>>
    BY <1>1 DEF Take, GiveUp, PutOff, DelayedRuns, Admit, Piece, NextRound, ReplyFromRound, ReplyRewritten,
         Silent, Retry, Fail, RemoveForError, LookUpFinal, RemoveForFinal, brokerVars, httpVars
  <2> QED BY <2>1, QueueKept
<1>2. CASE PushDelta
  <2>1. /\ Delta(texts[turn], acc) \in Frames /\ Delta(texts[turn], acc).kind = "delta"
        /\ turn \in Requests /\ UNCHANGED <<closed, seen>>
    BY <1>2, TurnTypes, FrameTypes DEF PushDelta, TypeOK, httpVars
  <2>2. CASE CanPush(turn)
    BY <1>2, <2>1, <2>2, QueuePushed DEF PushDelta, EndKinds, Terminals
  <2>3. CASE ~CanPush(turn)
    BY <1>2, <2>1, <2>3, QueueKept DEF PushDelta
  <2> QED BY <2>2, <2>3
<1>3. CASE PushRest
  <2>1. /\ Delta(reply[turn].text, nextAt) \in Frames
        /\ Delta(reply[turn].text, nextAt).kind = "delta"
        /\ turn \in Requests /\ UNCHANGED <<closed, seen>>
    BY <1>3, TurnTypes, FrameTypes DEF PushRest, TypeOK, httpVars
  <2>2. CASE CanPush(turn)
    BY <1>3, <2>1, <2>2, QueuePushed DEF PushRest, EndKinds, Terminals
  <2>3. CASE ~CanPush(turn)
    BY <1>3, <2>1, <2>3, QueueKept DEF PushRest
  <2> QED BY <2>2, <2>3
<1>4. CASE PushAgentError
  <2>1. PushPair(turn, "error") /\ UNCHANGED seen /\ turn \in Requests
    BY <1>4, TurnTypes DEF PushAgentError, httpVars
  <2> QED BY <2>1, QueueEnded DEF Terminals
<1>5. CASE PushFinal
  <2>1. PushPair(turn, "final") /\ UNCHANGED seen /\ turn \in Requests
    BY <1>5, TurnTypes DEF PushFinal, httpVars
  <2> QED BY <2>1, QueueEnded DEF Terminals
<1> QED BY <1>1, <1>2, <1>3, <1>4, <1>5 DEF AgentStep

-----------------------------------------------------------------------------
(* What is in a log.                                                         *)

FinalIn(s) == \E i \in 1 .. Len(s) : s[i].kind = "final"

\* The log has the first pieces of a text, each once and in their order, and
\* no other piece of that text.
Told(s, text, n) ==
  /\ \A i \in 1 .. Len(s) : s[i].kind = "delta" /\ s[i].text = text => s[i].at \in 1 .. n
  /\ \A k \in 1 .. n : \E i \in 1 .. Len(s) : s[i].kind = "delta" /\ s[i].text = text /\ s[i].at = k
  /\ \A i, j \in 1 .. Len(s) :
       /\ i < j
       /\ s[i].kind = "delta" /\ s[i].text = text
       /\ s[j].kind = "delta" /\ s[j].text = text
       => s[i].at < s[j].at

OtherText(s, text) == \E i \in 1 .. Len(s) : s[i].kind = "delta" /\ s[i].text # text

\* The pieces are of texts that were begun, and the farthest of them is the
\* one the stream has counted up to.
Counted(s, begun, farthest) ==
  /\ \A i \in 1 .. Len(s) :
       s[i].kind = "delta" => s[i].text <= begun /\ s[i].at \in 1 .. farthest
  /\ farthest > 0 => \E i \in 1 .. Len(s) : s[i].kind = "delta" /\ s[i].at = farthest

\* A frame's fields are numbers.
LEMMA FrameFields ==
  ASSUME NEW f \in Frames
  PROVE  f.text \in Nat /\ f.at \in Nat
PROOF
  BY DEF Frames, Event

\* What a piece is made of.
LEMMA DeltaFields ==
  ASSUME NEW t \in Nat, NEW n \in Nat
  PROVE  /\ Delta(t, n) \in Frames /\ Delta(t, n).kind = "delta"
         /\ Delta(t, n).text = t /\ Delta(t, n).at = n
PROOF
  BY DEF Frames, Delta

\* Where the elements of a longer sequence come from.
LEMMA AppendIndexes ==
  ASSUME NEW S, NEW s \in Seq(S), NEW x \in S
  PROVE  /\ Append(s, x) \in Seq(S) /\ Len(s) \in Nat /\ Len(Append(s, x)) = Len(s) + 1
         /\ \A i \in 1 .. Len(s) : Append(s, x)[i] = s[i]
         /\ Append(s, x)[Len(s) + 1] = x
PROOF
  OBVIOUS

\* What is added to a queue is added to the log.
LEMMA LogGrows ==
  ASSUME NEW s \in Seq(Frames), NEW q \in Seq(Frames), NEW f \in Frames
  PROVE  s \o Append(q, f) = Append(s \o q, f)
PROOF
<1> DEFINE a == s \o Append(q, f)
           b == Append(s \o q, f)
<1>1. a \in Seq(Frames) /\ b \in Seq(Frames)
  OBVIOUS
<1>2. Len(a) = Len(b)
  OBVIOUS
<1>3. \A i \in 1 .. Len(a) : a[i] = b[i]
  OBVIOUS
<1> HIDE DEF a, b
<1>4. a = b
  BY <1>1, <1>2, <1>3
<1> QED BY <1>4 DEF a, b

\* The next piece of a text is told.
LEMMA ToldNext ==
  ASSUME NEW s \in Seq(Frames), NEW t \in Nat, NEW n \in Nat, Told(s, t, n)
  PROVE  Told(Append(s, Delta(t, n + 1)), t, n + 1)
PROOF
<1> DEFINE f == Delta(t, n + 1)
           a == Append(s, f)
<1>1. f \in Frames /\ f.kind = "delta" /\ f.text = t /\ f.at = n + 1
  BY DeltaFields
<1>2. /\ Len(a) = Len(s) + 1 /\ Len(s) \in Nat
      /\ \A i \in 1 .. Len(s) : a[i] = s[i]
      /\ a[Len(s) + 1] = f
  BY <1>1, AppendIndexes
<1> HIDE DEF f, a
<1>3. \A i \in 1 .. Len(a) : a[i].kind = "delta" /\ a[i].text = t => a[i].at \in 1 .. n + 1
  <2> SUFFICES ASSUME NEW i \in 1 .. Len(a), a[i].kind = "delta", a[i].text = t
               PROVE  a[i].at \in 1 .. n + 1
    OBVIOUS
  <2>1. CASE i \in 1 .. Len(s)
    <3>1. s[i].at \in 1 .. n
      BY <1>2, <2>1 DEF Told
    <3> QED BY <1>2, <2>1, <3>1
  <2>2. CASE i = Len(s) + 1
    BY <1>1, <1>2, <2>2
  <2> QED BY <1>2, <2>1, <2>2
<1>4. \A k \in 1 .. n + 1 : \E i \in 1 .. Len(a) : a[i].kind = "delta" /\ a[i].text = t /\ a[i].at = k
  <2> SUFFICES ASSUME NEW k \in 1 .. n + 1
               PROVE  \E i \in 1 .. Len(a) : a[i].kind = "delta" /\ a[i].text = t /\ a[i].at = k
    OBVIOUS
  <2>1. CASE k \in 1 .. n
    <3>1. PICK i \in 1 .. Len(s) : s[i].kind = "delta" /\ s[i].text = t /\ s[i].at = k
      BY <2>1 DEF Told
    <3>2. i \in 1 .. Len(a) /\ a[i] = s[i]
      BY <1>2, <3>1
    <3> QED BY <3>1, <3>2
  <2>2. CASE k = n + 1
    <3>1. Len(s) + 1 \in 1 .. Len(a)
      BY <1>2
    <3> QED BY <1>1, <1>2, <2>2, <3>1
  <2> QED BY <2>1, <2>2
<1>5. ASSUME NEW i \in 1 .. Len(a), NEW j \in 1 .. Len(a), i < j,
             a[i].kind = "delta", a[i].text = t, a[j].kind = "delta", a[j].text = t
      PROVE  a[i].at < a[j].at
  <2>1. i \in 1 .. Len(s) /\ a[i] = s[i]
    BY <1>2, <1>5
  <2>2. CASE j \in 1 .. Len(s)
    <3>1. a[j] = s[j]
      BY <1>2, <2>2
    <3> QED BY <1>5, <2>1, <2>2, <3>1 DEF Told
  <2>3. CASE j = Len(s) + 1
    <3>1. s[i].at \in 1 .. n
      BY <1>5, <2>1 DEF Told
    <3>2. a[j].at = n + 1
      BY <1>1, <1>2, <2>3
    <3>3. s[i].at < n + 1
      BY <3>1
    <3> QED BY <2>1, <3>2, <3>3
  <2> QED BY <1>2, <2>2, <2>3
<1>6. Told(a, t, n + 1)
  BY <1>3, <1>4, <1>5 DEF Told
<1> QED BY <1>6 DEF f, a

\* A piece of another text stays one, whatever is added.
LEMMA OtherTextStays ==
  ASSUME NEW s \in Seq(Frames), NEW f \in Frames, NEW t, OtherText(s, t)
  PROVE  OtherText(Append(s, f), t)
PROOF
<1>1. PICK i \in 1 .. Len(s) : s[i].kind = "delta" /\ s[i].text # t
  BY DEF OtherText
<1>2. i \in 1 .. Len(Append(s, f)) /\ Append(s, f)[i] = s[i]
  BY AppendIndexes
<1> QED BY <1>1, <1>2 DEF OtherText

\* An event says nothing of a text.
LEMMA EventKeepsText ==
  ASSUME NEW s \in Seq(Frames), NEW f \in Frames, f.kind # "delta", NEW t \in Nat, NEW n \in Nat
  PROVE  /\ Told(s, t, n) => Told(Append(s, f), t, n)
         /\ Counted(s, t, n) => Counted(Append(s, f), t, n)
PROOF
<1> DEFINE a == Append(s, f)
<1>1. /\ Len(a) = Len(s) + 1 /\ Len(s) \in Nat
      /\ \A i \in 1 .. Len(s) : a[i] = s[i]
      /\ a[Len(s) + 1] = f
  BY AppendIndexes
<1> HIDE DEF a
<1>2. \A i \in 1 .. Len(a) : a[i].kind = "delta" => i \in 1 .. Len(s) /\ a[i] = s[i]
  <2> SUFFICES ASSUME NEW i \in 1 .. Len(a), a[i].kind = "delta" PROVE i \in 1 .. Len(s)
    BY <1>1
  <2>1. i # Len(s) + 1
    BY <1>1
  <2> QED BY <1>1, <2>1
<1>3. \A i \in 1 .. Len(s) : i \in 1 .. Len(a) /\ a[i] = s[i]
  BY <1>1
<1>4. Told(s, t, n) => Told(a, t, n)
  <2> SUFFICES ASSUME Told(s, t, n) PROVE Told(a, t, n)
    OBVIOUS
  <2>1. \A i \in 1 .. Len(a) : a[i].kind = "delta" /\ a[i].text = t => a[i].at \in 1 .. n
    BY <1>2 DEF Told
  <2>2. \A k \in 1 .. n : \E i \in 1 .. Len(a) : a[i].kind = "delta" /\ a[i].text = t /\ a[i].at = k
    <3> SUFFICES ASSUME NEW k \in 1 .. n
                 PROVE  \E i \in 1 .. Len(a) : a[i].kind = "delta" /\ a[i].text = t /\ a[i].at = k
      OBVIOUS
    <3>1. PICK i \in 1 .. Len(s) : s[i].kind = "delta" /\ s[i].text = t /\ s[i].at = k
      BY DEF Told
    <3> QED BY <1>3, <3>1
  <2>3. ASSUME NEW i \in 1 .. Len(a), NEW j \in 1 .. Len(a), i < j,
               a[i].kind = "delta", a[i].text = t, a[j].kind = "delta", a[j].text = t
        PROVE  a[i].at < a[j].at
    <3>1. i \in 1 .. Len(s) /\ j \in 1 .. Len(s) /\ a[i] = s[i] /\ a[j] = s[j]
      BY <1>2, <2>3
    <3> QED BY <2>3, <3>1 DEF Told
  <2> QED BY <2>1, <2>2, <2>3 DEF Told
<1>5. Counted(s, t, n) => Counted(a, t, n)
  BY <1>2, <1>3 DEF Counted
<1> QED BY <1>4, <1>5 DEF a

\* The piece that is sent is counted.
LEMMA CountedNext ==
  ASSUME NEW s \in Seq(Frames), NEW t \in Nat, NEW m \in Nat, NEW n \in Nat, n >= 1,
         Counted(s, t, m)
  PROVE  Counted(Append(s, Delta(t, n)), t, IF n > m THEN n ELSE m)
PROOF
<1> DEFINE f == Delta(t, n)
           a == Append(s, f)
<1>1. f \in Frames /\ f.kind = "delta" /\ f.text = t /\ f.at = n
  BY DeltaFields
<1>2. /\ Len(a) = Len(s) + 1 /\ Len(s) \in Nat
      /\ \A i \in 1 .. Len(s) : a[i] = s[i]
      /\ a[Len(s) + 1] = f
  BY <1>1, AppendIndexes
<1> HIDE DEF f, a
<1>3. PICK g \in Nat : g = IF n > m THEN n ELSE m
  OBVIOUS
<1>4. g >= n /\ g >= m /\ (g = n \/ g = m)
  BY <1>3
<1>5. ASSUME NEW i \in 1 .. Len(a), a[i].kind = "delta"
      PROVE  a[i].text <= t /\ a[i].at \in 1 .. g
  <2>1. CASE i \in 1 .. Len(s)
    <3>1. s[i].text <= t /\ s[i].at \in 1 .. m
      BY <1>2, <1>5, <2>1 DEF Counted
    <3>2. s[i].at \in 1 .. g
      BY <1>4, <3>1
    <3>3. a[i] = s[i]
      BY <1>2, <2>1
    <3> QED BY <3>1, <3>2, <3>3
  <2>2. CASE i = Len(s) + 1
    <3>1. a[i] = f
      BY <1>2, <2>2
    <3> QED BY <1>1, <1>4, <3>1
  <2> QED BY <1>2, <2>1, <2>2
<1>6. g > 0 => \E i \in 1 .. Len(a) : a[i].kind = "delta" /\ a[i].at = g
  <2>1. CASE g = n
    <3>1. Len(s) + 1 \in 1 .. Len(a)
      BY <1>2
    <3> QED BY <1>1, <1>2, <2>1, <3>1
  <2>2. CASE g = m
    <3>1. PICK i \in 1 .. Len(s) : s[i].kind = "delta" /\ s[i].at = m
      BY <1>4, <2>2 DEF Counted
    <3>2. i \in 1 .. Len(a) /\ a[i] = s[i]
      BY <1>2
    <3> QED BY <2>2, <3>1, <3>2
  <2> QED BY <1>4, <2>1, <2>2
<1>7. Counted(a, t, g)
  BY <1>5, <1>6 DEF Counted
<1> QED BY <1>3, <1>7 DEF f, a

\* Nothing is told yet of a text that begins.
LEMMA FreshText ==
  ASSUME NEW s \in Seq(Frames), NEW t \in Nat, NEW m \in Nat, Counted(s, t, m)
  PROVE  Told(s, t + 1, 0) /\ Counted(s, t + 1, m)
PROOF
<1>1. \A i \in 1 .. Len(s) :
        s[i].kind = "delta" => s[i].text < t + 1 /\ s[i].text <= t + 1 /\ s[i].at \in 1 .. m
  <2> SUFFICES ASSUME NEW i \in 1 .. Len(s), s[i].kind = "delta"
               PROVE  s[i].text < t + 1 /\ s[i].text <= t + 1 /\ s[i].at \in 1 .. m
    OBVIOUS
  <2>1. s[i].text \in Nat
    BY FrameFields
  <2>2. s[i].text <= t /\ s[i].at \in 1 .. m
    BY DEF Counted
  <2> QED BY <2>1, <2>2
<1>2. \A i \in 1 .. Len(s) : s[i].kind = "delta" => s[i].text # t + 1
  BY <1>1
<1>3. Told(s, t + 1, 0)
  BY <1>2 DEF Told
<1>4. Counted(s, t + 1, m)
  BY <1>1 DEF Counted
<1> QED BY <1>3, <1>4

\* A stream that was shown one text only has counted what was told of it.
LEMMA AllCounted ==
  ASSUME NEW s, NEW t \in Nat, NEW u \in Nat, NEW m \in Nat, NEW n \in Nat,
         Counted(s, u, m), Told(s, t, n), ~OtherText(s, t)
  PROVE  m = n
PROOF
<1>1. \A i \in 1 .. Len(s) : s[i].kind = "delta" => s[i].text = t
  BY DEF OtherText
<1>2. m <= n
  <2>1. CASE m = 0
    BY <2>1
  <2>2. CASE m > 0
    <3>1. PICK i \in 1 .. Len(s) : s[i].kind = "delta" /\ s[i].at = m
      BY <2>2 DEF Counted
    <3>2. s[i].at \in 1 .. n
      BY <1>1, <3>1 DEF Told
    <3> QED BY <3>1, <3>2
  <2> QED BY <2>1, <2>2
<1>3. n <= m
  <2>1. CASE n = 0
    BY <2>1
  <2>2. CASE n > 0
    <3>0. n \in 1 .. n
      BY <2>2
    <3>1. PICK i \in 1 .. Len(s) : s[i].kind = "delta" /\ s[i].at = n
      BY <3>0 DEF Told
    <3>2. s[i].at \in 1 .. m
      BY <3>1 DEF Counted
    <3> QED BY <3>1, <3>2
  <2> QED BY <2>1, <2>2
<1> QED BY <1>2, <1>3

\* A queue that makes room for the pair without dropping a piece keeps what
\* it tells.
LEMMA PairKeepsText ==
  ASSUME NEW s \in Seq(Frames), NEW q \in Seq(Frames), NEW n \in Nat, NEW kind \in Terminals,
         NEW t \in Nat, NEW m \in Nat, \A i \in 1 .. n : q[i].kind # "delta"
  PROVE  LET w == s \o (SubSeq(q, n + 1, Len(q)) \o <<Event(kind), Event("done")>>)
         IN  /\ Told(s \o q, t, m) => Told(w, t, m)
             /\ OtherText(s \o q, t) => OtherText(w, t)
PROOF
<1> DEFINE k == SubSeq(q, n + 1, Len(q))
           p == <<Event(kind), Event("done")>>
           w == s \o (k \o p)
           o == s \o q
<1>1. /\ k \in Seq(Frames) /\ p \in Seq(Frames) /\ Len(p) = 2
      /\ p[1].kind # "delta" /\ p[2].kind # "delta"
  BY FrameTypes DEF EventKinds, Terminals, Event
<1>2. /\ \A i \in 1 .. Len(k) : k[i] = q[n + i] /\ n + i \in 1 .. Len(q)
      /\ \A j \in 1 .. Len(q) : j > n => j - n \in 1 .. Len(k) /\ k[j - n] = q[j]
  OBVIOUS
<1>3. /\ \A i \in 1 .. Len(k) : (k \o p)[i] = k[i]
      /\ \A i \in 1 .. Len(p) : (k \o p)[Len(k) + i] = p[i]
      /\ k \o p \in Seq(Frames) /\ Len(k \o p) = Len(k) + 2 /\ Len(k) \in Nat
  <2>1. k \in Seq(Frames) /\ p \in Seq(Frames)
    BY <1>1
  <2> HIDE DEF k, p
  <2>2. /\ \A i \in 1 .. Len(k) : (k \o p)[i] = k[i]
        /\ \A i \in 1 .. Len(p) : (k \o p)[Len(k) + i] = p[i]
        /\ k \o p \in Seq(Frames) /\ Len(k \o p) = Len(k) + Len(p)
        /\ Len(k) \in Nat
    BY <2>1, JoinIndexes
  <2>3. Len(k \o p) = Len(k) + 2
    BY <1>1, <2>2
  <2> QED BY <2>2, <2>3
<1>4. /\ \A i \in 1 .. Len(s) : w[i] = s[i]
      /\ \A i \in 1 .. Len(k \o p) : w[Len(s) + i] = (k \o p)[i]
      /\ Len(w) = Len(s) + Len(k \o p) /\ Len(w) \in Nat /\ Len(s) \in Nat
  <2>1. k \o p \in Seq(Frames)
    BY <1>3
  <2> HIDE DEF k, p
  <2>2. /\ \A i \in 1 .. Len(s) : w[i] = s[i]
        /\ \A i \in 1 .. Len(k \o p) : w[Len(s) + i] = (k \o p)[i]
        /\ Len(w) = Len(s) + Len(k \o p) /\ Len(s) \in Nat /\ Len(k \o p) \in Nat
    BY <2>1, JoinIndexes
  <2> HIDE DEF w
  <2>3. Len(w) \in Nat
    BY <2>2
  <2> QED BY <2>2, <2>3
<1>5. /\ \A i \in 1 .. Len(s) : o[i] = s[i]
      /\ \A i \in 1 .. Len(q) : o[Len(s) + i] = q[i]
      /\ Len(o) = Len(s) + Len(q) /\ Len(q) \in Nat
  BY JoinIndexes
<1> DEFINE Was(i) == IF i <= Len(s) THEN i ELSE i + n
<1> HIDE DEF k, p, w, o
\* The pieces of the new log are those of the old one, in their order.
<1>6. ASSUME NEW i \in 1 .. Len(w), w[i].kind = "delta"
      PROVE  Was(i) \in 1 .. Len(o) /\ w[i] = o[Was(i)]
  <2>1. CASE i <= Len(s)
    BY <1>4, <1>5, <2>1
  <2>2. CASE i > Len(s)
    <3>1. PICK d \in Nat : d = i - Len(s)
      <4>1. i \in Nat /\ Len(s) \in Nat /\ i > Len(s)
        BY <1>4, <2>2
      <4> HIDE DEF Was
      <4>2. i - Len(s) \in Nat
        BY <4>1
      <4> QED BY <4>2
    <3>2. d \in 1 .. Len(k \o p) /\ i = Len(s) + d
      BY <1>3, <1>4, <2>2, <3>1
    <3>a. w[i] = (k \o p)[d]
      BY <1>4, <3>2
    <3>3. d \in 1 .. Len(k)
      <4>1. CASE d = Len(k) + 1
        BY <1>1, <1>3, <1>6, <3>a, <4>1
      <4>2. CASE d = Len(k) + 2
        BY <1>1, <1>3, <1>6, <3>a, <4>2
      <4> QED BY <1>1, <1>3, <3>2, <4>1, <4>2
    <3>4. w[i] = q[n + d] /\ n + d \in 1 .. Len(q)
      BY <1>2, <1>3, <3>a, <3>3
    <3>5. Was(i) = Len(s) + (n + d)
      BY <1>4, <2>2, <3>1
    <3> QED BY <1>4, <1>5, <3>4, <3>5
  <2> QED BY <1>4, <2>1, <2>2
<1>7. ASSUME NEW j \in 1 .. Len(o), o[j].kind = "delta"
      PROVE  \E i \in 1 .. Len(w) : w[i] = o[j]
  <2>1. CASE j <= Len(s)
    <3>1. j \in 1 .. Len(w) /\ w[j] = o[j]
      BY <1>3, <1>1, <1>4, <1>5, <2>1
    <3> QED BY <3>1
  <2>2. CASE j > Len(s)
    <3>1. PICK d \in 1 .. Len(q) : j = Len(s) + d
      <4>1. j - Len(s) \in 1 .. Len(q) /\ j = Len(s) + (j - Len(s))
        BY <1>4, <1>5, <2>2
      <4> QED BY <4>1
    <3>2. o[j] = q[d]
      BY <1>5, <3>1
    <3>3. d > n
      BY <1>7, <3>2
    <3>4. PICK e \in 1 .. Len(k) : k[e] = q[d]
      BY <1>2, <3>3
    <3>5. (k \o p)[e] = k[e] /\ e \in 1 .. Len(k \o p)
      BY <1>1, <1>3
    <3>6. w[Len(s) + e] = (k \o p)[e] /\ Len(s) + e \in 1 .. Len(w)
      BY <1>4, <3>5
    <3> QED BY <3>2, <3>4, <3>5, <3>6
  <2> QED BY <1>4, <2>1, <2>2
<1>8. Told(o, t, m) => Told(w, t, m)
  <2> SUFFICES ASSUME Told(o, t, m) PROVE Told(w, t, m)
    OBVIOUS
  <2>1. ASSUME NEW i \in 1 .. Len(w), w[i].kind = "delta", w[i].text = t
        PROVE  w[i].at \in 1 .. m
    <3> HIDE DEF Was
    <3> QED BY <1>6, <2>1 DEF Told
  <2>2. ASSUME NEW c \in 1 .. m
        PROVE  \E i \in 1 .. Len(w) : w[i].kind = "delta" /\ w[i].text = t /\ w[i].at = c
    <3>1. PICK j \in 1 .. Len(o) : o[j].kind = "delta" /\ o[j].text = t /\ o[j].at = c
      BY DEF Told
    <3>2. PICK i \in 1 .. Len(w) : w[i] = o[j]
      BY <1>7, <3>1
    <3> QED BY <3>1, <3>2
  <2>3. ASSUME NEW i \in 1 .. Len(w), NEW j \in 1 .. Len(w), i < j,
               w[i].kind = "delta", w[i].text = t, w[j].kind = "delta", w[j].text = t
        PROVE  w[i].at < w[j].at
    <3>1. /\ Was(i) \in 1 .. Len(o) /\ w[i] = o[Was(i)]
          /\ Was(j) \in 1 .. Len(o) /\ w[j] = o[Was(j)]
      BY <1>6, <2>3
    <3>2. Was(i) < Was(j)
      BY <1>4, <2>3
    <3>3. PICK b \in 1 .. Len(o), c \in 1 .. Len(o) : w[i] = o[b] /\ w[j] = o[c] /\ b < c
      BY <3>1, <3>2
    <3> QED BY <2>3, <3>3 DEF Told
  <2> QED BY <2>1, <2>2, <2>3 DEF Told
<1>9. OtherText(o, t) => OtherText(w, t)
  <2> SUFFICES ASSUME OtherText(o, t) PROVE OtherText(w, t)
    OBVIOUS
  <2>1. PICK j \in 1 .. Len(o) : o[j].kind = "delta" /\ o[j].text # t
    BY DEF OtherText
  <2>2. PICK i \in 1 .. Len(w) : w[i] = o[j]
    BY <1>7, <2>1
  <2> QED BY <2>1, <2>2 DEF OtherText
<1> QED BY <1>8, <1>9 DEF k, p, w, o

\* Only a final ends up as one.
LEMMA FinalAppended ==
  ASSUME NEW s \in Seq(Frames), NEW f \in Frames, f.kind # "final", FinalIn(Append(s, f))
  PROVE  FinalIn(s)
PROOF
<1>1. PICK i \in 1 .. Len(Append(s, f)) : Append(s, f)[i].kind = "final"
  BY DEF FinalIn
<1>2. /\ Len(s) \in Nat /\ Len(Append(s, f)) = Len(s) + 1
      /\ \A j \in 1 .. Len(s) : Append(s, f)[j] = s[j]
      /\ Append(s, f)[Len(s) + 1] = f
  BY AppendIndexes
<1>3. i # Len(s) + 1
  BY <1>1, <1>2
<1>4. i \in 1 .. Len(s)
  BY <1>2, <1>3
<1> QED BY <1>1, <1>2, <1>4 DEF FinalIn

\* The pair of an error is no final.
LEMMA ErrorIsNoFinal ==
  ASSUME NEW s \in Seq(Frames), NEW q \in Seq(Frames), NEW n \in Nat, NoEnd(s), NoEnd(q)
  PROVE  ~FinalIn(s \o (SubSeq(q, n + 1, Len(q)) \o <<Event("error"), Event("done")>>))
PROOF
<1> DEFINE k == SubSeq(q, n + 1, Len(q))
           p == <<Event("error"), Event("done")>>
           w == s \o (k \o p)
<1>1. k \in Seq(Frames) /\ p \in Seq(Frames)
  BY FrameTypes DEF EventKinds, Terminals
<1>2. Len(p) = 2 /\ p[1].kind # "final" /\ p[2].kind # "final"
  BY DEF Event
<1>3. \A i \in 1 .. Len(k) : k[i] = q[n + i] /\ n + i \in 1 .. Len(q)
  OBVIOUS
<1>4. /\ \A i \in 1 .. Len(k) : (k \o p)[i] = k[i]
      /\ \A i \in 1 .. Len(p) : (k \o p)[Len(k) + i] = p[i]
      /\ k \o p \in Seq(Frames) /\ Len(k \o p) = Len(k) + Len(p)
      /\ Len(k) \in Nat
  <2> HIDE DEF k, p
  <2> QED BY <1>1, JoinIndexes
<1>5. /\ \A i \in 1 .. Len(s) : w[i] = s[i]
      /\ \A i \in 1 .. Len(k \o p) : w[Len(s) + i] = (k \o p)[i]
      /\ Len(w) = Len(s) + Len(k \o p) /\ Len(s) \in Nat
  <2>1. k \o p \in Seq(Frames)
    BY <1>4
  <2> HIDE DEF k, p
  <2> QED BY <2>1, JoinIndexes
<1> HIDE DEF k, p, w
<1>6. ASSUME NEW i \in 1 .. Len(w)
      PROVE  w[i].kind # "final"
  <2>0. Len(w) = Len(s) + (Len(k) + 2)
    BY <1>2, <1>4, <1>5
  <2>1. CASE i <= Len(s)
    <3>1. w[i] = s[i] /\ i \in 1 .. Len(s)
      BY <1>5, <2>1
    <3> QED BY <3>1 DEF NoEnd, EndKinds, Terminals
  <2>2. CASE i > Len(s)
    <3>1. PICK d \in 1 .. Len(k) + 2 : i = Len(s) + d
      <4>1. i - Len(s) \in 1 .. Len(k) + 2 /\ i = Len(s) + (i - Len(s))
        BY <1>4, <1>5, <2>0, <2>2
      <4> QED BY <4>1
    <3>2. w[i] = (k \o p)[d]
      BY <1>2, <1>4, <1>5, <3>1
    <3>3. CASE d \in 1 .. Len(k)
      <4>1. w[i] = q[n + d] /\ n + d \in 1 .. Len(q)
        BY <1>3, <1>4, <3>2, <3>3
      <4> QED BY <4>1 DEF NoEnd, EndKinds, Terminals
    <3>4. CASE d = Len(k) + 1 \/ d = Len(k) + 2
      BY <1>2, <1>4, <3>2, <3>4
    <3> QED BY <1>4, <3>3, <3>4
  <2> QED BY <1>5, <2>0, <2>1, <2>2
<1>7. ~FinalIn(w)
  BY <1>6 DEF FinalIn
<1> QED BY <1>7 DEF k, p, w

\* Every piece of the log of a stream comes before the final.
LEMMA FinalIsLast ==
  ASSUME NEW s \in Seq(Frames), NEW q \in Seq(Frames), FinalIn(s), EndedOnce(s \o q)
  PROVE  /\ FinalIn(s \o q)
         /\ \A i \in 1 .. Len(s) : i \in 1 .. Len(s \o q) /\ (s \o q)[i] = s[i]
         /\ \A i \in 1 .. Len(s \o q) : (s \o q)[i].kind = "delta" => i \in 1 .. Len(s)
PROOF
<1> DEFINE l == s \o q
<1>1. /\ Len(s) \in Nat /\ Len(q) \in Nat /\ Len(l) = Len(s) + Len(q)
      /\ \A i \in 1 .. Len(s) : l[i] = s[i]
  BY JoinIndexes
<1> HIDE DEF l
<1>2. \A i \in 1 .. Len(s) : i \in 1 .. Len(l) /\ l[i] = s[i]
  BY <1>1
<1>3. PICK f \in 1 .. Len(s) : s[f].kind = "final"
  BY DEF FinalIn
<1>4. f \in 1 .. Len(l) /\ l[f].kind = "final"
  BY <1>2, <1>3
<1>5. f + 1 = Len(l) /\ l[f + 1].kind = "done"
  <2>1. EndedOnce(l)
    BY DEF l
  <2> QED BY <1>4, <2>1 DEF EndedOnce, Terminals
<1>6. ASSUME NEW i \in 1 .. Len(l), l[i].kind = "delta"
      PROVE  i \in 1 .. Len(s)
  <2>1. i # f + 1
    BY <1>5, <1>6
  <2>2. i <= f
    BY <1>1, <1>5, <2>1
  <2> QED BY <1>1, <2>2
<1>7. FinalIn(l)
  BY <1>4 DEF FinalIn
<1> QED BY <1>2, <1>6, <1>7 DEF l

-----------------------------------------------------------------------------
(* Where a message is.                                                       *)

Within(s, x) == \E i \in 1 .. Len(s) : s[i] = x
Once(s) == \A i, j \in 1 .. Len(s) : s[i] = s[j] => i = j

\* The message of the request is not on its way any more.
Gone(r) == ~Within(inbox, r) /\ r \notin parked /\ turn # r

\* The message of a request is in the inbound queue, put off or in hand, in
\* one of them and once; it gets there when its thread has put it there, and
\* when its stream has got a final it is gone for good.
PlaceOK(r) ==
  /\ Within(inbox, r) => r \notin parked /\ turn # r
  /\ r \in parked => turn # r
  /\ http[r] \in NotOpen \cup {"opened"} => Gone(r) /\ ~FinalIn(Log(r))
  /\ FinalIn(Log(r)) => Gone(r)
PlaceInv == Once(inbox) /\ \A r \in Requests : PlaceOK(r)

\* A message joins the end of the queue.
LEMMA InboxGrows ==
  ASSUME NEW s \in Seq(Requests), NEW x \in Requests, Once(s), ~Within(s, x)
  PROVE  /\ Once(Append(s, x))
         /\ \A q : Within(Append(s, x), q) <=> Within(s, q) \/ q = x
PROOF
<1> DEFINE a == Append(s, x)
<1>1. /\ Len(s) \in Nat /\ Len(a) = Len(s) + 1
      /\ \A i \in 1 .. Len(s) : a[i] = s[i]
      /\ a[Len(s) + 1] = x
  BY AppendIndexes
<1> HIDE DEF a
<1>2. \A i \in 1 .. Len(a) : i \in 1 .. Len(s) \/ i = Len(s) + 1
  BY <1>1
<1>3. 1 .. Len(s) \subseteq 1 .. Len(a) /\ Len(s) + 1 \in 1 .. Len(a)
  BY <1>1
<1>4. ASSUME NEW i \in 1 .. Len(a), NEW j \in 1 .. Len(a), a[i] = a[j]
      PROVE  i = j
  <2>1. CASE i \in 1 .. Len(s) /\ j \in 1 .. Len(s)
    BY <1>1, <1>4, <2>1 DEF Once
  <2>2. CASE i \in 1 .. Len(s) /\ j = Len(s) + 1
    BY <1>1, <1>4, <2>2 DEF Within
  <2>3. CASE i = Len(s) + 1 /\ j \in 1 .. Len(s)
    BY <1>1, <1>4, <2>3 DEF Within
  <2> QED BY <1>2, <2>1, <2>2, <2>3
<1>5. ASSUME NEW q PROVE Within(a, q) <=> Within(s, q) \/ q = x
  BY <1>1, <1>2, <1>3 DEF Within
<1>6. Once(a)
  BY <1>4 DEF Once
<1> QED BY <1>5, <1>6 DEF a

\* The message at its head leaves the queue.
LEMMA InboxShrinks ==
  ASSUME NEW s \in Seq(Requests), s # <<>>, Once(s)
  PROVE  /\ Once(Tail(s)) /\ Head(s) \in Requests
         /\ Within(s, Head(s)) /\ ~Within(Tail(s), Head(s))
         /\ \A q : Within(Tail(s), q) => Within(s, q)
PROOF
<1> DEFINE l == Tail(s)
<1>1. /\ Len(s) \in Nat /\ Len(s) >= 1 /\ Len(l) = Len(s) - 1
      /\ \A i \in 1 .. Len(l) : l[i] = s[i + 1]
      /\ Head(s) = s[1] /\ Head(s) \in Requests
  OBVIOUS
<1> HIDE DEF l
<1>2. \A i \in 1 .. Len(l) : i + 1 \in 1 .. Len(s) /\ i + 1 # 1
  BY <1>1
<1>3. 1 \in 1 .. Len(s)
  BY <1>1
<1>4. Once(l)
  <2> SUFFICES ASSUME NEW i \in 1 .. Len(l), NEW j \in 1 .. Len(l), l[i] = l[j]
               PROVE  i = j
    BY DEF Once
  <2>1. s[i + 1] = s[j + 1]
    BY <1>1
  <2>2. i + 1 = j + 1
    BY <1>2, <2>1 DEF Once
  <2> QED BY <1>1, <2>2
<1>5. \A q : Within(l, q) => Within(s, q)
  BY <1>1, <1>2 DEF Within
<1>6. Within(s, Head(s))
  BY <1>1, <1>3 DEF Within
<1>7. ~Within(l, Head(s))
  BY <1>1, <1>2, <1>3 DEF Within, Once
<1> QED BY <1>1, <1>4, <1>5, <1>6, <1>7 DEF l

-----------------------------------------------------------------------------
(* What the steps do to the logs.                                            *)

\* A log is made of frames.
LEMMA LogIsTyped ==
  ASSUME TypeOK, NEW q \in Requests
  PROVE  Log(q) \in Seq(Frames) /\ seen[q] \in Seq(Frames) /\ frames[q] \in Seq(Frames)
PROOF
  BY DEF TypeOK, Log

\* A log nothing happens to.
LEMMA LogKept ==
  ASSUME NEW q, frames'[q] = frames[q], seen'[q] = seen[q]
  PROVE  Log(q)' = Log(q)
PROOF
  BY DEF Log

\* What is pushed to a queue is at the end of its log.
LEMMA LogPushed ==
  ASSUME TypeOK, NEW r \in Requests, NEW f \in Frames, Push(r, f), UNCHANGED seen
  PROVE  /\ Log(r)' = Append(Log(r), f)
         /\ \A q \in Requests : q # r => Log(q)' = Log(q)
PROOF
<1>1. /\ frames \in [Requests -> Seq(Frames)] /\ seen[r] \in Seq(Frames) /\ frames[r] \in Seq(Frames)
      /\ frames' = [frames EXCEPT ![r] = Append(@, f)]
  BY DEF TypeOK, Push
<1>2. frames'[r] = Append(frames[r], f) /\ seen'[r] = seen[r]
  BY <1>1
<1>3. Log(r)' = seen[r] \o Append(frames[r], f)
  BY <1>2 DEF Log
<1>4. Log(r)' = Append(Log(r), f)
  BY <1>1, <1>3, LogGrows DEF Log
<1>5. \A q \in Requests : q # r => frames'[q] = frames[q] /\ seen'[q] = seen[q]
  BY <1>1
<1> QED BY <1>4, <1>5, LogKept

\* A pair is pushed to a queue that takes it.
LEMMA LogPaired ==
  ASSUME TypeOK, NEW r \in Requests, NEW kind \in Terminals, PushPair(r, kind), UNCHANGED seen
  PROVE  /\ \A q \in Requests : q # r => Log(q)' = Log(q)
         /\ closed[r] => Log(r)' = Log(r)
         /\ Evicted(r) \in Nat
         /\ ~closed[r] =>
              Log(r)' = seen[r] \o (SubSeq(frames[r], Evicted(r) + 1, Len(frames[r]))
                                      \o <<Event(kind), Event("done")>>)
PROOF
<1>1. frames \in [Requests -> Seq(Frames)] /\ frames[r] \in Seq(Frames)
  BY DEF TypeOK
<1>2. Evicted(r) \in Nat
  BY <1>1, BrokerAssumption DEF Evicted
<1>3. CASE closed[r]
  <2>1. \A q \in Requests : frames'[q] = frames[q] /\ seen'[q] = seen[q]
    BY <1>3 DEF PushPair
  <2> QED BY <1>2, <1>3, <2>1, LogKept
<1>4. CASE ~closed[r]
  <2>1. frames' = [frames EXCEPT ![r] =
             SubSeq(@, Evicted(r) + 1, Len(@)) \o <<Event(kind), Event("done")>>]
    BY <1>4 DEF PushPair
  <2>2. \A q \in Requests : q # r => frames'[q] = frames[q] /\ seen'[q] = seen[q]
    BY <1>1, <2>1
  <2>3. frames'[r] = SubSeq(frames[r], Evicted(r) + 1, Len(frames[r])) \o <<Event(kind), Event("done")>>
    BY <1>1, <2>1
  <2>4. Log(r)' = seen[r] \o (SubSeq(frames[r], Evicted(r) + 1, Len(frames[r]))
                                      \o <<Event(kind), Event("done")>>)
    BY <2>3 DEF Log
  <2> QED BY <1>2, <1>4, <2>2, <2>4, LogKept
<1> QED BY <1>3, <1>4

\* An error brings no final.
LEMMA LogErred ==
  ASSUME TypeOK, NEW r \in Requests, QueueOK(r), PushPair(r, "error"), UNCHANGED seen
  PROVE  FinalIn(Log(r)') => closed[r] /\ Log(r)' = Log(r)
PROOF
<1>1. CASE closed[r]
  BY <1>1, LogPaired DEF Terminals
<1>2. CASE ~closed[r]
  <2>1. NoEnd(seen[r]) /\ NoEnd(frames[r]) /\ seen[r] \in Seq(Frames) /\ frames[r] \in Seq(Frames)
    BY <1>2, LogIsTyped DEF QueueOK
  <2>2. /\ Evicted(r) \in Nat
        /\ Log(r)' = seen[r] \o (SubSeq(frames[r], Evicted(r) + 1, Len(frames[r]))
                                   \o <<Event("error"), Event("done")>>)
    BY <1>2, LogPaired DEF Terminals
  <2> QED BY <2>1, <2>2, ErrorIsNoFinal
<1> QED BY <1>1, <1>2

\* The threads of the requests change their own logs only, and bring no final.
LEMMA HttpLogs ==
  ASSUME TypeOK, \A q \in Requests : QueueOK(q), NEW r \in Requests, Open(r) \/ HttpStep(r)
  PROVE  /\ \A q \in Requests : q # r => Log(q)' = Log(q)
         /\ \A q \in Requests : FinalIn(Log(q)') => FinalIn(Log(q))
PROOF
<1>1. CASE \/ Open(r) \/ Enqueue(r) \/ LookUpQueued(r) \/ RemoveOnError(r)
           \/ RecvClosed(r) \/ Wait(r) \/ RecvTimesOut(r)
  <2>1. UNCHANGED <<frames, seen>>
    BY <1>1 DEF Open, Enqueue, LookUpQueued, RemoveOnError, RecvClosed, Wait, RecvTimesOut, brokerVars
  <2>2. \A q \in Requests : Log(q)' = Log(q)
    BY <2>1, LogKept
  <2> QED BY <2>2
<1>2. CASE PushQueued(r)
  <2>1. Event("queued") \in Frames /\ Event("queued").kind # "final" /\ UNCHANGED seen
    BY <1>2, FrameTypes DEF EventKinds, Event, PushQueued
  <2>2. CASE CanPush(r)
    <3>1. /\ Log(r)' = Append(Log(r), Event("queued"))
          /\ \A q \in Requests : q # r => Log(q)' = Log(q)
      BY <1>2, <2>1, <2>2, LogPushed DEF PushQueued
    <3>2. FinalIn(Log(r)') => FinalIn(Log(r))
      BY <2>1, <3>1, FinalAppended, LogIsTyped
    <3> QED BY <3>1, <3>2
  <2>3. CASE ~CanPush(r)
    <3>1. \A q \in Requests : Log(q)' = Log(q)
      BY <1>2, <2>1, <2>3, LogKept DEF PushQueued
    <3> QED BY <3>1
  <2> QED BY <2>2, <2>3
<1>3. CASE PushErrorPair(r)
  <2>1. PushPair(r, "error") /\ UNCHANGED seen
    BY <1>3 DEF PushErrorPair
  <2>2. \A q \in Requests : q # r => Log(q)' = Log(q)
    BY <2>1, LogPaired DEF Terminals
  <2>3. FinalIn(Log(r)') => FinalIn(Log(r))
    BY <2>1, LogErred
  <2> QED BY <2>2, <2>3
<1>4. CASE RecvFrame(r)
  <2>1. /\ frames \in [Requests -> Seq(Frames)] /\ seen \in [Requests -> Seq(Frames)]
        /\ frames[r] \in Seq(Frames) /\ seen[r] \in Seq(Frames)
    BY DEF TypeOK
  <2>2. /\ frames[r] # <<>>
        /\ frames' = [frames EXCEPT ![r] = Tail(@)]
        /\ seen' = [seen EXCEPT ![r] = Append(@, Head(frames[r]))]
    BY <1>4 DEF RecvFrame
  <2>3. frames'[r] = Tail(frames[r]) /\ seen'[r] = Append(seen[r], Head(frames[r]))
    BY <2>1, <2>2
  <2>4. Log(r)' = Log(r)
    BY <2>1, <2>2, <2>3, ReadKeepsLog DEF Log
  <2>5. \A q \in Requests : q # r => Log(q)' = Log(q)
    BY <2>1, <2>2, LogKept
  <2> QED BY <2>4, <2>5
<1>5. CASE Unregister(r)
  <2>1. /\ frames \in [Requests -> Seq(Frames)] /\ seen \in [Requests -> Seq(Frames)]
    BY DEF TypeOK
  <2>2. frames'[r] = <<>> /\ seen'[r] = <<>>
    BY <1>5, <2>1 DEF Unregister
  <2>3. ~FinalIn(Log(r)')
    BY <2>2 DEF Log, FinalIn
  <2>4. \A q \in Requests : q # r => Log(q)' = Log(q)
    BY <1>5, <2>1, LogKept DEF Unregister
  <2> QED BY <2>3, <2>4
<1> QED BY <1>1, <1>2, <1>3, <1>4, <1>5 DEF HttpStep

\* The agent changes the log of its turn only, and brings a final with the
\* pair that ends the turn.
LEMMA AgentLogs ==
  ASSUME TypeOK, \A q \in Requests : QueueOK(q), AgentStep
  PROVE  /\ \A q \in Requests : q # turn => Log(q)' = Log(q)
         /\ \A q \in Requests : ~PushFinal /\ FinalIn(Log(q)') => FinalIn(Log(q))
PROOF
<1>0. UNCHANGED seen
  BY DEF AgentStep, Take, GiveUp, PutOff, DelayedRuns, Admit, Piece, PushDelta, NextRound, ReplyFromRound,
         ReplyRewritten, Silent, Retry, Fail, RemoveForError, PushAgentError, LookUpFinal,
         PushRest, RemoveForFinal, PushFinal, httpVars
<1>1. ASSUME UNCHANGED frames
      PROVE  \A q \in Requests : Log(q)' = Log(q)
  BY <1>0, <1>1, LogKept
<1>2. CASE \/ Take \/ GiveUp \/ PutOff \/ DelayedRuns \/ Admit \/ Piece \/ NextRound \/ ReplyFromRound
           \/ ReplyRewritten \/ Silent \/ Retry \/ Fail \/ RemoveForError \/ LookUpFinal
           \/ RemoveForFinal
  <2>1. UNCHANGED frames
    BY <1>2 DEF Take, GiveUp, PutOff, DelayedRuns, Admit, Piece, NextRound, ReplyFromRound, ReplyRewritten,
         Silent, Retry, Fail, RemoveForError, LookUpFinal, RemoveForFinal, brokerVars, httpVars
  <2> QED BY <1>1, <2>1
<1>3. ASSUME NEW f \in Frames, f.kind = "delta", Push(turn, f), turn \in Requests
      PROVE  /\ \A q \in Requests : q # turn => Log(q)' = Log(q)
             /\ \A q \in Requests : FinalIn(Log(q)') => FinalIn(Log(q))
  <2>1. PICK r \in Requests : r = turn
    BY <1>3
  <2>2. Push(r, f)
    BY <1>3, <2>1
  <2>3. Log(r)' = Append(Log(r), f) /\ \A q \in Requests : q # r => Log(q)' = Log(q)
    BY <1>0, <2>2, LogPushed
  <2>4. FinalIn(Log(r)') => FinalIn(Log(r))
    BY <1>3, <2>3, FinalAppended, LogIsTyped
  <2> QED BY <2>1, <2>3, <2>4
<1>4. CASE PushDelta
  <2>1. /\ Delta(texts[turn], acc) \in Frames /\ Delta(texts[turn], acc).kind = "delta"
        /\ turn \in Requests
    BY <1>4, TurnTypes, FrameTypes DEF PushDelta, TypeOK
  <2>2. CASE CanPush(turn)
    <3>1. Push(turn, Delta(texts[turn], acc))
      BY <1>4, <2>2 DEF PushDelta
    <3> QED BY <1>3, <2>1, <3>1
  <2>3. CASE ~CanPush(turn)
    BY <1>1, <1>4, <2>3 DEF PushDelta
  <2> QED BY <2>2, <2>3
<1>5. CASE PushRest
  <2>1. /\ Delta(reply[turn].text, nextAt) \in Frames
        /\ Delta(reply[turn].text, nextAt).kind = "delta"
        /\ turn \in Requests
    BY <1>5, TurnTypes, FrameTypes DEF PushRest, TypeOK
  <2>2. CASE CanPush(turn)
    <3>1. Push(turn, Delta(reply[turn].text, nextAt))
      BY <1>5, <2>2 DEF PushRest
    <3> QED BY <1>3, <2>1, <3>1
  <2>3. CASE ~CanPush(turn)
    BY <1>1, <1>5, <2>3 DEF PushRest
  <2> QED BY <2>2, <2>3
<1>6. CASE PushAgentError
  <2>1. turn \in Requests
    BY <1>6, TurnTypes DEF PushAgentError
  <2>2. PICK r \in Requests : r = turn
    BY <2>1
  <2>3. PushPair(r, "error")
    BY <1>6, <2>2 DEF PushAgentError
  <2>4. \A q \in Requests : q # r => Log(q)' = Log(q)
    BY <1>0, <2>3, LogPaired DEF Terminals
  <2>5. FinalIn(Log(r)') => FinalIn(Log(r))
    BY <1>0, <2>3, LogErred
  <2> QED BY <2>2, <2>4, <2>5
<1>7. CASE PushFinal
  <2>1. turn \in Requests
    BY <1>7, TurnTypes DEF PushFinal
  <2>2. PICK r \in Requests : r = turn
    BY <2>1
  <2>3. PushPair(r, "final")
    BY <1>7, <2>2 DEF PushFinal
  <2>4. \A q \in Requests : q # r => Log(q)' = Log(q)
    BY <1>0, <2>3, LogPaired DEF Terminals
  <2> QED BY <1>7, <2>2, <2>4
<1> QED BY <1>2, <1>4, <1>5, <1>6, <1>7 DEF AgentStep

-----------------------------------------------------------------------------
(* Places.                                                                   *)

\* A request whose place is the same, or gone.
LEMMA PlaceFollows ==
  ASSUME NEW q \in Requests, PlaceOK(q), http'[q] = http[q],
         Gone(q) => Gone(q)',
         Within(inbox', q) => q \notin parked' /\ turn' # q,
         q \in parked' => turn' # q,
         FinalIn(Log(q)') => FinalIn(Log(q)) \/ (turn = q /\ Gone(q)')
  PROVE  PlaceOK(q)'
PROOF
<1>1. CASE http[q] \in NotOpen \cup {"opened"}
  <2>1. Gone(q) /\ ~FinalIn(Log(q)) /\ turn # q
    BY <1>1 DEF PlaceOK, Gone
  <2>2. Gone(q)' /\ ~FinalIn(Log(q)')
    BY <2>1
  <2> QED BY <2>2 DEF PlaceOK
<1>2. CASE http[q] \notin NotOpen \cup {"opened"}
  <2>1. FinalIn(Log(q)') => Gone(q)'
    BY DEF PlaceOK
  <2> QED BY <1>2, <2>1 DEF PlaceOK
<1> QED BY <1>1, <1>2

\* The steps of the requests' threads.
LEMMA HttpPlacesKept ==
  ASSUME TypeOK, PlaceInv, \A q \in Requests : QueueOK(q),
         NEW r \in Requests, Open(r) \/ HttpStep(r), UNCHANGED agentVars
  PROVE  PlaceInv'
PROOF
<1>0. /\ UNCHANGED <<turn, parked>> /\ http \in [Requests -> HttpPlaces]
      /\ inbox \in Seq(Requests)
  BY DEF agentVars, turnVars, recordVars, TypeOK
<1>1. \A q \in Requests : FinalIn(Log(q)') => FinalIn(Log(q))
  BY HttpLogs
<1>2. \A q \in Requests : PlaceOK(q)
  BY DEF PlaceInv
<1>3. CASE Enqueue(r) /\ inbox' # inbox
  <2>1. http[r] = "opened" /\ inbox' = Append(inbox, r) /\ http' = [http EXCEPT ![r] = "queued"]
    BY <1>3 DEF Enqueue, HttpGoTo
  <2>2. Gone(r) /\ ~FinalIn(Log(r))
    BY <1>2, <2>1 DEF PlaceOK
  <2>3. /\ Once(inbox')
        /\ \A q : Within(inbox', q) <=> Within(inbox, q) \/ q = r
    BY <1>0, <2>1, <2>2, InboxGrows DEF PlaceInv, Gone
  <2>4. ASSUME NEW q \in Requests, q # r PROVE PlaceOK(q)'
    <3>1. http'[q] = http[q]
      BY <1>0, <2>1, <2>4
    <3>2. (Within(inbox', q) <=> Within(inbox, q)) /\ PlaceOK(q)
      BY <1>2, <2>3, <2>4
    <3>3. Gone(q) => Gone(q)'
      BY <1>0, <3>2 DEF Gone
    <3>4. Within(inbox', q) => q \notin parked' /\ turn' # q
      BY <1>0, <3>2 DEF PlaceOK
    <3>5. q \in parked' => turn' # q
      BY <1>0, <3>2 DEF PlaceOK
    <3> QED BY <1>1, <3>1, <3>2, <3>3, <3>4, <3>5, PlaceFollows
  <2>5. PlaceOK(r)'
    <3>1. r \notin parked' /\ turn' # r
      BY <1>0, <2>2 DEF Gone
    <3>2. ~FinalIn(Log(r)')
      BY <1>1, <2>2
    <3>3. http'[r] = "queued"
      BY <1>0, <2>1
    <3> QED BY <3>1, <3>2, <3>3 DEF PlaceOK, NotOpen
  <2> QED BY <2>3, <2>4, <2>5 DEF PlaceInv
<1>4. CASE ~(Enqueue(r) /\ inbox' # inbox)
  <2>1. inbox' = inbox
    BY <1>4 DEF Open, HttpStep, Enqueue, LookUpQueued, PushQueued, RemoveOnError, PushErrorPair,
         RecvFrame, RecvClosed, Wait, RecvTimesOut, Unregister
  <2>2. \A q \in Requests : q # r => http'[q] = http[q]
    BY <1>0 DEF Open, HttpStep, Enqueue, LookUpQueued, PushQueued, RemoveOnError, PushErrorPair,
         RecvFrame, RecvClosed, Wait, RecvTimesOut, Unregister, HttpGoTo
  <2>3. \A q \in Requests : Gone(q)' <=> Gone(q)
    BY <1>0, <2>1 DEF Gone
  <2>4. http'[r] \in NotOpen \cup {"opened"} => http[r] \in NotOpen \cup {"opened"}
    BY <1>0 DEF Open, HttpStep, Enqueue, LookUpQueued, PushQueued, RemoveOnError, PushErrorPair,
         RecvFrame, RecvClosed, Wait, RecvTimesOut, Unregister, HttpGoTo, NotOpen
  <2>5. \A q \in Requests : PlaceOK(q)'
    BY <1>0, <1>1, <1>2, <2>1, <2>2, <2>3, <2>4 DEF PlaceOK
  <2> QED BY <2>1, <2>5 DEF PlaceInv
<1> QED BY <1>3, <1>4

\* The steps of the agent.
LEMMA AgentPlacesKept ==
  ASSUME TypeOK, PlaceInv, \A q \in Requests : QueueOK(q), AgentStep
  PROVE  PlaceInv'
PROOF
<1>0. /\ inbox \in Seq(Requests) /\ Once(inbox) /\ \A q \in Requests : PlaceOK(q)
      /\ NoRequest \notin Requests /\ (agent # "idle" => turn \in Requests)
      /\ (agent = "idle" => turn = NoRequest) /\ parked \subseteq Requests
  BY TurnTypes, AgentAssumption DEF PlaceInv, TypeOK
<1>1. UNCHANGED http
  BY DEF AgentStep, Take, GiveUp, PutOff, DelayedRuns, Admit, Piece, PushDelta, NextRound, ReplyFromRound,
         ReplyRewritten, Silent, Retry, Fail, RemoveForError, PushAgentError, LookUpFinal,
         PushRest, RemoveForFinal, PushFinal, httpVars
\* What is to be shown of the message of each request.
<1>2. ASSUME Once(inbox'),
             \A q \in Requests :
               /\ Gone(q) => Gone(q)'
               /\ Within(inbox', q) => q \notin parked' /\ turn' # q
               /\ q \in parked' => turn' # q
               /\ FinalIn(Log(q)') => FinalIn(Log(q)) \/ (turn = q /\ Gone(q)')
      PROVE  PlaceInv'
  <2>1. \A q \in Requests : PlaceOK(q)'
    BY <1>0, <1>1, <1>2, PlaceFollows
  <2> QED BY <1>2, <2>1 DEF PlaceInv
<1>3. ~PushFinal => \A q \in Requests : FinalIn(Log(q)') => FinalIn(Log(q))
  BY AgentLogs
<1>4. CASE Take
  <2>1. /\ agent = "idle" /\ inbox # <<>> /\ inbox' = Tail(inbox) /\ turn' = Head(inbox)
        /\ parked' = parked
    BY <1>4 DEF Take
  <2>2. /\ Once(Tail(inbox)) /\ Head(inbox) \in Requests
        /\ Within(inbox, Head(inbox)) /\ ~Within(Tail(inbox), Head(inbox))
        /\ \A q : Within(Tail(inbox), q) => Within(inbox, q)
    BY <1>0, <2>1, InboxShrinks
  <2>3. ~PushFinal
    BY <2>1 DEF PushFinal
  <2>4. ASSUME NEW q \in Requests
        PROVE  /\ Gone(q) => Gone(q)'
               /\ Within(inbox', q) => q \notin parked' /\ turn' # q
               /\ q \in parked' => turn' # q
               /\ FinalIn(Log(q)') => FinalIn(Log(q))
    BY <1>0, <1>3, <2>1, <2>2, <2>3 DEF PlaceOK, Gone
  <2> QED BY <1>2, <2>1, <2>2, <2>4
<1>5. CASE PutOff \/ Retry
  <2>1. /\ agent \in {"admit", "llm"} /\ turn \in Requests /\ turn' = NoRequest /\ ~PushFinal
        /\ \/ inbox' = Append(inbox, turn) /\ parked' = parked
           \/ inbox' = inbox /\ parked' \in {parked, parked \cup {turn}}
    BY <1>0, <1>5 DEF PutOff, Retry, Forget, PushFinal
  <2>2. /\ Once(Append(inbox, turn))
        /\ \A q : Within(Append(inbox, turn), q) <=> Within(inbox, q) \/ q = turn
    BY <1>0, <2>1, InboxGrows DEF PlaceOK
  <2>3. ASSUME NEW q \in Requests
        PROVE  /\ Gone(q) => Gone(q)'
               /\ Within(inbox', q) => q \notin parked' /\ turn' # q
               /\ q \in parked' => turn' # q
               /\ FinalIn(Log(q)') => FinalIn(Log(q))
    BY <1>0, <1>3, <2>1, <2>2 DEF PlaceOK, Gone
  <2> QED BY <1>0, <1>2, <2>1, <2>2, <2>3
<1>6. CASE DelayedRuns
  <2>1. PICK r \in parked : inbox' = Append(inbox, r) /\ parked' = parked \ {r}
    BY <1>6 DEF DelayedRuns
  <2>2. turn' = turn /\ r \in Requests
    BY <1>0, <1>6 DEF DelayedRuns, turnVars
  <2>3. frames' = frames /\ seen' = seen
    BY <1>6 DEF DelayedRuns, brokerVars
  <2>4. /\ Once(Append(inbox, r))
        /\ \A q : Within(Append(inbox, r), q) <=> Within(inbox, q) \/ q = r
    BY <1>0, <2>2, InboxGrows DEF PlaceOK
  <2>5. ASSUME NEW q \in Requests
        PROVE  /\ Gone(q) => Gone(q)'
               /\ Within(inbox', q) => q \notin parked' /\ turn' # q
               /\ q \in parked' => turn' # q
               /\ FinalIn(Log(q)') => FinalIn(Log(q))
    <3>1. Log(q)' = Log(q)
      BY <2>3, LogKept
    <3> QED BY <1>0, <2>1, <2>2, <2>4, <3>1 DEF PlaceOK, Gone
  <2> QED BY <1>2, <2>1, <2>4, <2>5
<1>7. CASE \/ GiveUp \/ Admit \/ Piece \/ PushDelta \/ NextRound \/ ReplyFromRound \/ ReplyRewritten
           \/ Silent \/ Fail \/ RemoveForError \/ PushAgentError \/ LookUpFinal \/ PushRest
           \/ RemoveForFinal
  <2>1. /\ inbox' = inbox /\ parked' = parked /\ (turn' = turn \/ turn' = NoRequest)
        /\ ~PushFinal
    BY <1>7 DEF GiveUp, Admit, Piece, PushDelta, NextRound, ReplyFromRound, ReplyRewritten, Silent, Fail,
         RemoveForError, PushAgentError, LookUpFinal, PushRest, RemoveForFinal, PushFinal,
         httpVars, recordVars, Forget, Completed, ErrorEnds
  <2>2. ASSUME NEW q \in Requests
        PROVE  /\ Gone(q) => Gone(q)'
               /\ Within(inbox', q) => q \notin parked' /\ turn' # q
               /\ q \in parked' => turn' # q
               /\ FinalIn(Log(q)') => FinalIn(Log(q))
    BY <1>0, <1>3, <2>1 DEF PlaceOK, Gone
  <2> QED BY <1>0, <1>2, <2>1, <2>2
<1>8. CASE PushFinal
  <2>1. /\ inbox' = inbox /\ parked' = parked /\ turn' = NoRequest /\ turn \in Requests
    BY <1>0, <1>8 DEF PushFinal, Completed, Forget, httpVars
  <2>2. \A q \in Requests : q # turn => Log(q)' = Log(q)
    BY AgentLogs
  <2>3. ASSUME NEW q \in Requests
        PROVE  /\ Gone(q) => Gone(q)'
               /\ Within(inbox', q) => q \notin parked' /\ turn' # q
               /\ q \in parked' => turn' # q
               /\ FinalIn(Log(q)') => FinalIn(Log(q)) \/ (turn = q /\ Gone(q)')
    BY <1>0, <2>1, <2>2 DEF PlaceOK, Gone
  <2> QED BY <1>0, <1>2, <2>1, <2>3
<1> QED BY <1>4, <1>5, <1>6, <1>7, <1>8 DEF AgentStep

-----------------------------------------------------------------------------
(* What was told of the texts.                                               *)

\* The log has the whole reply, or a piece of another text.
Shared(r) == OtherText(Log(r), reply[r].text) \/ Told(Log(r), reply[r].text, reply[r].len)

\* An open stream has counted what was pushed to it. emit_final does not count
\* the rest of the reply, after which the stream is taken out.
CountOK(r) ==
  r \in streams /\ ~(turn = r /\ agent \in {"final_push", "err_remove"}) =>
    Counted(Log(r), texts[r], sent[r])

\* What an open stream was told of the text in hand.
PhaseOK(r) ==
  turn = r /\ r \in streams =>
    /\ agent = "llm" => Told(Log(r), texts[r], acc)
    /\ agent = "delta" => acc >= 1 /\ Told(Log(r), texts[r], acc - 1)
    /\ agent = "final" =>
         reply[r].text = texts[r] /\ Told(Log(r), texts[r], acc) /\ acc <= reply[r].len
    /\ agent = "final_push" =>
         \/ OtherText(Log(r), reply[r].text)
         \/ nextAt \in 1 .. reply[r].len + 1 /\ Told(Log(r), reply[r].text, nextAt - 1)

\* Before the final is pushed the reply has been shared.
PairOK(r) ==
  turn = r /\ agent = "final_pair" /\ ~closed[r] /\ http[r] # "left" => Shared(r)

TextOK(r) ==
  /\ http[r] = "left" => seen[r] = <<>>
  /\ http[r] \in NotOpen => frames[r] = <<>> /\ seen[r] = <<>> /\ sent[r] = 0
  /\ http[r] # "left" /\ FinalIn(Log(r)) => r \in cut \/ Shared(r)
  /\ CountOK(r) /\ PhaseOK(r) /\ PairOK(r)

NoRound == agent \in {"idle", "admit"} => acc = 0

TextInv == NoRound /\ \A r \in Requests : TextOK(r)

\* A stream nothing happens to, whose turn, if it was, is over.
LEMMA TextKept ==
  ASSUME NEW q \in Requests, TextOK(q),
         frames'[q] = frames[q], seen'[q] = seen[q], sent'[q] = sent[q], closed'[q] = closed[q],
         http'[q] = http[q], texts'[q] = texts[q], reply'[q] = reply[q],
         q \in cut => q \in cut', q \in streams' => q \in streams,
         turn' # q, turn = q => agent \notin {"final_push", "err_remove"} \/ q \notin streams'
  PROVE  TextOK(q)'
PROOF
<1>1. Log(q)' = Log(q)
  BY LogKept
<1>2. Shared(q)' <=> Shared(q)
  BY <1>1 DEF Shared
<1>3. CountOK(q)'
  BY <1>1 DEF CountOK, TextOK
<1>4. PhaseOK(q)' /\ PairOK(q)'
  BY DEF PhaseOK, PairOK
<1> QED BY <1>1, <1>2, <1>3, <1>4 DEF TextOK

\* A stream whose reply has not been pushed has no final yet.
LEMMA TextFollows ==
  ASSUME NEW r \in Requests, TextOK(r), http[r] \notin NotOpen,
         http'[r] = http[r], seen'[r] = seen[r], ~FinalIn(Log(r)'),
         CountOK(r)', PhaseOK(r)', PairOK(r)'
  PROVE  TextOK(r)'
PROOF
  BY DEF TextOK

\* The steps of the requests' threads.
LEMMA HttpTexts ==
  ASSUME TypeOK, PlaceInv, TextInv, \A q \in Requests : StreamOK(q) /\ QueueOK(q),
         NEW r \in Requests, Open(r) \/ HttpStep(r), UNCHANGED agentVars
  PROVE  TextInv'
PROOF
<1>0. /\ UNCHANGED <<agent, turn, acc, nextAt, texts, reply, cut>>
      /\ http \in [Requests -> HttpPlaces] /\ closed \in [Requests -> BOOLEAN]
      /\ sent \in [Requests -> Nat] /\ texts \in [Requests -> Nat]
      /\ reply \in [Requests -> [text : Nat, len : Nat]] /\ acc \in Nat /\ nextAt \in Nat
      /\ TextOK(r) /\ StreamOK(r) /\ QueueOK(r) /\ PlaceOK(r)
  BY DEF agentVars, turnVars, recordVars, TypeOK, TextInv, PlaceInv
<1>1. NoRound'
  BY <1>0 DEF NoRound, TextInv
<1>2. ASSUME NEW q \in Requests, q # r
      PROVE  TextOK(q)'
  <2>1. /\ http'[q] = http[q] /\ closed'[q] = closed[q] /\ sent'[q] = sent[q]
        /\ q \in streams' <=> q \in streams
    <3>1. PushErrorPair(r) => closed' = [closed EXCEPT ![r] = TRUE]
      BY PairIsTyped DEF PushErrorPair, Terminals
    <3> QED BY <1>0, <1>2, <3>1 DEF Open, HttpStep, Enqueue, LookUpQueued, PushQueued, RemoveOnError,
          PushErrorPair, RecvFrame, RecvClosed, Wait, RecvTimesOut, Unregister, HttpGoTo, brokerVars,
          Register, Remove
  <2>2. frames'[q] = frames[q] /\ seen'[q] = seen[q]
    <3>1. frames \in [Requests -> Seq(Frames)] /\ seen \in [Requests -> Seq(Frames)]
      BY DEF TypeOK
    <3>2. PushErrorPair(r) => frames'[q] = frames[q]
      BY <1>2, <3>1 DEF PushErrorPair, PushPair
    <3> QED BY <1>2, <3>1, <3>2 DEF Open, HttpStep, Enqueue, LookUpQueued, PushQueued, RemoveOnError,
          PushErrorPair, RecvFrame, RecvClosed, Wait, RecvTimesOut, Unregister, brokerVars, Push
  <2>3. Log(q)' = Log(q)
    BY <2>2, LogKept
  <2> QED BY <1>0, <2>1, <2>2, <2>3 DEF TextInv, TextOK, CountOK, PhaseOK, PairOK, Shared
<1>3. ASSUME http[r] \notin NotOpen \cup {"left"}, http'[r] \notin NotOpen \cup {"left"},
             Log(r)' = Log(r), sent'[r] = sent[r], closed'[r] = closed[r],
             r \in streams' => r \in streams
      PROVE  TextOK(r)'
  BY <1>0, <1>3 DEF TextOK, CountOK, PhaseOK, PairOK, Shared
<1>4. ASSUME Open(r) PROVE TextOK(r)'
  <2>1. /\ frames[r] = <<>> /\ seen[r] = <<>> /\ sent[r] = 0 /\ turn # r
        /\ ~FinalIn(Log(r)) /\ http'[r] \in {"opened", "busy"}
        /\ UNCHANGED <<frames, seen, sent>>
    BY <1>0, <1>4 DEF Open, TextOK, PlaceOK, Gone, NotOpen, HttpGoTo
  <2>2. Log(r)' = Log(r)
    BY <2>1, LogKept
  <2>3. Log(r) = <<>>
    BY <2>1 DEF Log
  <2>4. Counted(<<>>, texts[r], 0)
    BY DEF Counted
  <2>5. CountOK(r)'
    BY <1>0, <2>1, <2>2, <2>3, <2>4 DEF CountOK
  <2> QED BY <1>0, <2>1, <2>2, <2>5 DEF TextOK, PhaseOK, PairOK
<1>5. ASSUME \/ Enqueue(r) \/ LookUpQueued(r) \/ RemoveOnError(r)
             \/ RecvClosed(r) \/ Wait(r) \/ RecvTimesOut(r)
      PROVE  TextOK(r)'
  <2>1. /\ http[r] \notin NotOpen \cup {"left"} /\ http'[r] \notin NotOpen \cup {"left"}
        /\ UNCHANGED <<frames, seen, sent, closed>> /\ streams' \subseteq streams
    BY <1>0, <1>5 DEF Enqueue, LookUpQueued, RemoveOnError, RecvClosed, Wait, RecvTimesOut, HttpGoTo,
         brokerVars, Remove, Receiving, NotOpen
  <2>2. Log(r)' = Log(r)
    BY <2>1, LogKept
  <2> QED BY <1>3, <2>1, <2>2
<1>6. ASSUME PushQueued(r) PROVE TextOK(r)'
  <2>1. /\ http[r] \notin NotOpen \cup {"left"} /\ http'[r] \notin NotOpen \cup {"left"}
        /\ UNCHANGED <<seen, sent, closed, streams>>
    BY <1>0, <1>6 DEF PushQueued, HttpGoTo, NotOpen
  <2>2. CASE ~CanPush(r)
    <3>1. Log(r)' = Log(r)
      BY <1>6, <2>1, <2>2, LogKept DEF PushQueued
    <3> QED BY <1>3, <2>1, <3>1
  <2>3. CASE CanPush(r)
    <3>1. Event("queued") \in Frames /\ Event("queued").kind = "queued"
      BY FrameTypes DEF EventKinds
    <3>2. Log(r)' = Append(Log(r), Event("queued")) /\ Log(r) \in Seq(Frames)
      BY <1>6, <2>1, <2>3, <3>1, LogPushed, LogIsTyped DEF PushQueued
    <3>3. FinalIn(Log(r)') => FinalIn(Log(r))
      BY <3>1, <3>2, FinalAppended
    <3>4. \A t \in Nat : OtherText(Log(r), t) => OtherText(Log(r)', t)
      BY <3>1, <3>2, OtherTextStays
    <3>5. \A t \in Nat, n \in Nat :
            /\ Told(Log(r), t, n) => Told(Log(r)', t, n)
            /\ Counted(Log(r), t, n) => Counted(Log(r)', t, n)
      BY <3>1, <3>2, EventKeepsText
    <3>6. texts[r] \in Nat /\ sent[r] \in Nat /\ reply[r].text \in Nat /\ reply[r].len \in Nat
      BY <1>0
    <3>7. Shared(r) => Shared(r)'
      BY <1>0, <3>4, <3>5, <3>6 DEF Shared
    <3>8. CountOK(r)'
      BY <1>0, <2>1, <3>5, <3>6 DEF CountOK, TextOK
    <3>9. PhaseOK(r)'
      <4> SUFFICES ASSUME turn = r, r \in streams PROVE PhaseOK(r)'
        BY <1>0, <2>1 DEF PhaseOK
      <4>1. agent = "delta" => acc - 1 \in Nat
        BY <1>0 DEF PhaseOK, TextOK
      <4>2. nextAt \in 1 .. reply[r].len + 1 => nextAt - 1 \in Nat
        BY <1>0
      <4> QED BY <1>0, <2>1, <3>4, <3>5, <3>6, <4>1, <4>2 DEF PhaseOK, TextOK
    <3>10. PairOK(r)'
      BY <1>0, <2>1, <3>7 DEF PairOK, TextOK
    <3> QED BY <1>0, <2>1, <3>3, <3>7, <3>8, <3>9, <3>10 DEF TextOK
  <2> QED BY <2>2, <2>3
<1>7. ASSUME PushErrorPair(r) PROVE TextOK(r)'
  <2>1. /\ http[r] \in {"refused_pair", "timeout_pair"} /\ http'[r] \notin NotOpen \cup {"left"}
        /\ UNCHANGED <<seen, sent, streams>> /\ PushPair(r, "error")
    BY <1>0, <1>7 DEF PushErrorPair, HttpGoTo, NotOpen
  <2>2. r \notin streams' /\ closed'[r]
    <3>1. closed' = [closed EXCEPT ![r] = TRUE]
      BY <2>1, PairIsTyped DEF Terminals
    <3> QED BY <1>0, <2>1, <3>1 DEF StreamOK
  <2>3. FinalIn(Log(r)') => Log(r)' = Log(r)
    BY <1>0, <2>1, LogErred
  <2>4. FinalIn(Log(r)') => r \in cut' \/ Shared(r)'
    BY <1>0, <2>1, <2>3 DEF TextOK, Shared
  <2> QED BY <2>1, <2>2, <2>4 DEF TextOK, CountOK, PhaseOK, PairOK
<1>8. ASSUME RecvFrame(r) PROVE TextOK(r)'
  <2>1. /\ http[r] \notin NotOpen \cup {"left"} /\ http'[r] \notin NotOpen \cup {"left"}
        /\ UNCHANGED <<sent, closed, streams>>
    BY <1>0, <1>8 DEF RecvFrame, HttpGoTo, NotOpen, Receiving
  <2>2. Log(r)' = Log(r)
    <3>1. /\ frames \in [Requests -> Seq(Frames)] /\ seen \in [Requests -> Seq(Frames)]
          /\ frames[r] \in Seq(Frames) /\ seen[r] \in Seq(Frames)
      BY DEF TypeOK
    <3>2. /\ frames[r] # <<>> /\ frames'[r] = Tail(frames[r])
          /\ seen'[r] = Append(seen[r], Head(frames[r]))
      BY <1>8, <3>1 DEF RecvFrame
    <3> QED BY <3>1, <3>2, ReadKeepsLog DEF Log
  <2> QED BY <1>3, <2>1, <2>2
<1>9. ASSUME Unregister(r) PROVE TextOK(r)'
  <2>1. http'[r] = "left" /\ r \notin streams'
    BY <1>0, <1>9 DEF Unregister, HttpGoTo, Remove
  <2>2. seen'[r] = <<>>
    BY <1>9 DEF Unregister, TypeOK
  <2> QED BY <2>1, <2>2 DEF TextOK, CountOK, PhaseOK, PairOK, NotOpen
<1>10. TextOK(r)'
  BY <1>4, <1>5, <1>6, <1>7, <1>8, <1>9 DEF HttpStep
<1> QED BY <1>1, <1>2, <1>10 DEF TextInv

\* The steps of the agent: the streams of others.
LEMMA AgentTouches ==
  ASSUME TypeOK, AgentStep
  PROVE  /\ UNCHANGED <<http, seen>> /\ streams' \subseteq streams
         /\ Take \/ turn' = turn \/ turn' = NoRequest
         /\ \A q \in Requests : q # turn =>
              /\ frames'[q] = frames[q] /\ sent'[q] = sent[q] /\ closed'[q] = closed[q]
              /\ texts'[q] = texts[q] /\ reply'[q] = reply[q] /\ (q \in cut => q \in cut')
PROOF
<1>0. /\ frames \in [Requests -> Seq(Frames)] /\ closed \in [Requests -> BOOLEAN]
      /\ sent \in [Requests -> Nat] /\ texts \in [Requests -> Nat]
      /\ reply \in [Requests -> [text : Nat, len : Nat]]
  BY DEF TypeOK
<1>1. CASE \/ Take \/ GiveUp \/ PutOff \/ DelayedRuns \/ Admit \/ Piece \/ NextRound
           \/ ReplyFromRound \/ ReplyRewritten \/ Silent \/ Retry \/ Fail
  <2>1. /\ UNCHANGED <<http, seen, streams, frames, closed, sent, cut>>
        /\ Take \/ turn' = turn \/ turn' = NoRequest
    BY <1>1 DEF Take, GiveUp, PutOff, DelayedRuns, Admit, Piece, NextRound, ReplyFromRound,
         ReplyRewritten, Silent, Retry, Fail, brokerVars, httpVars, turnVars, recordVars, Forget
  <2>2. \A q \in Requests : q # turn => texts'[q] = texts[q] /\ reply'[q] = reply[q]
    BY <1>0, <1>1 DEF Take, GiveUp, PutOff, DelayedRuns, Admit, Piece, NextRound, ReplyFromRound,
         ReplyRewritten, Silent, Retry, Fail, recordVars, NewText
  <2> QED BY <2>1, <2>2
<1>2. CASE PushDelta \/ PushRest
  <2>1. UNCHANGED <<http, seen, streams, closed, cut, texts, reply, turn>>
    BY <1>2 DEF PushDelta, PushRest, httpVars, recordVars
  <2>2. \A q \in Requests : q # turn => frames'[q] = frames[q] /\ sent'[q] = sent[q]
    BY <1>0, <1>2 DEF PushDelta, PushRest, Push, MarkSent
  <2> QED BY <2>1, <2>2
<1>3. CASE RemoveForError \/ LookUpFinal \/ RemoveForFinal
  <2>1. /\ UNCHANGED <<http, seen, closed, frames, sent, cut, texts, reply>>
        /\ streams' \subseteq streams /\ (turn' = turn \/ turn' = NoRequest)
    BY <1>3 DEF RemoveForError, LookUpFinal, RemoveForFinal, httpVars, brokerVars, recordVars, Remove,
         ErrorEnds, Completed, Forget
  <2> QED BY <2>1
<1>4. CASE PushAgentError \/ PushFinal
  <2>1. /\ UNCHANGED <<http, seen, streams, sent, texts, reply>> /\ cut \subseteq cut'
        /\ turn' = turn \/ turn' = NoRequest
    BY <1>4 DEF PushAgentError, PushFinal, httpVars, ErrorEnds, Completed, Forget
  <2>2. PushPair(turn, "error") \/ PushPair(turn, "final")
    BY <1>4 DEF PushAgentError, PushFinal
  <2>3. \A q \in Requests : q # turn => frames'[q] = frames[q] /\ closed'[q] = closed[q]
    BY <1>0, <2>2 DEF PushPair
  <2> QED BY <2>1, <2>3
<1> QED BY <1>1, <1>2, <1>3, <1>4 DEF AgentStep

\* The rounds of the LLM.
LEMMA RoundTexts ==
  ASSUME TypeOK, NEW r \in Requests, turn = r, TextOK(r), UNCHANGED seen,
         Admit \/ Piece \/ PushDelta \/ NextRound, NoRound
  PROVE  CountOK(r)' /\ PhaseOK(r)' /\ PairOK(r)'
PROOF
<1>0. /\ Log(r) \in Seq(Frames) /\ texts \in [Requests -> Nat] /\ sent \in [Requests -> Nat]
      /\ texts[r] \in Nat /\ sent[r] \in Nat /\ acc \in Nat
      /\ CountOK(r) /\ PhaseOK(r)
  BY LogIsTyped DEF TypeOK, TextOK
<1>1. CASE Admit \/ NextRound
  <2>1. /\ agent \in {"admit", "llm"} /\ agent' = "llm" /\ acc' = 0 /\ turn' = r
        /\ texts'[r] = texts[r] + 1
        /\ UNCHANGED <<streams, frames, sent>>
    BY <1>0, <1>1 DEF Admit, NextRound, NewText, NoRound, brokerVars
  <2>2. Log(r)' = Log(r)
    BY <2>1, LogKept
  <2>3. r \in streams => Told(Log(r), texts[r] + 1, 0) /\ Counted(Log(r), texts[r] + 1, sent[r])
    BY <1>0, <2>1, FreshText DEF CountOK
  <2> QED BY <2>1, <2>2, <2>3 DEF CountOK, PhaseOK, PairOK
<1>2. CASE Piece
  <2>1. /\ agent = "llm" /\ acc' = acc + 1 /\ turn' = r
        /\ agent' = IF r \in streams THEN "delta" ELSE "llm"
        /\ UNCHANGED <<streams, frames, sent, texts, reply>>
    BY <1>2 DEF Piece, brokerVars, recordVars
  <2>2. Log(r)' = Log(r)
    BY <2>1, LogKept
  <2>3. acc' >= 1 /\ acc' - 1 = acc
    BY <1>0, <2>1
  <2> QED BY <1>0, <2>1, <2>2, <2>3 DEF CountOK, PhaseOK, PairOK
<1>3. CASE PushDelta
  <2>1. agent = "delta" /\ turn' = r /\ UNCHANGED <<streams, texts, reply, acc>>
    BY <1>3 DEF PushDelta, recordVars
  <2>2. CASE ~CanPush(r)
    <3>1. agent' = "err_remove"
      BY <1>3, <2>2 DEF PushDelta
    <3> QED BY <2>1, <3>1 DEF CountOK, PhaseOK, PairOK
  <2>3. CASE CanPush(r)
    <3>1. agent' = "llm" /\ Push(r, Delta(texts[r], acc)) /\ MarkSent(r, acc)
      BY <1>3, <2>3 DEF PushDelta
    <3>2. sent'[r] = IF acc > sent[r] THEN acc ELSE sent[r]
      BY <1>0, <3>1 DEF MarkSent
    <3>3. Log(r)' = Append(Log(r), Delta(texts[r], acc))
      BY <1>0, <3>1, DeltaFields, LogPushed
    <3>4. CASE r \in streams
      <4>1. acc >= 1 /\ Told(Log(r), texts[r], acc - 1) /\ Counted(Log(r), texts[r], sent[r])
        BY <1>0, <2>1, <3>4 DEF PhaseOK, CountOK
      <4>2. PICK n \in Nat : acc = n + 1
        <5>1. acc - 1 \in Nat /\ acc = (acc - 1) + 1
          BY <1>0, <4>1
        <5> QED BY <5>1
      <4>3. acc - 1 = n
        BY <4>2
      <4>4. Told(Log(r)', texts[r], acc)
        BY <1>0, <3>3, <4>1, <4>2, <4>3, ToldNext
      <4>5. Counted(Log(r)', texts[r], sent'[r])
        BY <1>0, <3>2, <3>3, <4>1, CountedNext
      <4> QED BY <2>1, <3>1, <4>4, <4>5 DEF CountOK, PhaseOK, PairOK
    <3>5. CASE r \notin streams
      BY <2>1, <3>1, <3>5 DEF CountOK, PhaseOK, PairOK
    <3> QED BY <3>4, <3>5
  <2> QED BY <2>2, <2>3
<1> QED BY <1>1, <1>2, <1>3

\* The reply, from its making to the pair that ends it.
LEMMA ReplyTexts ==
  ASSUME TypeOK, NEW r \in Requests, turn = r, TextOK(r), UNCHANGED seen, turn' = r,
         \/ ReplyFromRound \/ ReplyRewritten \/ Silent \/ Fail
         \/ LookUpFinal \/ PushRest \/ RemoveForFinal
  PROVE  CountOK(r)' /\ PhaseOK(r)' /\ PairOK(r)'
PROOF
<1>0. /\ Log(r) \in Seq(Frames) /\ texts \in [Requests -> Nat] /\ sent \in [Requests -> Nat]
      /\ reply \in [Requests -> [text : Nat, len : Nat]]
      /\ texts[r] \in Nat /\ sent[r] \in Nat /\ acc \in Nat /\ nextAt \in Nat
      /\ reply[r].text \in Nat /\ reply[r].len \in Nat
      /\ CountOK(r) /\ PhaseOK(r) /\ NoRequest # r
  BY LogIsTyped, AgentAssumption DEF TypeOK, TextOK
<1>1. CASE ReplyFromRound
  <2>1. PICK n \in acc .. acc + 1 :
          n > 0 /\ reply' = [reply EXCEPT ![turn] = [text |-> texts[turn], len |-> n]]
    BY <1>1 DEF ReplyFromRound
  <2>2. agent = "llm" /\ agent' = "final" /\ UNCHANGED <<streams, frames, sent, texts, acc>>
    BY <1>1 DEF ReplyFromRound, brokerVars
  <2>3. Log(r)' = Log(r)
    BY <2>2, LogKept
  <2>4. reply'[r].text = texts[r] /\ acc <= reply'[r].len
    BY <1>0, <2>1
  <2> QED BY <1>0, <2>2, <2>3, <2>4 DEF CountOK, PhaseOK, PairOK
<1>2. CASE ReplyRewritten
  <2>1. PICK n \in 1 .. MaxPieces + 1 :
          reply' = [reply EXCEPT ![turn] = [text |-> texts[turn] + 1, len |-> n]]
    BY <1>2 DEF ReplyRewritten
  <2>2. /\ agent = "llm" /\ agent' = "final" /\ acc' = 0 /\ UNCHANGED <<streams, frames, sent>>
        /\ texts'[r] = texts[r] + 1
    BY <1>0, <1>2 DEF ReplyRewritten, brokerVars, NewText
  <2>3. Log(r)' = Log(r)
    BY <2>2, LogKept
  <2>4. reply'[r].text = texts'[r] /\ 0 <= reply'[r].len
    BY <1>0, <2>1, <2>2, AgentAssumption
  <2>5. r \in streams => Told(Log(r), texts[r] + 1, 0) /\ Counted(Log(r), texts[r] + 1, sent[r])
    BY <1>0, <2>2, FreshText DEF CountOK
  <2> QED BY <2>2, <2>3, <2>4, <2>5 DEF CountOK, PhaseOK, PairOK
<1>3. CASE Silent \/ Fail
  <2>1. agent' = "err_remove"
    BY <1>3 DEF Silent, Fail
  <2> QED BY <2>1 DEF CountOK, PhaseOK, PairOK
<1>4. CASE LookUpFinal
  <2>1. /\ agent = "final" /\ agent' = "final_push" /\ r \in streams
        /\ \/ nextAt' = sent[r] + 1
           \/ acc < sent[r] /\ nextAt' = reply[r].len + 1
        /\ UNCHANGED <<streams, frames, sent, texts, reply>>
    BY <1>0, <1>4 DEF LookUpFinal, Completed, Forget, brokerVars, recordVars
  <2>2. Log(r)' = Log(r)
    BY <2>1, LogKept
  <2>3. /\ reply[r].text = texts[r] /\ Told(Log(r), texts[r], acc) /\ acc <= reply[r].len
        /\ Counted(Log(r), texts[r], sent[r])
    BY <1>0, <2>1 DEF PhaseOK, CountOK
  <2>4. \/ OtherText(Log(r), reply[r].text)
        \/ nextAt' \in 1 .. reply[r].len + 1 /\ Told(Log(r), reply[r].text, nextAt' - 1)
    <3> SUFFICES ASSUME ~OtherText(Log(r), reply[r].text)
                 PROVE  nextAt' \in 1 .. reply[r].len + 1 /\ Told(Log(r), reply[r].text, nextAt' - 1)
      OBVIOUS
    <3>1. sent[r] = acc
      BY <1>0, <2>3, AllCounted
    <3>2. nextAt' = acc + 1
      BY <1>0, <2>1, <3>1
    <3>3. nextAt' \in 1 .. reply[r].len + 1 /\ nextAt' - 1 = acc
      BY <1>0, <2>3, <3>2
    <3> QED BY <2>3, <3>3
  <2> QED BY <2>1, <2>2, <2>4 DEF CountOK, PhaseOK, PairOK
<1>5. CASE PushRest
  <2>1. /\ agent = "final_push" /\ nextAt <= reply[r].len
        /\ UNCHANGED <<streams, texts, reply>>
    BY <1>5 DEF PushRest, recordVars
  <2>2. CASE ~CanPush(r)
    <3>1. agent' = "err_remove"
      BY <1>5, <2>2 DEF PushRest
    <3> QED BY <3>1 DEF CountOK, PhaseOK, PairOK
  <2>3. CASE CanPush(r)
    <3>1. agent' = "final_push" /\ nextAt' = nextAt + 1 /\ Push(r, Delta(reply[r].text, nextAt))
      BY <1>5, <2>1, <2>3 DEF PushRest
    <3>2. Delta(reply[r].text, nextAt) \in Frames
      BY <1>0, DeltaFields
    <3>3. Log(r)' = Append(Log(r), Delta(reply[r].text, nextAt))
      BY <3>1, <3>2, LogPushed
    <3>4. CASE r \in streams /\ OtherText(Log(r), reply[r].text)
      <4>1. OtherText(Log(r)', reply[r].text)
        BY <1>0, <3>2, <3>3, <3>4, OtherTextStays
      <4> QED BY <2>1, <3>1, <4>1 DEF CountOK, PhaseOK, PairOK
    <3>5. CASE r \in streams /\ ~OtherText(Log(r), reply[r].text)
      <4>1. nextAt \in 1 .. reply[r].len + 1 /\ Told(Log(r), reply[r].text, nextAt - 1)
        BY <1>0, <2>1, <3>5 DEF PhaseOK
      <4>2. PICK n \in Nat : nextAt = n + 1
        <5>1. nextAt - 1 \in Nat /\ nextAt = (nextAt - 1) + 1
          BY <1>0, <4>1
        <5> QED BY <5>1
      <4>3. nextAt - 1 = n /\ nextAt' - 1 = nextAt
        BY <1>0, <3>1, <4>2
      <4>4. Told(Log(r)', reply[r].text, nextAt)
        BY <1>0, <3>3, <4>1, <4>2, <4>3, ToldNext
      <4>5. nextAt' \in 1 .. reply[r].len + 1
        BY <1>0, <2>1, <3>1
      <4>6. Told(Log(r)', reply'[r].text, nextAt' - 1) /\ nextAt' \in 1 .. reply'[r].len + 1
        BY <2>1, <4>3, <4>4, <4>5
      <4> QED BY <2>1, <3>1, <4>6 DEF CountOK, PhaseOK, PairOK
    <3>6. CASE r \notin streams
      BY <2>1, <3>1, <3>6 DEF CountOK, PhaseOK, PairOK
    <3> QED BY <3>4, <3>5, <3>6
  <2> QED BY <2>2, <2>3
<1>6. CASE RemoveForFinal
  <2>1. /\ agent = "final_push" /\ nextAt > reply[r].len /\ r \in streams /\ agent' = "final_pair"
        /\ r \notin streams' /\ UNCHANGED <<frames, reply>>
    BY <1>0, <1>6 DEF RemoveForFinal, Completed, Forget, recordVars, Remove
  <2>2. Log(r)' = Log(r)
    BY <2>1, LogKept
  <2>3. Shared(r)
    <3>1. CASE OtherText(Log(r), reply[r].text)
      BY <3>1 DEF Shared
    <3>2. CASE ~OtherText(Log(r), reply[r].text)
      <4>1. nextAt \in 1 .. reply[r].len + 1 /\ Told(Log(r), reply[r].text, nextAt - 1)
        BY <1>0, <2>1, <3>2 DEF PhaseOK
      <4>2. nextAt - 1 = reply[r].len
        BY <1>0, <2>1, <4>1
      <4> QED BY <4>1, <4>2 DEF Shared
    <3> QED BY <3>1, <3>2
  <2>4. Shared(r)'
    BY <2>1, <2>2, <2>3 DEF Shared
  <2> QED BY <2>1, <2>4 DEF CountOK, PhaseOK, PairOK
<1> QED BY <1>1, <1>2, <1>3, <1>4, <1>5, <1>6

\* The final is pushed.
LEMMA FinalTexts ==
  ASSUME TypeOK, NEW r \in Requests, turn = r, TextOK(r), UNCHANGED <<http, seen>>, PushFinal,
         http[r] \notin NotOpen, r \notin streams, ~FinalIn(Log(r))
  PROVE  TextOK(r)'
PROOF
<1>1. /\ agent = "final_pair" /\ turn' # r /\ UNCHANGED <<streams, reply>> /\ PushPair(r, "final")
      /\ cut' = IF ~closed[r] /\ \E i \in 1 .. Evicted(r) : frames[r][i].kind = "delta"
                THEN cut \cup {r} ELSE cut
  BY AgentAssumption DEF PushFinal, Completed, Forget
<1>2. CountOK(r)' /\ PhaseOK(r)' /\ PairOK(r)'
  BY <1>1 DEF CountOK, PhaseOK, PairOK
<1>3. ASSUME http[r] # "left", FinalIn(Log(r)'), r \notin cut'
      PROVE  Shared(r)'
  <2>1. ~closed[r]
    BY <1>1, <1>3, LogPaired DEF Terminals
  <2>2. Shared(r)
    BY <1>1, <1>3, <2>1 DEF TextOK, PairOK
  <2>3. /\ Evicted(r) \in Nat
        /\ Log(r)' = seen[r] \o (SubSeq(frames[r], Evicted(r) + 1, Len(frames[r]))
                                   \o <<Event("final"), Event("done")>>)
    BY <1>1, <2>1, LogPaired DEF Terminals
  <2>4. \A i \in 1 .. Evicted(r) : frames[r][i].kind # "delta"
    BY <1>1, <1>3, <2>1
  <2>5. /\ seen[r] \in Seq(Frames) /\ frames[r] \in Seq(Frames)
        /\ reply[r].text \in Nat /\ reply[r].len \in Nat
    BY DEF TypeOK
  <2>6. "final" \in Terminals
    BY DEF Terminals
  <2>7. /\ Told(Log(r), reply[r].text, reply[r].len) => Told(Log(r)', reply[r].text, reply[r].len)
        /\ OtherText(Log(r), reply[r].text) => OtherText(Log(r)', reply[r].text)
    BY <2>3, <2>4, <2>5, <2>6, PairKeepsText DEF Log
  <2> QED BY <1>1, <2>2, <2>7 DEF Shared
<1> QED BY <1>2, <1>3 DEF TextOK

\* The steps of the agent.
LEMMA AgentTexts ==
  ASSUME TypeOK, PlaceInv, TextInv, \A q \in Requests : StreamOK(q) /\ QueueOK(q), AgentStep
  PROVE  TextInv'
PROOF
<1>0. /\ \A q \in Requests : TextOK(q) /\ PlaceOK(q) /\ StreamOK(q)
      /\ NoRequest \notin Requests /\ (agent = "idle" <=> turn = NoRequest) /\ NoRound
  BY AgentAssumption DEF TextInv, PlaceInv, TypeOK
<1>1. NoRound'
  BY <1>0 DEF NoRound, AgentStep, Take, GiveUp, PutOff, DelayedRuns, Admit, Piece, PushDelta,
     NextRound, ReplyFromRound, ReplyRewritten, Silent, Retry, Fail, RemoveForError, PushAgentError,
     LookUpFinal, PushRest, RemoveForFinal, PushFinal, Forget, Completed, ErrorEnds, turnVars
<1>2. /\ UNCHANGED <<http, seen>> /\ streams' \subseteq streams
      /\ Take \/ turn' = turn \/ turn' = NoRequest
      /\ \A q \in Requests : q # turn =>
           /\ frames'[q] = frames[q] /\ sent'[q] = sent[q] /\ closed'[q] = closed[q]
           /\ texts'[q] = texts[q] /\ reply'[q] = reply[q] /\ (q \in cut => q \in cut')
  BY AgentTouches
<1>3. ASSUME NEW q \in Requests, q # turn, q # turn'
      PROVE  TextOK(q)'
  BY <1>0, <1>2, <1>3, TextKept
<1>4. ASSUME NEW q \in Requests, q # turn, q = turn'
      PROVE  TextOK(q)'
  <2>1. Take
    BY <1>0, <1>2, <1>4
  <2>2. agent = "idle" /\ agent' = "admit" /\ UNCHANGED <<streams, frames, cut>>
    BY <2>1 DEF Take, brokerVars
  <2>3. Log(q)' = Log(q)
    BY <1>2, <2>2, LogKept
  <2>4. CountOK(q)' /\ PhaseOK(q)' /\ PairOK(q)'
    BY <1>0, <1>2, <1>4, <2>2, <2>3 DEF TextOK, CountOK, PhaseOK, PairOK
  <2> QED BY <1>0, <1>2, <1>4, <2>2, <2>3, <2>4 DEF TextOK, Shared
<1>5. ASSUME NEW r \in Requests, turn = r
      PROVE  TextOK(r)'
  <2>1. /\ TextOK(r) /\ http[r] \notin NotOpen /\ ~FinalIn(Log(r)) /\ agent # "idle"
        /\ http'[r] = http[r] /\ seen'[r] = seen[r]
    BY <1>0, <1>2, <1>5 DEF PlaceOK, Gone
  <2>2. ~PushFinal => ~FinalIn(Log(r)')
    BY <2>1, AgentLogs
  <2>3. ASSUME ~PushFinal, CountOK(r)', PhaseOK(r)', PairOK(r)'
        PROVE  TextOK(r)'
    BY <2>1, <2>2, <2>3, TextFollows
  <2>4. CASE DelayedRuns
    <3>1. /\ ~PushFinal
          /\ UNCHANGED <<streams, frames, closed, sent, http, seen, agent, turn, acc, nextAt, texts, reply>>
      BY <2>4 DEF DelayedRuns, brokerVars, turnVars, PushFinal, Completed, Forget
    <3>2. Log(r)' = Log(r)
      BY <3>1, LogKept
    <3>3. CountOK(r)' /\ PhaseOK(r)' /\ PairOK(r)'
      BY <2>1, <3>1, <3>2 DEF TextOK, CountOK, PhaseOK, PairOK, Shared
    <3> QED BY <2>3, <3>1, <3>3
  <2>5. CASE Take
    BY <2>1, <2>5 DEF Take
  <2>6. CASE GiveUp \/ PutOff \/ Retry
    <3>1. /\ agent \in {"admit", "llm"} /\ turn' = NoRequest
          /\ UNCHANGED <<streams, frames, closed, sent, texts, reply, cut>>
      BY <2>6 DEF GiveUp, PutOff, Retry, Forget, brokerVars, recordVars
    <3> QED BY <1>0, <1>2, <1>5, <2>1, <3>1, TextKept
  <2>7. CASE Admit \/ Piece \/ PushDelta \/ NextRound
    <3>1. ~PushFinal
      BY <2>7 DEF Admit, Piece, PushDelta, NextRound, PushFinal
    <3>2. CountOK(r)' /\ PhaseOK(r)' /\ PairOK(r)'
      BY <1>0, <1>2, <1>5, <2>1, <2>7, RoundTexts
    <3> QED BY <2>3, <3>1, <3>2
  <2>8. CASE /\ turn' = r
             /\ \/ ReplyFromRound \/ ReplyRewritten \/ Silent \/ Fail
                \/ LookUpFinal \/ PushRest \/ RemoveForFinal
    <3>1. ~PushFinal
      BY <2>8 DEF ReplyFromRound, ReplyRewritten, Silent, Fail, LookUpFinal, PushRest, RemoveForFinal,
           PushFinal
    <3>2. CountOK(r)' /\ PhaseOK(r)' /\ PairOK(r)'
      BY <1>2, <1>5, <2>1, <2>8, ReplyTexts
    <3> QED BY <2>3, <3>1, <3>2
  <2>9. CASE /\ turn' # r
             /\ \/ ReplyFromRound \/ ReplyRewritten \/ Silent \/ Fail
                \/ LookUpFinal \/ PushRest \/ RemoveForFinal
    <3>1. /\ LookUpFinal \/ RemoveForFinal
          /\ r \notin streams' /\ ~PushFinal
      BY <1>5, <2>9 DEF ReplyFromRound, ReplyRewritten, Silent, Fail, LookUpFinal, PushRest,
           RemoveForFinal, PushFinal, brokerVars, Remove
    <3>2. CountOK(r)' /\ PhaseOK(r)' /\ PairOK(r)'
      BY <2>9, <3>1 DEF CountOK, PhaseOK, PairOK
    <3> QED BY <2>3, <3>1, <3>2
  <2>10. CASE RemoveForError \/ PushAgentError
    <3>1. r \notin streams'
      BY <1>0, <1>5, <2>10 DEF RemoveForError, Remove, PushAgentError, StreamOK, AgentEnds
    <3>2. agent' # "final_pair" /\ ~PushFinal
      BY <2>10 DEF RemoveForError, PushAgentError, ErrorEnds, Forget, PushFinal
    <3>3. CountOK(r)' /\ PhaseOK(r)' /\ PairOK(r)'
      BY <3>1, <3>2 DEF CountOK, PhaseOK, PairOK
    <3> QED BY <2>3, <3>2, <3>3
  <2>11. CASE PushFinal
    <3>1. r \notin streams
      BY <1>0, <1>5, <2>11 DEF PushFinal, StreamOK, AgentEnds
    <3> QED BY <1>2, <1>5, <2>1, <2>11, <3>1, FinalTexts
  <2> QED BY <2>4, <2>5, <2>6, <2>7, <2>8, <2>9, <2>10, <2>11 DEF AgentStep
<1>6. \A q \in Requests : TextOK(q)'
  BY <1>3, <1>4, <1>5
<1> QED BY <1>1, <1>6 DEF TextInv

-----------------------------------------------------------------------------
(* The theorems.                                                             *)

LEMMA InitChat == Init => ChatInv
PROOF
<1> SUFFICES ASSUME Init PROVE ChatInv
  OBVIOUS
<1> USE DEF Init, InitBroker, InitHttp, InitAgent
<1>1. TypeOK
  <2>1. <<>> \in Seq(Frames) /\ <<>> \in Seq(Requests) /\ Len(<<>>) = 0
    OBVIOUS
  <2>2. 0 \in 0 .. MaxFailures /\ Len(inbox) <= InboxCapacity
    BY ZeroIsACount, InboxAssumption
  <2> QED BY <2>1, <2>2 DEF TypeOK, HttpPlaces, AgentPlaces
<1>2. ASSUME NEW r \in Requests PROVE StreamOK(r) /\ QueueOK(r)
  <2>1. NoEnd(<<>>)
    BY DEF NoEnd
  <2> QED BY <2>1 DEF StreamOK, QueueOK, NotOpen, AgentEnds, Ending
<1> QED BY <1>1, <1>2 DEF ChatInv

LEMMA NextChat == ChatInv /\ [Next]_vars => ChatInv'
PROOF
<1> SUFFICES ASSUME ChatInv, [Next]_vars PROVE ChatInv'
  OBVIOUS
<1>0. TypeOK /\ (\A q \in Requests : StreamOK(q)) /\ (\A q \in Requests : QueueOK(q))
  BY DEF ChatInv
<1>1. ASSUME NEW r \in Requests, Open(r) \/ HttpStep(r), UNCHANGED agentVars
      PROVE  ChatInv'
  BY <1>0, <1>1, HttpTypes, HttpStreams, HttpQueues DEF ChatInv
<1>2. CASE AgentStep
  BY <1>0, <1>2, AgentTypes, AgentStreams, AgentQueues DEF ChatInv
<1>3. CASE UNCHANGED vars
  BY <1>0, <1>3 DEF ChatInv, vars, brokerVars, httpVars, turnVars, recordVars, TypeOK, StreamOK,
     QueueOK, Log, Ending, AgentEnds
<1> QED BY <1>1, <1>2, <1>3 DEF Next, RequestStep

\* Every behaviour of the chat streams has the inductive invariant.
LEMMA ChatInvariant == Spec => []ChatInv
PROOF
  BY InitChat, NextChat, PTL DEF Spec

\* The state of the broker, of the requests' threads and of the agent keeps
\* its types, for every number of requests and every capacity.
THEOREM TypeCorrect == Spec => []TypeOK
PROOF
<1>1. ChatInv => TypeOK
  BY DEF ChatInv
<1> QED BY <1>1, ChatInvariant, PTL

\* A stream never keeps its place in the table after its receiver, and one
\* that has left the table is closed or about to be closed: whichever of the
\* timeout, the refusal, the reply, the error and the leaving client comes
\* first takes it out, and the others find it gone.
THEOREM Answered == Spec => []EveryStreamIsAnswered
PROOF
<1>1. ChatInv => EveryStreamIsAnswered
  BY DEF ChatInv, StreamOK, EveryStreamIsAnswered
<1> QED BY <1>1, ChatInvariant, PTL

\* A stream is ended once, with a final or an error and then done, and nothing
\* follows, in whatever order its enders come and however full its queue is.
THEOREM EndedOnceOnly == Spec => []EndsOnce
PROOF
<1>1. ASSUME ChatInv, NEW r \in Requests PROVE EndedOnce(Log(r))
  <2>1. seen[r] \in Seq(Frames) /\ frames[r] \in Seq(Frames) /\ QueueOK(r)
    BY <1>1 DEF ChatInv, TypeOK
  <2>2. CASE closed[r]
    BY <2>1, <2>2 DEF QueueOK
  <2>3. CASE ~closed[r]
    <3>1. NoEnd(Log(r))
      BY <2>1, <2>3, NoEndJoins DEF QueueOK, Log
    <3> QED BY <3>1, NoEndIsFine
  <2> QED BY <2>2, <2>3
<1>2. ChatInv => EndsOnce
  BY <1>1 DEF EndsOnce, EndedOnce
<1> QED BY <1>2, ChatInvariant, PTL

\* Every message is in one place, and every log tells what was made of the texts.
SharedInv == ChatInv /\ PlaceInv /\ TextInv

LEMMA InitShared == Init => SharedInv
PROOF
<1> SUFFICES ASSUME Init PROVE SharedInv
  OBVIOUS
<1>1. ChatInv
  BY InitChat
<1> USE DEF Init, InitBroker, InitHttp, InitAgent
<1>2. Once(inbox) /\ \A q : ~Within(inbox, q)
  BY DEF Once, Within
<1>3. ASSUME NEW r \in Requests PROVE ~FinalIn(Log(r)) /\ Gone(r)
  BY <1>2, AgentAssumption DEF Log, FinalIn, Gone
<1>4. PlaceInv
  BY <1>2, <1>3 DEF PlaceInv, PlaceOK, Gone
<1>5. TextInv
  BY <1>3 DEF TextInv, NoRound, TextOK, CountOK, PhaseOK, PairOK, Gone
<1> QED BY <1>1, <1>4, <1>5 DEF SharedInv

LEMMA NextShared == SharedInv /\ [Next]_vars => SharedInv'
PROOF
<1> SUFFICES ASSUME SharedInv, [Next]_vars PROVE SharedInv'
  OBVIOUS
<1>0. /\ TypeOK /\ (\A q \in Requests : StreamOK(q) /\ QueueOK(q)) /\ PlaceInv /\ TextInv
      /\ \A q \in Requests : QueueOK(q)
  BY DEF SharedInv, ChatInv
<1>1. ChatInv'
  BY NextChat DEF SharedInv
<1>2. ASSUME NEW r \in Requests, Open(r) \/ HttpStep(r), UNCHANGED agentVars
      PROVE  PlaceInv' /\ TextInv'
  BY <1>0, <1>2, HttpPlacesKept, HttpTexts
<1>3. CASE AgentStep
  BY <1>0, <1>1, <1>3, AgentPlacesKept, AgentTexts DEF SharedInv
<1>4. CASE UNCHANGED vars
  <2>1. PlaceInv'
    BY <1>0, <1>4 DEF vars, brokerVars, httpVars, turnVars, recordVars, PlaceInv, PlaceOK, Gone, Log
  <2>2. TextInv'
    BY <1>0, <1>4 DEF vars, brokerVars, httpVars, turnVars, recordVars, TextInv, NoRound, TextOK,
       CountOK, PhaseOK, PairOK, Shared, Log
  <2> QED BY <1>1, <2>1, <2>2 DEF SharedInv
<1> QED BY <1>1, <1>2, <1>3, <1>4 DEF Next, RequestStep, SharedInv

LEMMA SharedAlways == Spec => []SharedInv
PROOF
  BY InitShared, NextShared, PTL DEF Spec

\* A reader that is told the stream is complete has been shown the reply, all
\* its pieces, each once and in their order, unless a full queue dropped
\* content for the final pair or another text had been streamed before: what
\* emit_final passes over by the bytes sent is what the reader has.
THEOREM WholeReplyShown == Spec => []WholeReply
PROOF
<1>1. ASSUME SharedInv, NEW r \in Requests, ReadFinal(r), r \notin cut,
             \A i \in ShownAt(r) : seen[r][i].text = reply[r].text
      PROVE  /\ {seen[r][i].at : i \in ShownAt(r)} = 1 .. reply[r].len
             /\ \A i, j \in ShownAt(r) : i < j => seen[r][i].at < seen[r][j].at
  <2>1. /\ TypeOK /\ TextOK(r) /\ seen[r] \in Seq(Frames) /\ frames[r] \in Seq(Frames)
        /\ QueueOK(r)
    BY <1>1 DEF SharedInv, ChatInv, TypeOK, TextInv
  <2>2. FinalIn(seen[r])
    BY <1>1 DEF ReadFinal, FinalIn
  <2>3. EndedOnce(Log(r))
    <3>1. CASE closed[r]
      BY <2>1, <3>1 DEF QueueOK
    <3>2. CASE ~closed[r]
      <4>1. NoEnd(seen[r])
        BY <2>1, <3>2 DEF QueueOK
      <4> QED BY <2>2, <4>1 DEF NoEnd, FinalIn, EndKinds, Terminals
    <3> QED BY <3>1, <3>2
  <2>4. /\ FinalIn(Log(r))
        /\ \A i \in 1 .. Len(seen[r]) : i \in 1 .. Len(Log(r)) /\ Log(r)[i] = seen[r][i]
        /\ \A i \in 1 .. Len(Log(r)) : Log(r)[i].kind = "delta" => i \in 1 .. Len(seen[r])
    BY <2>1, <2>2, <2>3, FinalIsLast DEF Log
  \* Every piece of the log has been read.
  <2>5. \A i \in 1 .. Len(Log(r)) : Log(r)[i].kind = "delta" => i \in ShownAt(r)
    BY <2>4 DEF ShownAt
  <2>6. \A i \in ShownAt(r) :
          /\ i \in 1 .. Len(Log(r)) /\ Log(r)[i] = seen[r][i]
          /\ seen[r][i].kind = "delta" /\ seen[r][i].text = reply[r].text
    BY <1>1, <2>4 DEF ShownAt
  <2>7. ~OtherText(Log(r), reply[r].text)
    BY <2>5, <2>6 DEF OtherText
  <2>8. Told(Log(r), reply[r].text, reply[r].len)
    <3>1. http[r] # "left"
      BY <2>1, <2>2 DEF TextOK, FinalIn
    <3>2. Shared(r)
      BY <1>1, <2>1, <2>4, <3>1 DEF TextOK
    <3> QED BY <2>7, <3>2 DEF Shared
  <2>9. \A i \in ShownAt(r) : seen[r][i].at \in 1 .. reply[r].len
    BY <2>6, <2>8 DEF Told
  <2>10. \A k \in 1 .. reply[r].len : \E i \in ShownAt(r) : seen[r][i].at = k
    <3> SUFFICES ASSUME NEW k \in 1 .. reply[r].len PROVE \E i \in ShownAt(r) : seen[r][i].at = k
      OBVIOUS
    <3>1. PICK i \in 1 .. Len(Log(r)) : Log(r)[i].kind = "delta" /\ Log(r)[i].at = k
      BY <2>8 DEF Told
    <3>2. i \in ShownAt(r) /\ seen[r][i].at = k
      BY <2>5, <2>6, <3>1
    <3> QED BY <3>2
  <2>11. {seen[r][i].at : i \in ShownAt(r)} = 1 .. reply[r].len
    BY <2>9, <2>10
  <2>12. \A i, j \in ShownAt(r) : i < j => seen[r][i].at < seen[r][j].at
    BY <2>6, <2>8 DEF Told
  <2> QED BY <2>11, <2>12
<1>2. SharedInv => WholeReply
  BY <1>1 DEF WholeReply
<1> QED BY <1>2, SharedAlways, PTL
=============================================================================
