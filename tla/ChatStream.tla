----------------------------- MODULE ChatStream -----------------------------
(* The chat of the configuration UI: the requests' threads and the agent    *)
(* loop around the broker, and what a reader of a stream may rely on.       *)
EXTENDS ChatAgent

vars == <<brokerVars, httpVars, turnVars, recordVars>>
agentVars == <<turnVars, recordVars>>

Init == InitBroker /\ InitHttp /\ InitAgent

RequestStep(r) == HttpStep(r) /\ UNCHANGED agentVars

Next ==
  \/ \E r \in Requests : (Open(r) /\ UNCHANGED agentVars) \/ RequestStep(r)
  \/ AgentStep

\* A thread that has opened a stream goes on, and its waits for a frame end.
\* Nothing is asked of the agent: it may stop in the middle of a turn.
Fairness == \A r \in Requests : WF_vars(RequestStep(r))

Spec == Init /\ [][Next]_vars /\ Fairness

-----------------------------------------------------------------------------
HttpPlaces ==
  {"idle", "busy", "opened", "queued", "queued_push", "refused", "refused_pair", "recv", "wait",
   "timeout", "timeout_pair", "recv2", "wait2", "leaving", "left"}
AgentPlaces ==
  {"idle", "admit", "llm", "delta", "final", "final_push", "final_pair", "err_remove", "err_pair"}

\* Type invariant.
TypeOK ==
  /\ streams \subseteq Requests
  /\ frames \in [Requests -> Seq(Frames)]
  /\ closed \in [Requests -> BOOLEAN]
  /\ sent \in [Requests -> Nat]
  /\ http \in [Requests -> HttpPlaces]
  /\ inbox \in Seq(Requests) /\ Len(inbox) <= InboxCapacity
  /\ seen \in [Requests -> Seq(Frames)]
  /\ agent \in AgentPlaces /\ turn \in Requests \cup {NoRequest}
  /\ (turn = NoRequest) <=> (agent = "idle")
  /\ acc \in Nat /\ nextAt \in Nat /\ after \in {"idle", "llm", "completed", "failed"}
  /\ (after # "idle") <=> (agent \in {"err_remove", "err_pair"})
  /\ failures \in [Contents -> 0 .. MaxFailures]
  /\ texts \in [Requests -> Nat]
  /\ reply \in [Requests -> [text : Nat, len : Nat]]
  /\ cut \subseteq Requests /\ parked \subseteq Requests

NotOpen == {"idle", "busy"}

\* Somebody has taken the stream out of the table and is about to end it.
Ending(r) ==
  \/ http[r] \in {"refused_pair", "timeout_pair"}
  \/ agent \in {"final_pair", "err_pair"} /\ turn = r

\* A stream in the table has a receiver and takes frames; one that has left
\* the table is closed, about to be ended by the thread that took it out, or
\* has no receiver any more. So no stream keeps its place in the table after
\* its receiver, and a receiver that timed out never waits for nobody.
EveryStreamIsAnswered ==
  \A r \in Requests :
    /\ r \in streams => http[r] \notin NotOpen \cup {"left"} /\ ~closed[r]
    /\ r \notin streams /\ http[r] \notin NotOpen => closed[r] \/ Ending(r) \/ http[r] = "left"

\* What the receiver of a stream has given out, and what it still will.
Log(r) == seen[r] \o frames[r]

\* Two threads may end a stream, an answer may come after the error that ended
\* it, and a message may be tried again: a stream is ended once, with a final
\* or an error, then done, and nothing comes after. A full queue never
\* loses the end.
EndsOnce ==
  \A r \in Requests : \A i \in 1 .. Len(Log(r)) :
    /\ Log(r)[i].kind \in Terminals =>
         i + 1 = Len(Log(r)) /\ Log(r)[i + 1].kind = "done"
    /\ Log(r)[i].kind = "done" =>
         i = Len(Log(r)) /\ i > 1 /\ Log(r)[i - 1].kind \in Terminals

\* Where a reader has been shown pieces, and whether it has read the final.
ShownAt(r) == {i \in 1 .. Len(seen[r]) : seen[r][i].kind = "delta"}
ReadFinal(r) == \E i \in 1 .. Len(seen[r]) : seen[r][i].kind = "final"

\* A reader that is told the stream is complete, has lost nothing to a full
\* queue and was shown no other text, was shown the reply: all its pieces,
\* each once and in their order.
WholeReply ==
  \A r \in Requests :
    /\ ReadFinal(r) /\ r \notin cut
    /\ \A i \in ShownAt(r) : seen[r][i].text = reply[r].text
    => /\ {seen[r][i].at : i \in ShownAt(r)} = 1 .. reply[r].len
       /\ \A i, j \in ShownAt(r) : i < j => seen[r][i].at < seen[r][j].at

\* A stream that is opened comes to its end and gives its place in the table
\* back, whatever becomes of its message.
StreamEnds == \A r \in Requests : http[r] = "opened" ~> (http[r] = "left" /\ r \notin streams)

-----------------------------------------------------------------------------
\* The pieces a reader has been shown, and those of a reply.
Shown(r) == SelectSeq(seen[r], LAMBDA f : f.kind = "delta")
Pieces(rep) == [i \in 1 .. rep.len |-> Delta(rep.text, i)]

\* "The canonical final reply is produced exactly once", and what transports
\* it "only transports the already-finalized reply": a reader who has read the
\* final has been shown the reply.
CanonicalReplyShown ==
  \A r \in Requests :
    ReadFinal(r) =>
      \E n \in 0 .. Len(Shown(r)) :
        SubSeq(Shown(r), n + 1, Len(Shown(r))) = Pieces(reply[r])
=============================================================================
