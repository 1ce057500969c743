------------------------------ MODULE ChatAgent ------------------------------
(* The agent loop as the chat streams meet it: it takes a message, may put  *)
(* it off or give it up without a word to the stream, streams the text of   *)
(* each LLM round as it comes, and ends the turn with the reply, an error   *)
(* or another attempt. One thread for all streams.                          *)
EXTENDS ChatHttp

CONSTANTS
  Contents,     \* what requests say: failures are counted by content
  ContentOf,    \* what each request says
  MaxFailures,  \* 3 in worker_error.rs and loop.rs
  MaxTexts,     \* bound: texts the LLM or the agent writes for each request
  MaxPieces,    \* bound: pieces of a text that are streamed as they come; a
                \* reply may have one more
  NoRequest

ASSUME AgentAssumption ==
  /\ ContentOf \in [Requests -> Contents]
  /\ MaxFailures \in Nat \ {0}
  /\ MaxTexts \in [Requests -> Nat] /\ MaxPieces \in Nat
  /\ NoRequest \notin Requests

VARIABLES
  agent,    \* where the loop is
  turn,     \* the request whose message it has in hand
  parked,   \* requests whose message waits in the delayed queue
  acc,      \* pieces of the round's text it has been given (accumulated)
  nextAt,   \* the piece of the reply emit_final sends next
  after,    \* how the turn goes on after emit_error
  failures, \* llm_failure_count
  texts,    \* texts begun for each request; the last is the one in hand
  reply,    \* the canonical reply of each request
  cut       \* history: requests whose final pair made room by dropping content

turnVars == <<agent, turn, acc, nextAt, after>>
recordVars == <<failures, texts, reply, cut, parked>>

InitAgent ==
  /\ agent = "idle" /\ turn = NoRequest /\ acc = 0 /\ nextAt = 0 /\ after = "idle"
  /\ failures = [c \in Contents |-> 0]
  /\ texts = [r \in Requests |-> 0]
  /\ reply = [r \in Requests |-> [text |-> 0, len |-> 0]]
  /\ cut = {} /\ parked = {}

Room == Len(inbox) < InboxCapacity
SetFailures(n) == failures' = [failures EXCEPT ![ContentOf[turn]] = n]
NewText == texts[turn] < MaxTexts[turn] /\ texts' = [texts EXCEPT ![turn] = @ + 1]

\* The loop turns to the next message.
Forget == agent' = "idle" /\ turn' = NoRequest /\ acc' = 0 /\ nextAt' = 0 /\ after' = "idle"

-----------------------------------------------------------------------------
\* Old failure counts are swept now and then.
Take ==
  /\ agent = "idle" /\ inbox # <<>>
  /\ agent' = "admit" /\ turn' = Head(inbox) /\ inbox' = Tail(inbox)
  /\ \/ UNCHANGED failures
     \/ failures' = [failures EXCEPT ![ContentOf[Head(inbox)]] = 0]
  /\ UNCHANGED <<brokerVars, http, seen, acc, nextAt, after, texts, reply, cut, parked>>

\* The message is rejected, or saved for the next boot, or its content has
\* failed too often: in each case the stream is told nothing.
GiveUp ==
  /\ agent = "admit"
  /\ Forget
  /\ UNCHANGED <<brokerVars, httpVars, recordVars>>

\* It is put off: to the end of the queue, or to the delayed queue, which puts
\* it there at any later time.
PutOff ==
  /\ agent = "admit"
  /\ \/ Room /\ inbox' = Append(inbox, turn) /\ UNCHANGED parked
     \/ parked' = parked \cup {turn} /\ UNCHANGED inbox
  /\ Forget
  /\ UNCHANGED <<brokerVars, http, seen, failures, texts, reply, cut>>

DelayedRuns ==
  /\ Room
  /\ \E r \in parked : inbox' = Append(inbox, r) /\ parked' = parked \ {r}
  /\ UNCHANGED <<brokerVars, http, seen, turnVars, failures, texts, reply, cut>>

\* A count of failures that has expired does not stop it.
Admit ==
  /\ agent = "admit" /\ NewText
  /\ agent' = "llm"
  /\ UNCHANGED <<brokerVars, httpVars, turn, acc, nextAt, after, failures, reply, cut, parked>>

-----------------------------------------------------------------------------
\* The LLM gives a piece of its text: emit_delta looks the stream up.
Piece ==
  /\ agent = "llm" /\ acc < MaxPieces
  /\ acc' = acc + 1
  /\ agent' = IF turn \in streams THEN "delta" ELSE "llm"
  /\ UNCHANGED <<brokerVars, httpVars, turn, nextAt, after, recordVars>>

\* The count of what was sent is only read and written by this thread.
PushDelta ==
  /\ agent = "delta"
  /\ IF CanPush(turn)
       THEN /\ Push(turn, Delta(texts[turn], acc)) /\ MarkSent(turn, acc)
            /\ agent' = "llm" /\ UNCHANGED after
       ELSE /\ agent' = "err_remove" /\ after' = "llm"
            /\ UNCHANGED <<frames, sent>>
  /\ UNCHANGED <<streams, closed, httpVars, turn, acc, nextAt, recordVars>>

\* A round that ends with tool calls: the next one begins a new text, and its
\* pieces are counted from its beginning.
NextRound ==
  /\ agent = "llm" /\ NewText
  /\ acc' = 0
  /\ UNCHANGED <<brokerVars, httpVars, agent, turn, nextAt, after, failures, reply, cut, parked>>

\* The reply is the text of the last round, to which a note may have been
\* added. The pieces that were sent are passed over.
ReplyFromRound ==
  /\ agent = "llm"
  /\ \E n \in acc .. acc + 1 :
       /\ n > 0
       /\ reply' = [reply EXCEPT ![turn] = [text |-> texts[turn], len |-> n]]
  /\ agent' = "final"
  /\ UNCHANGED <<brokerVars, httpVars, turn, acc, nextAt, after, failures, texts, cut, parked>>

\* The reply is not what was streamed: another provider's, a question back,
\* or the outcome of a review.
ReplyRewritten ==
  /\ agent = "llm" /\ NewText
  /\ \E n \in 1 .. MaxPieces + 1 :
       reply' = [reply EXCEPT ![turn] = [text |-> texts[turn] + 1, len |-> n]]
  /\ agent' = "final" /\ acc' = 0
  /\ UNCHANGED <<brokerVars, httpVars, turn, nextAt, after, failures, cut, parked>>

\* A reply that is not to be delivered.
Silent ==
  /\ agent = "llm"
  /\ agent' = "err_remove" /\ after' = "completed" /\ acc' = 0
  /\ UNCHANGED <<brokerVars, httpVars, turn, nextAt, recordVars>>

-----------------------------------------------------------------------------
\* A failure that may pass is tried again with the same message, as long as
\* there are attempts left; if the queue is full it is saved for the next boot.
Retry ==
  /\ agent = "llm" /\ failures[ContentOf[turn]] + 1 < MaxFailures
  /\ SetFailures(failures[ContentOf[turn]] + 1)
  /\ inbox' = IF Room THEN Append(inbox, turn) ELSE inbox
  /\ Forget
  /\ UNCHANGED <<brokerVars, http, seen, texts, reply, cut, parked>>

\* One that may not, or a breach of the reply contract, which is not counted.
Fail ==
  /\ agent = "llm"
  /\ \/ UNCHANGED failures
     \/ failures[ContentOf[turn]] < MaxFailures /\ SetFailures(failures[ContentOf[turn]] + 1)
  /\ agent' = "err_remove" /\ after' = "failed" /\ acc' = 0
  /\ UNCHANGED <<brokerVars, httpVars, turn, nextAt, texts, reply, cut, parked>>

\* emit_error. After backpressure the LLM still streams, to nobody; a turn
\* that completes forgets its failures.
ErrorEnds ==
  /\ IF after = "llm" THEN agent' = "llm" /\ after' = "idle" /\ UNCHANGED <<turn, acc, nextAt>>
     ELSE Forget
  /\ IF after = "completed" THEN SetFailures(0) ELSE UNCHANGED failures
  /\ UNCHANGED <<texts, reply, cut, parked>>

RemoveForError ==
  /\ agent = "err_remove"
  /\ Remove(turn)
  /\ IF turn \in streams
       THEN agent' = "err_pair" /\ UNCHANGED <<turn, acc, nextAt, after, recordVars>>
       ELSE ErrorEnds
  /\ UNCHANGED <<frames, closed, sent, httpVars>>

PushAgentError ==
  /\ agent = "err_pair"
  /\ PushPair(turn, "error")
  /\ ErrorEnds
  /\ UNCHANGED <<streams, sent, httpVars>>

-----------------------------------------------------------------------------
Completed == Forget /\ SetFailures(0) /\ UNCHANGED <<texts, reply, parked>>

\* emit_final looks the stream up and goes on where sent_content_bytes says.
\* In another text that place may be inside a character, and then nothing of
\* the reply is sent.
LookUpFinal ==
  /\ agent = "final"
  /\ IF turn \in streams
       THEN /\ agent' = "final_push"
            /\ \/ nextAt' = sent[turn] + 1
               \/ acc < sent[turn] /\ nextAt' = reply[turn].len + 1
            /\ acc' = 0 /\ UNCHANGED <<turn, after, recordVars>>
       ELSE Completed /\ UNCHANGED cut
  /\ UNCHANGED <<brokerVars, httpVars>>

PushRest ==
  /\ agent = "final_push" /\ nextAt <= reply[turn].len
  /\ IF CanPush(turn)
       THEN /\ Push(turn, Delta(reply[turn].text, nextAt))
            /\ nextAt' = nextAt + 1 /\ UNCHANGED <<agent, after>>
       ELSE /\ agent' = "err_remove" /\ after' = "completed" /\ nextAt' = 0
            /\ UNCHANGED frames
  /\ UNCHANGED <<streams, closed, sent, httpVars, turn, acc, recordVars>>

RemoveForFinal ==
  /\ agent = "final_push" /\ nextAt > reply[turn].len
  /\ Remove(turn)
  /\ IF turn \in streams
       THEN agent' = "final_pair" /\ nextAt' = 0 /\ UNCHANGED <<turn, acc, after, recordVars>>
       ELSE Completed /\ UNCHANGED cut
  /\ UNCHANGED <<frames, closed, sent, httpVars>>

PushFinal ==
  /\ agent = "final_pair"
  /\ PushPair(turn, "final")
  /\ cut' = IF ~closed[turn] /\ \E i \in 1 .. Evicted(turn) : frames[turn][i].kind = "delta"
            THEN cut \cup {turn} ELSE cut
  /\ Completed
  /\ UNCHANGED <<streams, sent, httpVars>>

AgentStep ==
  \/ Take \/ GiveUp \/ PutOff \/ DelayedRuns \/ Admit
  \/ Piece \/ PushDelta \/ NextRound \/ ReplyFromRound \/ ReplyRewritten \/ Silent
  \/ Retry \/ Fail \/ RemoveForError \/ PushAgentError
  \/ LookUpFinal \/ PushRest \/ RemoveForFinal \/ PushFinal
=============================================================================
