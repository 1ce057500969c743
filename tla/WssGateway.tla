----------------------------- MODULE WssGateway -----------------------------
(* The thread of a channel that keeps an external WSS session: its gate,    *)
(* connect_external_wss, the session, its end.                              *)
EXTENDS NetworkState

\* external_wss_connect_gate, and the URL of the session.
PassGate(g) ==
  /\ at[g] = "gate" /\ MayConnect
  /\ GoTo(g, "resume")
  /\ UNCHANGED <<open, countVars, connecting, requests, lockVars, modeVars>>

\* wait_for_external_wss_resume sees no request.
Resume(g) ==
  /\ at[g] = "resume" /\ requests = 0
  /\ GoTo(g, "begin")
  /\ UNCHANGED <<open, countVars, connecting, requests, lockVars, modeVars>>

BeginAttempt(g) ==
  /\ at[g] = "begin"
  /\ connecting' = connecting + 1
  /\ GoTo(g, "attempt")
  /\ UNCHANGED <<open, countVars, requests, lockVars, modeVars>>

BackOff(g) ==
  /\ at[g] = "attempt" /\ requests > 0
  /\ connecting' = connecting - 1
  /\ GoTo(g, "resume")
  /\ UNCHANGED <<open, countVars, requests, lockVars, modeVars>>

GoOn(g) ==
  /\ at[g] = "attempt" /\ requests = 0
  /\ GoTo(g, "acquire")
  /\ UNCHANGED <<open, countVars, connecting, requests, lockVars, modeVars>>

\* Seeded fault: the lease is shared.
AcquireShared(g) ==
  /\ at[g] = "acquire"
  /\ wssLease' = g
  /\ GoTo(g, "leased")
  /\ UNCHANGED <<open, countVars, connecting, requests, tlsPermit, tlsLease, modeVars>>

AcquireLease(g) ==
  /\ at[g] = "acquire" /\ wssLease = Nobody
  /\ wssLease' = g
  /\ GoTo(g, "leased")
  /\ UNCHANGED <<open, countVars, connecting, requests, tlsPermit, tlsLease, modeVars>>

LeaseDenied(g) ==
  /\ at[g] = "acquire" /\ wssLease # Nobody
  /\ GoTo(g, "undo")
  /\ UNCHANGED <<open, countVars, connecting, requests, lockVars, modeVars>>

\* Seeded fault: no second look.
NotAskedAgain(g) ==
  /\ at[g] = "leased"
  /\ GoTo(g, "tls")
  /\ UNCHANGED <<open, countVars, connecting, requests, lockVars, modeVars>>

\* The second look at the requests, with the lease in hand.
StillAllowed(g) ==
  /\ at[g] = "leased" /\ requests = 0
  /\ GoTo(g, "tls")
  /\ UNCHANGED <<open, countVars, connecting, requests, lockVars, modeVars>>

\* Seeded fault: the lease is kept over the suspension.
KeepLease(g) ==
  /\ at[g] = "leased" /\ requests > 0
  /\ GoTo(g, "back")
  /\ UNCHANGED <<open, countVars, connecting, requests, lockVars, modeVars>>

GiveLeaseBack(g) ==
  /\ at[g] = "leased" /\ requests > 0
  /\ wssLease' = Nobody
  /\ GoTo(g, "back")
  /\ UNCHANGED <<open, countVars, connecting, requests, tlsPermit, tlsLease, modeVars>>

\* The guard of the lease, when the connection failed.
DropLease(g) ==
  /\ at[g] = "failed"
  /\ wssLease' = Nobody
  /\ GoTo(g, "undo")
  /\ UNCHANGED <<open, countVars, connecting, requests, tlsPermit, tlsLease, modeVars>>

\* The guard of the attempt: back to the wait after a request, to the gate
\* after an error, and into the session.
AfterAttempt(label) ==
  CASE label = "back" -> "resume" [] label = "undo" -> "gate" [] label = "connected" -> "session"

EndAttempt(g) ==
  /\ at[g] \in {"back", "undo", "connected"}
  /\ connecting' = connecting - 1
  /\ GoTo(g, AfterAttempt(at[g]))
  /\ UNCHANGED <<open, countVars, requests, lockVars, modeVars>>

\* external_wss_session_stop_reason, asked at each turn of the session's loop.
StopSession(g) ==
  /\ at[g] = "session" /\ ~MayConnect
  /\ GoTo(g, "ending")
  /\ UNCHANGED <<open, countVars, connecting, requests, lockVars, modeVars>>

\* The peer closes, or an exchange fails.
LoseSession(g) ==
  /\ at[g] = "session"
  /\ GoTo(g, "ending")
  /\ UNCHANGED <<open, countVars, connecting, requests, lockVars, modeVars>>

\* The connection is dropped: the socket and its count, then the lease.
CloseSession(g) ==
  /\ at[g] = "ending"
  /\ open' = [open EXCEPT ![g] = FALSE]
  /\ external' = external - 1
  /\ GoTo(g, "release")
  /\ UNCHANGED <<activeHttp, realtime, connecting, requests, lockVars, modeVars>>

ReleaseLease(g) ==
  /\ at[g] = "release"
  /\ wssLease' = Nobody
  /\ GoTo(g, "gate")
  /\ UNCHANGED <<open, countVars, connecting, requests, tlsPermit, tlsLease, modeVars>>

GatewayStep(g) ==
  \/ ConnectStep(g)
  \/ PassGate(g) \/ Resume(g) \/ BeginAttempt(g) \/ BackOff(g) \/ GoOn(g)
  \/ AcquireLease(g) \/ LeaseDenied(g) \/ StillAllowed(g) \/ GiveLeaseBack(g)
  \/ DropLease(g) \/ EndAttempt(g) \/ StopSession(g) \/ CloseSession(g) \/ ReleaseLease(g)
=============================================================================
