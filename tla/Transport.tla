------------------------------ MODULE Transport ------------------------------
(* The connections of an ESP build: gateways, voice, configuration and HTTP *)
(* callers over the counters and locks of NetworkState.                     *)
EXTENDS Suspension

\* request_http_permit: what is below High is refused at the limit. The count
\* is read here and the permit taken later.
AskPermit(h, high) ==
  /\ at[h] = "idle"
  /\ high \/ Sessions < MaxSessions
  /\ GoTo(h, "queue")
  /\ UNCHANGED <<open, countVars, connecting, requests, lockVars, modeVars, look, httpd>>

GetPermit(h) ==
  /\ at[h] = "queue" /\ tlsPermit = Nobody
  /\ tlsPermit' = h
  /\ activeHttp' = activeHttp + 1
  /\ GoTo(h, "permitted")
  /\ UNCHANGED <<open, external, realtime, connecting, requests, wssLease, tlsLease,
                 modeVars, look, httpd>>

PermitRefused(h) ==
  /\ at[h] = "queue"
  /\ GoTo(h, "idle")
  /\ UNCHANGED <<open, countVars, connecting, requests, lockVars, modeVars, look, httpd>>

BeginExchange(h) ==
  /\ at[h] = "permitted" /\ tlsLease = Nobody
  /\ tlsLease' = h
  /\ GoTo(h, "exchange")
  /\ UNCHANGED <<open, countVars, connecting, requests, tlsPermit, wssLease, modeVars, look, httpd>>

ExchangeDenied(h) ==
  /\ at[h] = "permitted" /\ tlsLease # Nobody
  /\ GoTo(h, "uncount")
  /\ UNCHANGED <<open, countVars, connecting, requests, lockVars, modeVars, look, httpd>>

EndExchange(h) ==
  /\ at[h] = "exchange"
  /\ tlsLease' = Nobody
  /\ GoTo(h, "uncount")
  /\ UNCHANGED <<open, countVars, connecting, requests, tlsPermit, wssLease, modeVars, look, httpd>>

CallerStep(h) ==
  \/ GetPermit(h) \/ PermitRefused(h) \/ BeginExchange(h) \/ ExchangeDenied(h) \/ EndExchange(h)
  \/ (Uncount(h) \/ Unlock(h)) /\ UNCHANGED <<look, httpd>>

-----------------------------------------------------------------------------
vars == <<at, open, countVars, connecting, requests, lockVars, modeVars, look, httpd>>

Init ==
  /\ at = [t \in Threads |-> IF t \in Gateways THEN "gate" ELSE "idle"]
  /\ open = [t \in Connectors |-> FALSE]
  /\ activeHttp = 0 /\ external = 0 /\ realtime = 0 /\ connecting = 0 /\ requests = 0
  /\ tlsPermit = Nobody /\ wssLease = Nobody /\ tlsLease = Nobody
  /\ voiceActive = FALSE /\ persisting = FALSE
  /\ look = [w \in Suspenders |-> 1]
  /\ httpd = Nobody

GatewayNext(g) == (GatewayStep(g) \/ LoseSession(g)) /\ UNCHANGED <<look, httpd>>

VoiceNext == AdmitVoice \/ VoiceStep \/ HangUp \/ GiveUpWait(Voice)

ConfigNext(c) ==
  \/ BeginConfig(c) \/ ConfigStep(c) \/ LeaveToWorker(c)
  \/ c \in Writers /\ GiveUpWait(c)

CallerNext(h) == (\E high \in BOOLEAN : AskPermit(h, high)) \/ CallerStep(h)

Next ==
  \/ \E g \in Gateways : GatewayNext(g)
  \/ VoiceNext
  \/ \E c \in Configs : ConfigNext(c)
  \/ WindowEnds
  \/ \E h \in Callers : CallerNext(h)

\* The threads of gateways, voice and configuration go on, and their waits
\* end: each exchange has a timeout. Nobody has to begin a voice session or a
\* request, no peer has to close a session, no wait has to reach its deadline,
\* and nothing is asked of the HTTP callers.
Fairness ==
  /\ \A g \in Gateways : WF_vars(GatewayStep(g) /\ UNCHANGED <<look, httpd>>)
  /\ WF_vars(VoiceStep)
  /\ \A c \in Configs : WF_vars(ConfigStep(c))

Spec == Init /\ [][Next]_vars /\ Fairness

-----------------------------------------------------------------------------
GatewayPlaces ==
  {"gate", "resume", "begin", "attempt", "acquire", "leased", "back", "tls", "permit",
   "handshake", "uncount", "unlock", "untls", "failed", "undo", "connected", "session",
   "ending", "release"}
VoicePlaces ==
  {"idle", "admitted", "raise", "wait", "tls", "permit", "handshake", "uncount", "unlock", "untls",
   "failed", "connected", "leave", "withdraw"}
ConfigPlaces == {"idle", "ask", "wait", "writing", "reading", "refused", "withdraw"}
CallerPlaces == {"idle", "queue", "permitted", "exchange", "uncount", "unlock"}

Places(t) ==
  IF t = Voice THEN VoicePlaces
  ELSE IF t \in Gateways THEN GatewayPlaces
  ELSE IF t \in Configs THEN ConfigPlaces ELSE CallerPlaces

\* Type invariant. The counters are unsigned in the code: none may go below
\* zero.
TypeOK ==
  /\ DOMAIN at = Threads /\ \A t \in Threads : at[t] \in Places(t)
  /\ open \in [Connectors -> BOOLEAN]
  /\ activeHttp \in Nat /\ external \in Nat /\ realtime \in Nat
  /\ connecting \in Nat /\ requests \in Nat
  /\ tlsPermit \in Threads \cup {Nobody}
  /\ wssLease \in Gateways \cup {Nobody}
  /\ tlsLease \in Threads \cup {Nobody}
  /\ voiceActive \in BOOLEAN /\ persisting \in BOOLEAN
  /\ DOMAIN look = Suspenders /\ \A w \in Suspenders : look[w] \in 1 .. Len(Looks(w))
  /\ httpd \in Configs \cup {Nobody}

\* A gateway that has an open session, or that will not look at the requests
\* again before it has one.
Committed(g) == open[g] \/ at[g] \in {"tls", "permit", "handshake"}

\* A thread that has waited for the gateways and has not left.
HasTheNetwork(w) ==
  IF w = Voice
  THEN at[w] \in {"tls", "permit", "handshake", "uncount", "unlock", "untls", "failed", "connected"}
  ELSE at[w] = "writing"

\* From the end of the wait to its own end, a voice session and a request
\* that writes have no external session beside them, open or on its way:
\* the wait reads three counters one after the other, and a gateway looks
\* at the requests before and after it takes its lease.
NoSessionBesideSuspender ==
  \A w \in Suspenders, g \in Gateways : HasTheNetwork(w) => ~Committed(g)

\* However many threads ask for the permit, and even those that the limit
\* does not hold back, there is at most one exchange over HTTP and one
\* session over WSS: the check of MAX_CONCURRENT_HTTP is made before the
\* permit is there, and need not be made again.
AtMostTwoSessions == Sessions <= 2

\* A wait ends by the gateways' own doing as long as the mode tells them to
\* go: no gateway holds a lease or an attempt it does not give back.
SuspensionTakesHold ==
  \A w \in Suspenders : at[w] = "wait" ~> (at[w] # "wait" \/ MayConnect)

\* When the last suspension is over the gateways connect again: no request
\* stays counted.
GatewaysComeBack ==
  []<>(\/ \E w \in Suspenders : at[w] # "idle"
       \/ \E g \in Gateways : at[g] \notin {"gate", "resume"})
=============================================================================
