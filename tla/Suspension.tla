----------------------------- MODULE Suspension -----------------------------
(* The two that ask the gateways to go away and wait until they have:       *)
(* a realtime voice session (VoiceExclusiveTransportGuard, voice_session)   *)
(* and a request to the configuration server that is about to write         *)
(* (ConfigActivityGuard). The server has one thread; a request whose reply  *)
(* is late goes on in its worker, with its guard, while the thread serves   *)
(* the next.                                                                *)
EXTENDS WssGateway, Sequences

VARIABLES
  look,   \* which counter a waiting thread looks at next
  httpd   \* the request the server's thread is busy with

\* What a thread that waits must see at zero, in this order.
Looks(w) ==
  IF w = Voice
  THEN <<"sessions", "leases", "connecting", "external", "leases", "connecting">>
  ELSE <<"external", "leases", "connecting">>

Seen(w) ==
  LET what == Looks(w)[look[w]]
  IN  CASE what = "sessions"   -> external + realtime
        [] what = "external"   -> external
        [] what = "leases"     -> IF wssLease = Nobody THEN 0 ELSE 1
        [] what = "connecting" -> connecting

-----------------------------------------------------------------------------
\* The runtime mode is asked first, before the audio devices are leased: its
\* answer may be old when the guard is entered.
AdmitVoice ==
  /\ at[Voice] = "idle" /\ ~persisting
  /\ GoTo(Voice, "admitted")
  /\ UNCHANGED <<open, countVars, connecting, requests, lockVars, modeVars, look, httpd>>

VoiceBegins ==
  /\ at[Voice] = "admitted"
  /\ requests' = requests + 1
  /\ GoTo(Voice, "raise")
  /\ UNCHANGED <<open, countVars, connecting, lockVars, modeVars, look, httpd>>

RaiseFlag ==
  /\ at[Voice] = "raise"
  /\ voiceActive' = TRUE
  /\ GoTo(Voice, "wait")
  /\ UNCHANGED <<open, countVars, connecting, requests, lockVars, persisting, look, httpd>>

\* The retries of connect_realtime_wss_with_retry, after a failed admission.
VoiceRetries ==
  /\ at[Voice] = "failed"
  /\ GoTo(Voice, "tls")
  /\ UNCHANGED <<open, countVars, connecting, requests, lockVars, modeVars, look, httpd>>

VoiceStops ==
  /\ at[Voice] = "failed"
  /\ GoTo(Voice, "leave")
  /\ UNCHANGED <<open, countVars, connecting, requests, lockVars, modeVars, look, httpd>>

HangUp ==
  /\ at[Voice] = "connected"
  /\ open' = [open EXCEPT ![Voice] = FALSE]
  /\ realtime' = realtime - 1
  /\ GoTo(Voice, "leave")
  /\ UNCHANGED <<activeHttp, external, connecting, requests, lockVars, modeVars, look, httpd>>

LowerFlag ==
  /\ at[Voice] = "leave"
  /\ voiceActive' = FALSE
  /\ GoTo(Voice, "withdraw")
  /\ UNCHANGED <<open, countVars, connecting, requests, lockVars, persisting, look, httpd>>

-----------------------------------------------------------------------------
(* A request that writes (phases Persisting and Stopping) asks for a        *)
(* suspension; another (Active) only enters its phase.                      *)

BeginConfig(c) ==
  /\ at[c] = "idle" /\ httpd = Nobody
  /\ httpd' = c
  /\ persisting' = (c \in Writers)
  /\ GoTo(c, IF c \in Writers THEN "ask" ELSE "reading")
  /\ UNCHANGED <<open, countVars, connecting, requests, lockVars, voiceActive, look>>

AskSuspension(c) ==
  /\ at[c] = "ask"
  /\ requests' = requests + 1
  /\ GoTo(c, "wait")
  /\ UNCHANGED <<open, countVars, connecting, lockVars, modeVars, look, httpd>>

\* The server's thread stops waiting for the worker.
LeaveToWorker(c) ==
  /\ at[c] \in {"writing", "reading"} /\ httpd = c
  /\ httpd' = Nobody
  /\ UNCHANGED <<at, open, countVars, connecting, requests, lockVars, modeVars, look>>

\* Seeded fault: after a wait that failed the request stays counted.
FinishUnlessRefused(c) ==
  /\ at[c] \in {"writing", "reading", "refused"}
  /\ persisting' = FALSE
  /\ IF at[c] = "writing"
     THEN GoTo(c, "withdraw") /\ httpd' = httpd
     ELSE GoTo(c, "idle") /\ httpd' = IF httpd = c THEN Nobody ELSE httpd
  /\ UNCHANGED <<open, countVars, connecting, requests, lockVars, voiceActive, look>>

\* finish_status, or the failure of the wait: Success and Fail are phases
\* that forbid nothing, whoever had entered the phase they replace.
FinishConfig(c) ==
  /\ at[c] \in {"writing", "reading", "refused"}
  /\ persisting' = FALSE
  /\ IF at[c] = "reading"
     THEN GoTo(c, "idle") /\ httpd' = IF httpd = c THEN Nobody ELSE httpd
     ELSE GoTo(c, "withdraw") /\ httpd' = httpd
  /\ UNCHANGED <<open, countVars, connecting, requests, lockVars, voiceActive, look>>

\* CONFIG_ACTIVITY_WINDOW_SECS after the last phase was entered it is Idle.
\* A wait is not longer than the window.
WindowEnds ==
  /\ persisting
  /\ \A c \in Configs : at[c] \notin {"ask", "wait"}
  /\ persisting' = FALSE
  /\ UNCHANGED <<at, open, countVars, connecting, requests, lockVars, voiceActive, look, httpd>>

-----------------------------------------------------------------------------
(* The wait, and the end of the suspension.                                *)

SeesNone(w) ==
  /\ at[w] = "wait" /\ Seen(w) = 0
  /\ IF look[w] < Len(Looks(w))
     THEN look' = [look EXCEPT ![w] = @ + 1] /\ at' = at
     ELSE GoTo(w, IF w = Voice THEN "tls" ELSE "writing") /\ look' = [look EXCEPT ![w] = 1]
  /\ UNCHANGED <<open, countVars, connecting, requests, lockVars, modeVars, httpd>>

\* Not gone yet: sleep, and look at everything again.
SeesSome(w) ==
  /\ at[w] = "wait" /\ Seen(w) # 0
  /\ look' = [look EXCEPT ![w] = 1]
  /\ UNCHANGED <<at, open, countVars, connecting, requests, lockVars, modeVars, httpd>>

\* The deadline has passed; for voice, the heap may be too low all the while.
GiveUpWait(w) ==
  /\ at[w] = "wait" /\ (w = Voice \/ Seen(w) # 0)
  /\ look' = [look EXCEPT ![w] = 1]
  /\ GoTo(w, IF w = Voice THEN "leave" ELSE "refused")
  /\ UNCHANGED <<open, countVars, connecting, requests, lockVars, modeVars, httpd>>

WithdrawRequest(w) ==
  /\ at[w] = "withdraw"
  /\ requests' = requests - 1
  /\ GoTo(w, "idle")
  /\ httpd' = IF httpd = w THEN Nobody ELSE httpd
  /\ UNCHANGED <<open, countVars, connecting, lockVars, modeVars, look>>

WaitStep(w) == SeesNone(w) \/ SeesSome(w) \/ WithdrawRequest(w)

VoiceStep ==
  \/ ConnectStep(Voice) /\ UNCHANGED <<look, httpd>>
  \/ VoiceBegins \/ RaiseFlag \/ VoiceRetries \/ VoiceStops \/ LowerFlag
  \/ WaitStep(Voice)

ConfigStep(c) == AskSuspension(c) \/ FinishConfig(c) \/ (c \in Writers /\ WaitStep(c))
=============================================================================
