---------------------------- MODULE NetworkState ----------------------------
(* What the threads of an ESP build share to govern their connections      *)
(* (src/network/mod.rs): the counters, the permit for a TLS connection, the *)
(* two leases, and what the runtime mode is derived from. Every load and    *)
(* store of an atomic, and every lock, is a step; ACTIVE_WSS_COUNT, which   *)
(* moves with the count of the profile, is their sum.                       *)
EXTENDS Naturals, FiniteSets

CONSTANTS
  Gateways,    \* the threads that keep an external WSS session
  Voice,       \* the thread that runs the realtime voice sessions
  Configs,     \* requests of the configuration server
  Writers,     \* those whose route writes the configuration
  Callers,     \* threads that make HTTP requests
  Nobody,
  MaxSessions  \* MAX_CONCURRENT_HTTP

Connectors == Gateways \cup {Voice}
Suspenders == Writers \cup {Voice}
Threads    == Gateways \cup Configs \cup Callers \cup {Voice}

ASSUME ThreadsAssumption ==
  /\ \A S \in {Gateways, Configs, Callers} :
       Voice \notin S /\ Nobody \notin S /\ IsFiniteSet(S)
  /\ Voice # Nobody
  /\ Gateways \cap Configs = {} /\ Gateways \cap Callers = {}
  /\ Configs \cap Callers = {} /\ Writers \subseteq Configs

ASSUME MaxSessionsAssumption == MaxSessions \in Nat

VARIABLES
  at,          \* where each thread is
  open,        \* whether a connector's WebSocket is open
  activeHttp,  \* ACTIVE_HTTP_COUNT
  external,    \* ACTIVE_EXTERNAL_WSS_COUNT
  realtime,    \* ACTIVE_REALTIME_WSS_COUNT
  connecting,  \* EXTERNAL_WSS_CONNECTING_COUNT
  requests,    \* EXTERNAL_WSS_SUSPEND_REQUEST_COUNT
  tlsPermit,   \* who holds the mutex TLS_PERMIT
  wssLease,    \* who holds the lease ExternalWss
  tlsLease,    \* who holds the lease TlsHandshake
  voiceActive, \* VOICE_EXCLUSIVE_ACTIVE
  persisting   \* the configuration activity is in a phase that forbids sessions

countVars == <<activeHttp, external, realtime>>
lockVars  == <<tlsPermit, wssLease, tlsLease>>
modeVars  == <<voiceActive, persisting>>

GoTo(t, label) == at' = [at EXCEPT ![t] = label]

Sessions == activeHttp + external + realtime

\* Whether the runtime mode allows external sessions. In the two modes that
\* do not, an open session is ended and none is begun.
MayConnect == ~voiceActive /\ ~persisting

-----------------------------------------------------------------------------
(* A connection, the same for gateways and for voice: the TLS lease, then   *)
(* the permit, then the handshake; and the guards dropped in reverse.       *)

TakeTlsLease(t) ==
  /\ at[t] = "tls" /\ tlsLease = Nobody
  /\ tlsLease' = t
  /\ GoTo(t, "permit")
  /\ UNCHANGED <<open, countVars, connecting, requests, tlsPermit, wssLease, modeVars>>

\* The lease does not wait: its refusal is an error of the whole connection.
TlsLeaseDenied(t) ==
  /\ at[t] = "tls" /\ tlsLease # Nobody
  /\ GoTo(t, IF t = Voice THEN "leave" ELSE "failed")
  /\ UNCHANGED <<open, countVars, connecting, requests, lockVars, modeVars>>

TakePermit(t) ==
  /\ at[t] = "permit" /\ tlsPermit = Nobody
  /\ tlsPermit' = t
  /\ activeHttp' = activeHttp + 1
  /\ GoTo(t, "handshake")
  /\ UNCHANGED <<open, external, realtime, connecting, requests, wssLease, tlsLease, modeVars>>

\* Seeded fault: a permit that was not given is given back.
PermitFailsCounted(t) ==
  /\ at[t] = "permit"
  /\ GoTo(t, "uncount")
  /\ UNCHANGED <<open, countVars, connecting, requests, lockVars, modeVars>>

\* The permit is not free in time, or the heap is too low for TLS.
PermitFails(t) ==
  /\ at[t] = "permit"
  /\ tlsLease' = Nobody
  /\ GoTo(t, "failed")
  /\ UNCHANGED <<open, countVars, connecting, requests, tlsPermit, wssLease, modeVars>>

Connects(t) ==
  /\ at[t] = "handshake"
  /\ open' = [open EXCEPT ![t] = TRUE]
  /\ IF t = Voice THEN realtime' = realtime + 1 /\ external' = external
                  ELSE external' = external + 1 /\ realtime' = realtime
  /\ GoTo(t, "uncount")
  /\ UNCHANGED <<activeHttp, connecting, requests, lockVars, modeVars>>

HandshakeFails(t) ==
  /\ at[t] = "handshake"
  /\ GoTo(t, "uncount")
  /\ UNCHANGED <<open, countVars, connecting, requests, lockVars, modeVars>>

\* The permit's guard: the counter first, then the mutex.
Uncount(t) ==
  /\ at[t] = "uncount"
  /\ activeHttp' = activeHttp - 1
  /\ GoTo(t, "unlock")
  /\ UNCHANGED <<open, external, realtime, connecting, requests, lockVars, modeVars>>

Unlock(t) ==
  /\ at[t] = "unlock"
  /\ tlsPermit' = Nobody
  /\ GoTo(t, IF t \in Connectors THEN "untls" ELSE "idle")
  /\ UNCHANGED <<open, countVars, connecting, requests, wssLease, tlsLease, modeVars>>

DropTlsLease(t) ==
  /\ at[t] = "untls"
  /\ tlsLease' = Nobody
  /\ GoTo(t, IF open[t] THEN "connected" ELSE IF t = Voice THEN "leave" ELSE "failed")
  /\ UNCHANGED <<open, countVars, connecting, requests, tlsPermit, wssLease, modeVars>>

ConnectStep(t) ==
  \/ TakeTlsLease(t) \/ TlsLeaseDenied(t) \/ TakePermit(t) \/ PermitFails(t)
  \/ Connects(t) \/ HandshakeFails(t) \/ Uncount(t) \/ Unlock(t) \/ DropTlsLease(t)
=============================================================================
