--------------------------- MODULE TransportProofs ---------------------------
(* What Transport promises for any gateways, requests and callers: no        *)
(* counter goes below zero, nobody who has suspended the gateways has one    *)
(* beside it, and there are at most two sessions.                            *)
(*                                                                           *)
(* The counters say what the places of the threads say (CountInv,            *)
(* AttemptInv, RequestInv), so a thread that waits, or has waited, keeps the *)
(* requests above zero. Once such a thread has seen no lease, no gateway     *)
(* has one that it took before; and one that takes it later finds the        *)
(* request at its second look (GoneInv).                                     *)
EXTENDS Transport, FiniteSetTheorems, TLAPS

LeasePlaces ==
  {"leased", "tls", "permit", "handshake", "uncount", "unlock", "untls", "failed",
   "connected", "session", "ending", "release"}
PermitPlaces == {"handshake", "uncount", "unlock", "permitted", "exchange"}
AttemptPlaces ==
  {"attempt", "acquire", "leased", "back", "tls", "permit", "handshake", "uncount",
   "unlock", "untls", "failed", "undo", "connected"}
AskedPlaces ==
  {"raise", "wait", "tls", "permit", "handshake", "uncount", "unlock", "untls", "failed",
   "connected", "leave", "withdraw", "writing", "refused"}
MayBeOpen  == {"uncount", "unlock", "untls", "connected", "session", "ending"}
MustBeOpen == {"connected", "session", "ending"}

Allowed(t) == IF t \in Configs \ Writers THEN {"idle", "reading"} ELSE Places(t)

TypeInv ==
  /\ DOMAIN at = Threads /\ \A t \in Threads : at[t] \in Allowed(t)
  /\ open \in [Connectors -> BOOLEAN]
  /\ tlsPermit \in Threads \cup {Nobody}
  /\ wssLease \in Gateways \cup {Nobody}
  /\ tlsLease \in Threads \cup {Nobody}
  /\ voiceActive \in BOOLEAN /\ persisting \in BOOLEAN
  /\ DOMAIN look = Suspenders /\ \A w \in Suspenders : look[w] \in 1 .. Len(Looks(w))
  /\ httpd \in Configs \cup {Nobody}

LeaseInv  == \A g \in Gateways : wssLease = g <=> at[g] \in LeasePlaces
PermitInv == \A t \in Threads : tlsPermit = t <=> at[t] \in PermitPlaces
OpenInv ==
  \A k \in Connectors : /\ open[k] => at[k] \in MayBeOpen
                        /\ at[k] \in MustBeOpen => open[k]

HttpInv ==
  activeHttp = IF tlsPermit # Nobody /\ at[tlsPermit] # "unlock" THEN 1 ELSE 0
ExternalInv == external = IF \E g \in Gateways : open[g] THEN 1 ELSE 0
RealtimeInv == realtime = IF open[Voice] THEN 1 ELSE 0

\* The threads of S that a function has at a place of P.
ThoseAt(S, P, f) == {x \in S : f[x] \in P}

Attempting == ThoseAt(Gateways, AttemptPlaces, at)
Asking     == ThoseAt(Suspenders, AskedPlaces, at)
AttemptInv == connecting = Cardinality(Attempting)
RequestInv == requests = Cardinality(Asking)

\* Who has seen that no gateway has the lease, and has not left since.
HasSeen(w) == (at[w] = "wait" /\ look[w] >= 3) \/ HasTheNetwork(w)

LookInv == \A w \in Suspenders : at[w] # "wait" => look[w] = 1
GoneInv == \A w \in Suspenders, g \in Gateways : HasSeen(w) => ~Committed(g)

TransportInv ==
  /\ TypeInv /\ LeaseInv /\ PermitInv /\ OpenInv /\ HttpInv /\ ExternalInv /\ RealtimeInv
  /\ AttemptInv /\ RequestInv /\ LookInv /\ GoneInv

-----------------------------------------------------------------------------
(* Facts about the constants, and about counting.                            *)

\* The groups of threads are finite and apart from each other.
LEMMA ThreadFacts ==
  /\ IsFiniteSet(Gateways) /\ IsFiniteSet(Suspenders)
  /\ Voice \in Threads /\ Voice \in Connectors /\ Voice \in Suspenders
  /\ Gateways \subseteq Threads /\ Configs \subseteq Threads /\ Callers \subseteq Threads
  /\ Gateways \subseteq Connectors /\ Suspenders \subseteq Threads
  /\ Connectors = Gateways \cup {Voice} /\ Suspenders = Writers \cup {Voice}
  /\ Writers \subseteq Configs /\ Nobody \notin Threads
  /\ Threads = Gateways \cup Configs \cup Callers \cup {Voice}
  /\ Gateways \cap Suspenders = {} /\ Gateways \cap Callers = {} /\ Gateways \cap Configs = {}
  /\ Configs \cap Callers = {} /\ Voice \notin Gateways \cup Configs \cup Callers
PROOF
<1>1. IsFiniteSet(Gateways) /\ IsFiniteSet(Configs)
  BY ThreadsAssumption
<1>2. IsFiniteSet(Writers)
  BY <1>1, ThreadsAssumption, FS_Subset
<1>3. IsFiniteSet(Suspenders)
  BY <1>2, FS_AddElement DEF Suspenders
<1> QED BY <1>1, <1>3, ThreadsAssumption DEF Threads, Connectors, Suspenders

\* One thread moves: the number of threads at certain places stays, or changes
\* by one.
LEMMA CountMoves ==
  ASSUME NEW S, IsFiniteSet(S), NEW P, NEW a, NEW b, NEW t \in S,
         \A x \in S : x # t => b[x] = a[x]
  PROVE  /\ Cardinality(ThoseAt(S, P, a)) \in Nat
         /\ a[t] \notin P /\ b[t] \in P =>
              Cardinality(ThoseAt(S, P, b)) = Cardinality(ThoseAt(S, P, a)) + 1
         /\ a[t] \in P /\ b[t] \notin P =>
              Cardinality(ThoseAt(S, P, b)) = Cardinality(ThoseAt(S, P, a)) - 1
PROOF
<1> DEFINE A == ThoseAt(S, P, a)
           B == ThoseAt(S, P, b)
<1>1. IsFiniteSet(A) /\ IsFiniteSet(B)
  BY FS_Subset DEF ThoseAt
<1>2. Cardinality(A) \in Nat /\ Cardinality(B) \in Nat
  BY <1>1, FS_CardinalityType
<1>3. ASSUME a[t] \notin P, b[t] \in P
      PROVE  Cardinality(B) = Cardinality(A) + 1
  <2>1. B = A \cup {t} /\ t \notin A
    BY <1>3 DEF ThoseAt
  <2> QED BY <1>1, <2>1, FS_AddElement
<1>4. ASSUME a[t] \in P, b[t] \notin P
      PROVE  Cardinality(B) = Cardinality(A) - 1
  <2>1. A = B \cup {t} /\ t \notin B
    BY <1>4 DEF ThoseAt
  <2>2. Cardinality(A) = Cardinality(B) + 1
    BY <1>1, <2>1, FS_AddElement
  <2> QED BY <1>2, <2>2
<1> QED BY <1>2, <1>3, <1>4

\* A thread that has asked keeps the requests above zero.
LEMMA AskedIsCounted ==
  ASSUME TransportInv, NEW w \in Suspenders, at[w] \in AskedPlaces
  PROVE  requests # 0
PROOF
<1>1. w \in Asking
  BY DEF Asking, ThoseAt
<1>2. IsFiniteSet(Asking)
  BY ThreadFacts, FS_Subset DEF Asking, ThoseAt
<1>3. Cardinality(Asking) # 0
  BY <1>1, <1>2, FS_EmptySet
<1> QED BY <1>3 DEF TransportInv, RequestInv

-----------------------------------------------------------------------------
(* One thread moves and a part of the state stays: what the conjuncts of the *)
(* invariant need of its old and its new place.                              *)

\* Only the place of the thread that moves is another.
LEMMA MoveSays ==
  ASSUME TypeInv, NEW t \in Threads, NEW label \in Allowed(t), GoTo(t, label)
  PROVE  /\ DOMAIN at' = Threads /\ \A x \in Threads : at'[x] \in Allowed(x)
         /\ at'[t] = label
         /\ \A x \in Threads : x # t => at'[x] = at[x]
PROOF
<1> QED BY DEF TypeInv, GoTo

\* The lease of the sessions, when a gateway moves among the places with it,
\* or among those without.
LEMMA LeaseStays ==
  ASSUME TypeInv, LeaseInv, NEW t \in Threads, NEW label \in Allowed(t), GoTo(t, label),
         wssLease' = wssLease,
         t \in Gateways => (at[t] \in LeasePlaces <=> label \in LeasePlaces)
  PROVE  LeaseInv'
PROOF
<1> QED BY MoveSays, ThreadFacts DEF LeaseInv

\* The permit, likewise.
LEMMA PermitStays ==
  ASSUME TypeInv, PermitInv, NEW t \in Threads, NEW label \in Allowed(t), GoTo(t, label),
         tlsPermit' = tlsPermit,
         at[t] \in PermitPlaces <=> label \in PermitPlaces
  PROVE  PermitInv'
PROOF
<1> QED BY MoveSays DEF PermitInv

\* The count of the permit's holder, unless the holder has just uncounted.
LEMMA HttpStays ==
  ASSUME TypeInv, HttpInv, NEW t \in Threads, NEW label \in Allowed(t), GoTo(t, label),
         tlsPermit' = tlsPermit, activeHttp' = activeHttp,
         at[t] = "unlock" <=> label = "unlock"
  PROVE  HttpInv'
PROOF
<1>1. tlsPermit # Nobody => tlsPermit \in Threads
  BY DEF TypeInv
<1> QED BY <1>1, MoveSays DEF HttpInv

\* The sessions and their counts.
LEMMA SessionsStay ==
  ASSUME TypeInv, OpenInv, ExternalInv, RealtimeInv,
         NEW t \in Threads, NEW label \in Allowed(t), GoTo(t, label),
         open' = open, external' = external, realtime' = realtime,
         t \in Connectors => /\ open[t] => label \in MayBeOpen
                             /\ label \in MustBeOpen => open[t]
  PROVE  OpenInv' /\ ExternalInv' /\ RealtimeInv'
PROOF
<1>1. OpenInv'
  <2> SUFFICES ASSUME NEW k \in Connectors
               PROVE  /\ open[k] => at'[k] \in MayBeOpen
                      /\ at'[k] \in MustBeOpen => open[k]
    BY DEF OpenInv
  <2>1. k \in Threads
    BY ThreadFacts
  <2>2. CASE k = t
    BY <2>2, MoveSays
  <2>3. CASE k # t
    BY <2>1, <2>3, MoveSays DEF OpenInv
  <2> QED BY <2>2, <2>3
<1>2. ExternalInv' /\ RealtimeInv'
  BY DEF ExternalInv, RealtimeInv
<1> QED BY <1>1, <1>2

\* The attempts to connect.
LEMMA AttemptsStay ==
  ASSUME TypeInv, AttemptInv, NEW t \in Threads, NEW label \in Allowed(t), GoTo(t, label),
         connecting' = connecting,
         t \in Gateways => (at[t] \in AttemptPlaces <=> label \in AttemptPlaces)
  PROVE  AttemptInv'
PROOF
<1>1. Attempting' = Attempting
  BY MoveSays, ThreadFacts DEF Attempting, ThoseAt
<1> QED BY <1>1 DEF AttemptInv

\* The requests to suspend.
LEMMA RequestsStay ==
  ASSUME TypeInv, RequestInv, NEW t \in Threads, NEW label \in Allowed(t), GoTo(t, label),
         requests' = requests,
         t \in Suspenders => (at[t] \in AskedPlaces <=> label \in AskedPlaces)
  PROVE  RequestInv'
PROOF
<1>1. Asking' = Asking
  BY MoveSays, ThreadFacts DEF Asking, ThoseAt
<1> QED BY <1>1 DEF RequestInv

\* The looks of those that do not wait.
LEMMA LooksStay ==
  ASSUME TypeInv, LookInv, NEW t \in Threads, NEW label \in Allowed(t), GoTo(t, label),
         look' = look,
         t \in Suspenders => (label # "wait" => look[t] = 1)
  PROVE  LookInv'
PROOF
<1> QED BY MoveSays, ThreadFacts DEF LookInv

\* The attempts, when a gateway begins one or ends it.
LEMMA AttemptsMove ==
  ASSUME TypeInv, NEW g \in Gateways, NEW label \in Allowed(g), GoTo(g, label)
  PROVE  /\ Cardinality(Attempting) \in Nat
         /\ at[g] \notin AttemptPlaces /\ label \in AttemptPlaces =>
              Cardinality(Attempting)' = Cardinality(Attempting) + 1
         /\ at[g] \in AttemptPlaces /\ label \notin AttemptPlaces =>
              Cardinality(Attempting)' = Cardinality(Attempting) - 1
PROOF
<1>1. at'[g] = label /\ \A x \in Gateways : x # g => at'[x] = at[x]
  BY MoveSays, ThreadFacts
<1>2. PICK now : now = at
  OBVIOUS
<1>3. PICK later : later = at'
  OBVIOUS
<1> DEFINE Now == ThoseAt(Gateways, AttemptPlaces, now)
           Later == ThoseAt(Gateways, AttemptPlaces, later)
<1>4. Now = Attempting /\ Later = Attempting'
  BY <1>2, <1>3 DEF Attempting
<1>5. \A x \in Gateways : x # g => later[x] = now[x]
  BY <1>1, <1>2, <1>3
<1>6. IsFiniteSet(Gateways)
  BY ThreadFacts
<1>7. /\ Cardinality(Now) \in Nat
      /\ now[g] \notin AttemptPlaces /\ later[g] \in AttemptPlaces =>
           Cardinality(Later) = Cardinality(Now) + 1
      /\ now[g] \in AttemptPlaces /\ later[g] \notin AttemptPlaces =>
           Cardinality(Later) = Cardinality(Now) - 1
  BY <1>5, <1>6, CountMoves
<1> QED BY <1>1, <1>2, <1>3, <1>4, <1>7

\* The requests, when a thread makes one or withdraws it.
LEMMA RequestsMove ==
  ASSUME TypeInv, NEW w \in Suspenders, NEW label \in Allowed(w), GoTo(w, label)
  PROVE  /\ Cardinality(Asking) \in Nat
         /\ at[w] \notin AskedPlaces /\ label \in AskedPlaces =>
              Cardinality(Asking)' = Cardinality(Asking) + 1
         /\ at[w] \in AskedPlaces /\ label \notin AskedPlaces =>
              Cardinality(Asking)' = Cardinality(Asking) - 1
PROOF
<1>1. at'[w] = label /\ \A x \in Suspenders : x # w => at'[x] = at[x]
  BY MoveSays, ThreadFacts
<1>2. PICK now : now = at
  OBVIOUS
<1>3. PICK later : later = at'
  OBVIOUS
<1> DEFINE Now == ThoseAt(Suspenders, AskedPlaces, now)
           Later == ThoseAt(Suspenders, AskedPlaces, later)
<1>4. Now = Asking /\ Later = Asking'
  BY <1>2, <1>3 DEF Asking
<1>5. \A x \in Suspenders : x # w => later[x] = now[x]
  BY <1>1, <1>2, <1>3
<1>6. IsFiniteSet(Suspenders)
  BY ThreadFacts
<1>7. /\ Cardinality(Now) \in Nat
      /\ now[w] \notin AskedPlaces /\ later[w] \in AskedPlaces =>
           Cardinality(Later) = Cardinality(Now) + 1
      /\ now[w] \in AskedPlaces /\ later[w] \notin AskedPlaces =>
           Cardinality(Later) = Cardinality(Now) - 1
  BY <1>5, <1>6, CountMoves
<1> QED BY <1>1, <1>2, <1>3, <1>4, <1>7

NetworkPlaces ==
  {"tls", "permit", "handshake", "uncount", "unlock", "untls", "failed", "connected", "writing"}

\* Nobody comes to have the network, and no gateway goes for a session.
LEMMA GoneStays ==
  ASSUME TypeInv, GoneInv, NEW t \in Threads, NEW label \in Allowed(t), GoTo(t, label),
         look' = look,
         \A g \in Gateways : open'[g] => open[g],
         t \in Gateways => (label \in {"tls", "permit", "handshake"} => Committed(t)),
         t \in Suspenders => /\ label = "wait" => look[t] = 1
                             /\ label \in NetworkPlaces => HasTheNetwork(t)
  PROVE  GoneInv'
PROOF
<1> SUFFICES ASSUME NEW w \in Suspenders, NEW g \in Gateways, HasSeen(w)', Committed(g)'
             PROVE  FALSE
  BY DEF GoneInv
<1>1. HasSeen(w)
  <2>1. CASE w = t
    <3>1. at'[t] = label
      BY MoveSays
    <3>2. t \in Suspenders
      BY <2>1
    <3>3. ~(at'[w] = "wait" /\ look'[w] >= 3)
      BY <2>1, <3>1, <3>2
    <3>4. HasTheNetwork(w)'
      BY <3>3 DEF HasSeen
    <3>5. label \in NetworkPlaces
      BY <2>1, <3>1, <3>4 DEF HasTheNetwork, NetworkPlaces
    <3> QED BY <2>1, <3>2, <3>5 DEF HasSeen
  <2>2. CASE w # t
    BY <2>2, MoveSays, ThreadFacts DEF HasSeen, HasTheNetwork
  <2> QED BY <2>1, <2>2
<1>2. Committed(g)
  <2>1. CASE g = t
    BY <2>1, MoveSays, ThreadFacts DEF Committed
  <2>2. CASE g # t
    BY <2>2, MoveSays, ThreadFacts DEF Committed
  <2> QED BY <2>1, <2>2
<1> QED BY <1>1, <1>2 DEF GoneInv

\* A move among places that are alike for every conjunct.
Alike(t, label) ==
  /\ label \in Allowed(t)
  /\ t \in Gateways =>
       /\ at[t] \in LeasePlaces <=> label \in LeasePlaces
       /\ at[t] \in AttemptPlaces <=> label \in AttemptPlaces
       /\ label \in {"tls", "permit", "handshake"} => Committed(t)
  /\ at[t] \in PermitPlaces <=> label \in PermitPlaces
  /\ at[t] = "unlock" <=> label = "unlock"
  /\ t \in Connectors => /\ open[t] => label \in MayBeOpen
                         /\ label \in MustBeOpen => open[t]
  /\ t \in Suspenders =>
       /\ at[t] \in AskedPlaces <=> label \in AskedPlaces
       /\ look[t] = 1
       /\ label \in NetworkPlaces => HasTheNetwork(t)

OtherTypes ==
  /\ tlsLease \in Threads \cup {Nobody}
  /\ voiceActive \in BOOLEAN /\ persisting \in BOOLEAN
  /\ httpd \in Configs \cup {Nobody}

\* A step that is nothing but such a move, whatever it does to the lease of
\* the handshake, to the mode and to the server's thread.
LEMMA AlikeMove ==
  ASSUME TransportInv, NEW t \in Threads, NEW label, Alike(t, label), GoTo(t, label),
         UNCHANGED <<open, countVars, connecting, requests, tlsPermit, wssLease, look>>,
         OtherTypes'
  PROVE  TransportInv'
PROOF
<1> USE DEF TransportInv, countVars
<1>1. TypeInv'
  BY MoveSays DEF TypeInv, Alike, OtherTypes
<1>2. LeaseInv' /\ PermitInv' /\ HttpInv'
  BY LeaseStays, PermitStays, HttpStays DEF Alike
<1>3. OpenInv' /\ ExternalInv' /\ RealtimeInv'
  BY SessionsStay DEF Alike
<1>4. AttemptInv' /\ RequestInv' /\ LookInv'
  BY AttemptsStay, RequestsStay, LooksStay DEF Alike
<1>5. GoneInv'
  BY GoneStays DEF Alike
<1> QED BY <1>1, <1>2, <1>3, <1>4, <1>5

\* The steps of a connection that change neither a count nor the permit.
LEMMA PlainConnectSteps ==
  ASSUME TransportInv, NEW t \in Connectors, UNCHANGED <<look, httpd>>,
         \/ TakeTlsLease(t) \/ TlsLeaseDenied(t) \/ PermitFails(t)
         \/ HandshakeFails(t) \/ DropTlsLease(t)
  PROVE  TransportInv'
PROOF
<1> USE ThreadFacts DEF LeasePlaces, PermitPlaces, AttemptPlaces, AskedPlaces, NetworkPlaces,
         MayBeOpen, MustBeOpen, Allowed, Places, GatewayPlaces, VoicePlaces, ConfigPlaces,
         CallerPlaces, Committed, HasTheNetwork, OtherTypes
<1>0. TypeInv /\ OpenInv /\ LookInv
  BY DEF TransportInv
<1>1. ASSUME TakeTlsLease(t) PROVE TransportInv'
  <2>1. Alike(t, "permit")
    BY <1>0, <1>1 DEF TakeTlsLease, Alike, TypeInv, OpenInv, LookInv
  <2> QED BY <1>0, <1>1, <2>1, AlikeMove DEF TakeTlsLease, TypeInv, lockVars, modeVars
<1>2. ASSUME TlsLeaseDenied(t) PROVE TransportInv'
  <2>1. Alike(t, IF t = Voice THEN "leave" ELSE "failed")
    BY <1>0, <1>2 DEF TlsLeaseDenied, Alike, TypeInv, OpenInv, LookInv
  <2> QED BY <1>0, <1>2, <2>1, AlikeMove DEF TlsLeaseDenied, TypeInv, lockVars, modeVars
<1>3. ASSUME PermitFails(t) PROVE TransportInv'
  <2>1. Alike(t, "failed")
    BY <1>0, <1>3 DEF PermitFails, Alike, TypeInv, OpenInv, LookInv
  <2> QED BY <1>0, <1>3, <2>1, AlikeMove DEF PermitFails, TypeInv, lockVars, modeVars
<1>4. ASSUME HandshakeFails(t) PROVE TransportInv'
  <2>1. Alike(t, "uncount")
    BY <1>0, <1>4 DEF HandshakeFails, Alike, TypeInv, OpenInv, LookInv
  <2> QED BY <1>0, <1>4, <2>1, AlikeMove DEF HandshakeFails, TypeInv, lockVars, modeVars
<1>5. ASSUME DropTlsLease(t) PROVE TransportInv'
  <2>1. Alike(t, IF open[t] THEN "connected" ELSE IF t = Voice THEN "leave" ELSE "failed")
    BY <1>0, <1>5 DEF DropTlsLease, Alike, TypeInv, OpenInv, LookInv
  <2> QED BY <1>0, <1>5, <2>1, AlikeMove DEF DropTlsLease, TypeInv, lockVars, modeVars
<1> QED BY <1>1, <1>2, <1>3, <1>4, <1>5

\* The steps of a gateway that only bring it to another place.
LEMMA PlainGatewaySteps ==
  ASSUME TransportInv, NEW g \in Gateways, UNCHANGED <<look, httpd>>,
         \/ PassGate(g) \/ Resume(g) \/ GoOn(g) \/ LeaseDenied(g)
         \/ StopSession(g) \/ LoseSession(g)
  PROVE  TransportInv'
PROOF
<1> USE ThreadFacts DEF LeasePlaces, PermitPlaces, AttemptPlaces, AskedPlaces, NetworkPlaces,
         MayBeOpen, MustBeOpen, Allowed, Places, GatewayPlaces, VoicePlaces, ConfigPlaces,
         CallerPlaces, Committed, HasTheNetwork, OtherTypes
<1>0. TypeInv /\ OpenInv /\ LookInv
  BY DEF TransportInv
<1>1. ASSUME PassGate(g) PROVE TransportInv'
  <2>1. Alike(g, "resume")
    BY <1>0, <1>1 DEF PassGate, Alike, TypeInv, OpenInv, LookInv
  <2> QED BY <1>0, <1>1, <2>1, AlikeMove DEF PassGate, TypeInv, lockVars, modeVars
<1>2. ASSUME Resume(g) PROVE TransportInv'
  <2>1. Alike(g, "begin")
    BY <1>0, <1>2 DEF Resume, Alike, TypeInv, OpenInv, LookInv
  <2> QED BY <1>0, <1>2, <2>1, AlikeMove DEF Resume, TypeInv, lockVars, modeVars
<1>3. ASSUME GoOn(g) PROVE TransportInv'
  <2>1. Alike(g, "acquire")
    BY <1>0, <1>3 DEF GoOn, Alike, TypeInv, OpenInv, LookInv
  <2> QED BY <1>0, <1>3, <2>1, AlikeMove DEF GoOn, TypeInv, lockVars, modeVars
<1>4. ASSUME LeaseDenied(g) PROVE TransportInv'
  <2>1. Alike(g, "undo")
    BY <1>0, <1>4 DEF LeaseDenied, Alike, TypeInv, OpenInv, LookInv
  <2> QED BY <1>0, <1>4, <2>1, AlikeMove DEF LeaseDenied, TypeInv, lockVars, modeVars
<1>5. ASSUME StopSession(g) PROVE TransportInv'
  <2>1. Alike(g, "ending")
    BY <1>0, <1>5 DEF StopSession, Alike, TypeInv, OpenInv, LookInv
  <2> QED BY <1>0, <1>5, <2>1, AlikeMove DEF StopSession, TypeInv, lockVars, modeVars
<1>6. ASSUME LoseSession(g) PROVE TransportInv'
  <2>1. Alike(g, "ending")
    BY <1>0, <1>6 DEF LoseSession, Alike, TypeInv, OpenInv, LookInv
  <2> QED BY <1>0, <1>6, <2>1, AlikeMove DEF LoseSession, TypeInv, lockVars, modeVars
<1> QED BY <1>1, <1>2, <1>3, <1>4, <1>5, <1>6

\* The steps of voice that change no count.
LEMMA PlainVoiceSteps ==
  ASSUME TransportInv, AdmitVoice \/ RaiseFlag \/ VoiceRetries \/ VoiceStops \/ LowerFlag
  PROVE  TransportInv'
PROOF
<1> USE ThreadFacts DEF LeasePlaces, PermitPlaces, AttemptPlaces, AskedPlaces, NetworkPlaces,
         MayBeOpen, MustBeOpen, Allowed, Places, GatewayPlaces, VoicePlaces, ConfigPlaces,
         CallerPlaces, Committed, HasTheNetwork, OtherTypes
<1>0. TypeInv /\ OpenInv /\ LookInv
  BY DEF TransportInv
<1>1. ASSUME AdmitVoice PROVE TransportInv'
  <2>1. Alike(Voice, "admitted")
    BY <1>0, <1>1 DEF AdmitVoice, Alike, TypeInv, OpenInv, LookInv
  <2> QED BY <1>0, <1>1, <2>1, AlikeMove DEF AdmitVoice, TypeInv, lockVars, modeVars
<1>2. ASSUME RaiseFlag PROVE TransportInv'
  <2>1. Alike(Voice, "wait")
    BY <1>0, <1>2 DEF RaiseFlag, Alike, TypeInv, OpenInv, LookInv
  <2> QED BY <1>0, <1>2, <2>1, AlikeMove DEF RaiseFlag, TypeInv, lockVars, modeVars
<1>3. ASSUME VoiceRetries PROVE TransportInv'
  <2>1. Alike(Voice, "tls")
    BY <1>0, <1>3 DEF VoiceRetries, Alike, TypeInv, OpenInv, LookInv
  <2> QED BY <1>0, <1>3, <2>1, AlikeMove DEF VoiceRetries, TypeInv, lockVars, modeVars
<1>4. ASSUME VoiceStops PROVE TransportInv'
  <2>1. Alike(Voice, "leave")
    BY <1>0, <1>4 DEF VoiceStops, Alike, TypeInv, OpenInv, LookInv
  <2> QED BY <1>0, <1>4, <2>1, AlikeMove DEF VoiceStops, TypeInv, lockVars, modeVars
<1>5. ASSUME LowerFlag PROVE TransportInv'
  <2>1. Alike(Voice, "withdraw")
    BY <1>0, <1>5 DEF LowerFlag, Alike, TypeInv, OpenInv, LookInv
  <2> QED BY <1>0, <1>5, <2>1, AlikeMove DEF LowerFlag, TypeInv, lockVars, modeVars
<1> QED BY <1>1, <1>2, <1>3, <1>4, <1>5

\* A request enters its phase, and leaves it.
LEMMA PlainConfigSteps ==
  ASSUME TransportInv, NEW c \in Configs, BeginConfig(c) \/ FinishConfig(c)
  PROVE  TransportInv'
PROOF
<1> USE ThreadFacts DEF LeasePlaces, PermitPlaces, AttemptPlaces, AskedPlaces, NetworkPlaces,
         MayBeOpen, MustBeOpen, Allowed, Places, GatewayPlaces, VoicePlaces, ConfigPlaces,
         CallerPlaces, Committed, HasTheNetwork, OtherTypes
<1>0. TypeInv /\ OpenInv /\ LookInv
  BY DEF TransportInv
<1>1. ASSUME BeginConfig(c) PROVE TransportInv'
  <2>1. Alike(c, IF c \in Writers THEN "ask" ELSE "reading")
    BY <1>0, <1>1 DEF BeginConfig, Alike, TypeInv, OpenInv, LookInv
  <2> QED BY <1>0, <1>1, <2>1, AlikeMove DEF BeginConfig, TypeInv, lockVars, modeVars
<1>2. ASSUME FinishConfig(c) PROVE TransportInv'
  <2>1. Alike(c, IF at[c] = "reading" THEN "idle" ELSE "withdraw")
    BY <1>0, <1>2 DEF FinishConfig, Alike, TypeInv, OpenInv, LookInv
  <2>2. GoTo(c, IF at[c] = "reading" THEN "idle" ELSE "withdraw")
    BY <1>2 DEF FinishConfig
  <2>3. httpd' \in {httpd, Nobody} /\ persisting' = FALSE
    BY <1>2 DEF FinishConfig
  <2>4. OtherTypes'
    BY <1>0, <1>2, <2>3 DEF FinishConfig, TypeInv, lockVars
  <2> QED BY <1>2, <2>1, <2>2, <2>4, AlikeMove DEF FinishConfig, lockVars
<1> QED BY <1>1, <1>2

\* The steps of an HTTP caller that change neither the count nor the permit.
LEMMA PlainCallerSteps ==
  ASSUME TransportInv, NEW h \in Callers,
         \/ \E high \in BOOLEAN : AskPermit(h, high)
         \/ PermitRefused(h) \/ BeginExchange(h) \/ ExchangeDenied(h) \/ EndExchange(h)
  PROVE  TransportInv'
PROOF
<1> USE ThreadFacts DEF LeasePlaces, PermitPlaces, AttemptPlaces, AskedPlaces, NetworkPlaces,
         MayBeOpen, MustBeOpen, Allowed, Places, GatewayPlaces, VoicePlaces, ConfigPlaces,
         CallerPlaces, Committed, HasTheNetwork, OtherTypes
<1>0. TypeInv /\ OpenInv /\ LookInv
  BY DEF TransportInv
<1>1. ASSUME \E high \in BOOLEAN : AskPermit(h, high) PROVE TransportInv'
  <2>1. Alike(h, "queue")
    BY <1>0, <1>1 DEF AskPermit, Alike, TypeInv, OpenInv, LookInv
  <2> QED BY <1>0, <1>1, <2>1, AlikeMove DEF AskPermit, TypeInv, lockVars, modeVars
<1>2. ASSUME PermitRefused(h) PROVE TransportInv'
  <2>1. Alike(h, "idle")
    BY <1>0, <1>2 DEF PermitRefused, Alike, TypeInv, OpenInv, LookInv
  <2> QED BY <1>0, <1>2, <2>1, AlikeMove DEF PermitRefused, TypeInv, lockVars, modeVars
<1>3. ASSUME BeginExchange(h) PROVE TransportInv'
  <2>1. Alike(h, "exchange")
    BY <1>0, <1>3 DEF BeginExchange, Alike, TypeInv, OpenInv, LookInv
  <2> QED BY <1>0, <1>3, <2>1, AlikeMove DEF BeginExchange, TypeInv, lockVars, modeVars
<1>4. ASSUME ExchangeDenied(h) PROVE TransportInv'
  <2>1. Alike(h, "uncount")
    BY <1>0, <1>4 DEF ExchangeDenied, Alike, TypeInv, OpenInv, LookInv
  <2> QED BY <1>0, <1>4, <2>1, AlikeMove DEF ExchangeDenied, TypeInv, lockVars, modeVars
<1>5. ASSUME EndExchange(h) PROVE TransportInv'
  <2>1. Alike(h, "uncount")
    BY <1>0, <1>5 DEF EndExchange, Alike, TypeInv, OpenInv, LookInv
  <2> QED BY <1>0, <1>5, <2>1, AlikeMove DEF EndExchange, TypeInv, lockVars, modeVars
<1> QED BY <1>1, <1>2, <1>3, <1>4, <1>5

-----------------------------------------------------------------------------
(* The steps that change a count, a lock or a look, and the conjunct each is *)
(* about.                                                                    *)

\* The permit is uncounted while it is still held.
LEMMA UncountStep ==
  ASSUME TransportInv, NEW t \in Threads, Uncount(t), UNCHANGED <<look, httpd>>
  PROVE  TransportInv'
PROOF
<1> USE ThreadFacts DEF TransportInv, Uncount, countVars, lockVars, modeVars,
         LeasePlaces, PermitPlaces, AttemptPlaces, AskedPlaces, NetworkPlaces,
         MayBeOpen, MustBeOpen, Allowed, Places, GatewayPlaces, VoicePlaces, ConfigPlaces,
         CallerPlaces, Committed, HasTheNetwork
<1> DEFINE label == "unlock"
<1>0. label \in Allowed(t) /\ GoTo(t, label)
  BY DEF TypeInv
<1>1. TypeInv'
  BY <1>0, MoveSays DEF TypeInv
<1>2. LeaseInv'
  BY <1>0, LeaseStays
<1>3. PermitInv'
  BY <1>0, PermitStays
<1>4. HttpInv'
  BY <1>0, MoveSays DEF HttpInv, PermitInv
<1>5. OpenInv' /\ ExternalInv' /\ RealtimeInv'
  BY <1>0, SessionsStay DEF OpenInv
<1>6. AttemptInv'
  BY <1>0, AttemptsStay
<1>7. RequestInv'
  BY <1>0, RequestsStay
<1>8. LookInv'
  BY <1>0, LooksStay DEF LookInv
<1>9. GoneInv'
  BY <1>0, GoneStays DEF LookInv
<1> QED BY <1>1, <1>2, <1>3, <1>4, <1>5, <1>6, <1>7, <1>8, <1>9

\* The permit is free again.
LEMMA UnlockStep ==
  ASSUME TransportInv, NEW t \in Threads, Unlock(t), UNCHANGED <<look, httpd>>
  PROVE  TransportInv'
PROOF
<1> USE ThreadFacts DEF TransportInv, Unlock, countVars, lockVars, modeVars,
         LeasePlaces, PermitPlaces, AttemptPlaces, AskedPlaces, NetworkPlaces,
         MayBeOpen, MustBeOpen, Allowed, Places, GatewayPlaces, VoicePlaces, ConfigPlaces,
         CallerPlaces, Committed, HasTheNetwork
<1> DEFINE label == IF t \in Connectors THEN "untls" ELSE "idle"
<1>0. label \in Allowed(t) /\ GoTo(t, label)
  BY DEF TypeInv
<1>1. TypeInv'
  BY <1>0, MoveSays DEF TypeInv
<1>2. LeaseInv'
  BY <1>0, LeaseStays
<1>3. PermitInv'
  BY <1>0, MoveSays DEF PermitInv
<1>4. HttpInv'
  BY <1>0, MoveSays DEF HttpInv, PermitInv
<1>5. OpenInv' /\ ExternalInv' /\ RealtimeInv'
  BY <1>0, SessionsStay DEF OpenInv
<1>6. AttemptInv'
  BY <1>0, AttemptsStay
<1>7. RequestInv'
  <2>1. t \in Suspenders => t = Voice \/ t \in Configs
    OBVIOUS
  <2>2. t \in Suspenders => t = Voice
    BY <2>1 DEF TypeInv
  <2>3. t \in Suspenders => label = "untls"
    BY <2>2
  <2>4. t \in Suspenders => (at[t] \in AskedPlaces <=> label \in AskedPlaces)
    BY <2>3
  <2> QED BY <1>0, <2>4, RequestsStay
<1>8. LookInv'
  BY <1>0, LooksStay DEF LookInv
<1>9. GoneInv'
  BY <1>0, GoneStays DEF LookInv
<1> QED BY <1>1, <1>2, <1>3, <1>4, <1>5, <1>6, <1>7, <1>8, <1>9

\* A connector takes the free permit.
LEMMA TakePermitStep ==
  ASSUME TransportInv, NEW t \in Connectors, TakePermit(t), UNCHANGED <<look, httpd>>
  PROVE  TransportInv'
PROOF
<1> USE ThreadFacts DEF TransportInv, TakePermit, countVars, lockVars, modeVars,
         LeasePlaces, PermitPlaces, AttemptPlaces, AskedPlaces, NetworkPlaces,
         MayBeOpen, MustBeOpen, Allowed, Places, GatewayPlaces, VoicePlaces, ConfigPlaces,
         CallerPlaces, Committed, HasTheNetwork
<1> DEFINE label == "handshake"
<1>0. label \in Allowed(t) /\ GoTo(t, label)
  BY DEF TypeInv
<1>1. TypeInv'
  BY <1>0, MoveSays DEF TypeInv
<1>2. LeaseInv'
  BY <1>0, LeaseStays
<1>3. PermitInv'
  BY <1>0, MoveSays DEF PermitInv
<1>4. HttpInv'
  BY <1>0, MoveSays DEF HttpInv, PermitInv
<1>5. OpenInv' /\ ExternalInv' /\ RealtimeInv'
  BY <1>0, SessionsStay DEF OpenInv
<1>6. AttemptInv'
  BY <1>0, AttemptsStay
<1>7. RequestInv'
  BY <1>0, RequestsStay
<1>8. LookInv'
  BY <1>0, LooksStay DEF LookInv
<1>9. GoneInv'
  BY <1>0, GoneStays DEF LookInv
<1> QED BY <1>1, <1>2, <1>3, <1>4, <1>5, <1>6, <1>7, <1>8, <1>9

\* A caller takes the free permit.
LEMMA GetPermitStep ==
  ASSUME TransportInv, NEW h \in Callers, GetPermit(h)
  PROVE  TransportInv'
PROOF
<1> USE ThreadFacts DEF TransportInv, GetPermit, countVars, lockVars, modeVars,
         LeasePlaces, PermitPlaces, AttemptPlaces, AskedPlaces, NetworkPlaces,
         MayBeOpen, MustBeOpen, Allowed, Places, GatewayPlaces, VoicePlaces, ConfigPlaces,
         CallerPlaces, Committed, HasTheNetwork
<1> DEFINE label == "permitted"
<1>0. label \in Allowed(h) /\ GoTo(h, label)
  BY DEF TypeInv
<1>1. TypeInv'
  BY <1>0, MoveSays DEF TypeInv
<1>2. LeaseInv'
  BY <1>0, LeaseStays
<1>3. PermitInv'
  BY <1>0, MoveSays DEF PermitInv
<1>4. HttpInv'
  BY <1>0, MoveSays DEF HttpInv, PermitInv
<1>5. OpenInv' /\ ExternalInv' /\ RealtimeInv'
  BY <1>0, SessionsStay DEF OpenInv
<1>6. AttemptInv'
  BY <1>0, AttemptsStay
<1>7. RequestInv'
  BY <1>0, RequestsStay
<1>8. LookInv'
  BY <1>0, LooksStay DEF LookInv
<1>9. GoneInv'
  BY <1>0, GoneStays DEF LookInv
<1> QED BY <1>1, <1>2, <1>3, <1>4, <1>5, <1>6, <1>7, <1>8, <1>9

\* An attempt begins.
LEMMA BeginAttemptStep ==
  ASSUME TransportInv, NEW g \in Gateways, BeginAttempt(g), UNCHANGED <<look, httpd>>
  PROVE  TransportInv'
PROOF
<1> USE ThreadFacts DEF TransportInv, BeginAttempt, countVars, lockVars, modeVars,
         LeasePlaces, PermitPlaces, AttemptPlaces, AskedPlaces, NetworkPlaces,
         MayBeOpen, MustBeOpen, Allowed, Places, GatewayPlaces, VoicePlaces, ConfigPlaces,
         CallerPlaces, Committed, HasTheNetwork
<1> DEFINE label == "attempt"
<1>0. label \in Allowed(g) /\ GoTo(g, label)
  BY DEF TypeInv
<1>1. TypeInv'
  BY <1>0, MoveSays DEF TypeInv
<1>2. LeaseInv'
  BY <1>0, LeaseStays
<1>3. PermitInv'
  BY <1>0, PermitStays
<1>4. HttpInv'
  BY <1>0, HttpStays
<1>5. OpenInv' /\ ExternalInv' /\ RealtimeInv'
  BY <1>0, SessionsStay DEF OpenInv
<1>6. AttemptInv'
  BY <1>0, AttemptsMove DEF AttemptInv
<1>7. RequestInv'
  BY <1>0, RequestsStay
<1>8. LookInv'
  BY <1>0, LooksStay DEF LookInv
<1>9. GoneInv'
  BY <1>0, GoneStays DEF LookInv
<1> QED BY <1>1, <1>2, <1>3, <1>4, <1>5, <1>6, <1>7, <1>8, <1>9

\* An attempt ends at the first look at the requests.
LEMMA BackOffStep ==
  ASSUME TransportInv, NEW g \in Gateways, BackOff(g), UNCHANGED <<look, httpd>>
  PROVE  TransportInv'
PROOF
<1> USE ThreadFacts DEF TransportInv, BackOff, countVars, lockVars, modeVars,
         LeasePlaces, PermitPlaces, AttemptPlaces, AskedPlaces, NetworkPlaces,
         MayBeOpen, MustBeOpen, Allowed, Places, GatewayPlaces, VoicePlaces, ConfigPlaces,
         CallerPlaces, Committed, HasTheNetwork
<1> DEFINE label == "resume"
<1>0. label \in Allowed(g) /\ GoTo(g, label)
  BY DEF TypeInv
<1>1. TypeInv'
  BY <1>0, MoveSays DEF TypeInv
<1>2. LeaseInv'
  BY <1>0, LeaseStays
<1>3. PermitInv'
  BY <1>0, PermitStays
<1>4. HttpInv'
  BY <1>0, HttpStays
<1>5. OpenInv' /\ ExternalInv' /\ RealtimeInv'
  BY <1>0, SessionsStay DEF OpenInv
<1>6. AttemptInv'
  BY <1>0, AttemptsMove DEF AttemptInv
<1>7. RequestInv'
  BY <1>0, RequestsStay
<1>8. LookInv'
  BY <1>0, LooksStay DEF LookInv
<1>9. GoneInv'
  BY <1>0, GoneStays DEF LookInv
<1> QED BY <1>1, <1>2, <1>3, <1>4, <1>5, <1>6, <1>7, <1>8, <1>9

\* An attempt ends, with a session or without.
LEMMA EndAttemptStep ==
  ASSUME TransportInv, NEW g \in Gateways, EndAttempt(g), UNCHANGED <<look, httpd>>
  PROVE  TransportInv'
PROOF
<1> USE ThreadFacts DEF TransportInv, EndAttempt, AfterAttempt, countVars, lockVars, modeVars,
         LeasePlaces, PermitPlaces, AttemptPlaces, AskedPlaces, NetworkPlaces,
         MayBeOpen, MustBeOpen, Allowed, Places, GatewayPlaces, VoicePlaces, ConfigPlaces,
         CallerPlaces, Committed, HasTheNetwork
<1> DEFINE label == AfterAttempt(at[g])
<1>0. label \in Allowed(g) /\ GoTo(g, label)
  BY DEF TypeInv
<1>1. TypeInv'
  BY <1>0, MoveSays DEF TypeInv
<1>2. LeaseInv'
  BY <1>0, LeaseStays
<1>3. PermitInv'
  BY <1>0, PermitStays
<1>4. HttpInv'
  BY <1>0, HttpStays
<1>5. OpenInv' /\ ExternalInv' /\ RealtimeInv'
  BY <1>0, SessionsStay DEF OpenInv
<1>6. AttemptInv'
  BY <1>0, AttemptsMove DEF AttemptInv
<1>7. RequestInv'
  BY <1>0, RequestsStay
<1>8. LookInv'
  BY <1>0, LooksStay DEF LookInv
<1>9. GoneInv'
  BY <1>0, GoneStays DEF LookInv
<1> QED BY <1>1, <1>2, <1>3, <1>4, <1>5, <1>6, <1>7, <1>8, <1>9

\* A gateway takes the free lease.
LEMMA AcquireLeaseStep ==
  ASSUME TransportInv, NEW g \in Gateways, AcquireLease(g), UNCHANGED <<look, httpd>>
  PROVE  TransportInv'
PROOF
<1> USE ThreadFacts DEF TransportInv, AcquireLease, countVars, lockVars, modeVars,
         LeasePlaces, PermitPlaces, AttemptPlaces, AskedPlaces, NetworkPlaces,
         MayBeOpen, MustBeOpen, Allowed, Places, GatewayPlaces, VoicePlaces, ConfigPlaces,
         CallerPlaces, Committed, HasTheNetwork
<1> DEFINE label == "leased"
<1>0. label \in Allowed(g) /\ GoTo(g, label)
  BY DEF TypeInv
<1>1. TypeInv'
  BY <1>0, MoveSays DEF TypeInv
<1>2. LeaseInv'
  BY <1>0, MoveSays DEF LeaseInv
<1>3. PermitInv'
  BY <1>0, PermitStays
<1>4. HttpInv'
  BY <1>0, HttpStays
<1>5. OpenInv' /\ ExternalInv' /\ RealtimeInv'
  BY <1>0, SessionsStay DEF OpenInv
<1>6. AttemptInv'
  BY <1>0, AttemptsStay
<1>7. RequestInv'
  BY <1>0, RequestsStay
<1>8. LookInv'
  BY <1>0, LooksStay DEF LookInv
<1>9. GoneInv'
  BY <1>0, GoneStays DEF LookInv
<1> QED BY <1>1, <1>2, <1>3, <1>4, <1>5, <1>6, <1>7, <1>8, <1>9

\* A gateway that finds a request gives the lease back.
LEMMA GiveLeaseBackStep ==
  ASSUME TransportInv, NEW g \in Gateways, GiveLeaseBack(g), UNCHANGED <<look, httpd>>
  PROVE  TransportInv'
PROOF
<1> USE ThreadFacts DEF TransportInv, GiveLeaseBack, countVars, lockVars, modeVars,
         LeasePlaces, PermitPlaces, AttemptPlaces, AskedPlaces, NetworkPlaces,
         MayBeOpen, MustBeOpen, Allowed, Places, GatewayPlaces, VoicePlaces, ConfigPlaces,
         CallerPlaces, Committed, HasTheNetwork
<1> DEFINE label == "back"
<1>0. label \in Allowed(g) /\ GoTo(g, label)
  BY DEF TypeInv
<1>1. TypeInv'
  BY <1>0, MoveSays DEF TypeInv
<1>2. LeaseInv'
  BY <1>0, MoveSays DEF LeaseInv
<1>3. PermitInv'
  BY <1>0, PermitStays
<1>4. HttpInv'
  BY <1>0, HttpStays
<1>5. OpenInv' /\ ExternalInv' /\ RealtimeInv'
  BY <1>0, SessionsStay DEF OpenInv
<1>6. AttemptInv'
  BY <1>0, AttemptsStay
<1>7. RequestInv'
  BY <1>0, RequestsStay
<1>8. LookInv'
  BY <1>0, LooksStay DEF LookInv
<1>9. GoneInv'
  BY <1>0, GoneStays DEF LookInv
<1> QED BY <1>1, <1>2, <1>3, <1>4, <1>5, <1>6, <1>7, <1>8, <1>9

\* The lease ends with a connection that failed.
LEMMA DropLeaseStep ==
  ASSUME TransportInv, NEW g \in Gateways, DropLease(g), UNCHANGED <<look, httpd>>
  PROVE  TransportInv'
PROOF
<1> USE ThreadFacts DEF TransportInv, DropLease, countVars, lockVars, modeVars,
         LeasePlaces, PermitPlaces, AttemptPlaces, AskedPlaces, NetworkPlaces,
         MayBeOpen, MustBeOpen, Allowed, Places, GatewayPlaces, VoicePlaces, ConfigPlaces,
         CallerPlaces, Committed, HasTheNetwork
<1> DEFINE label == "undo"
<1>0. label \in Allowed(g) /\ GoTo(g, label)
  BY DEF TypeInv
<1>1. TypeInv'
  BY <1>0, MoveSays DEF TypeInv
<1>2. LeaseInv'
  BY <1>0, MoveSays DEF LeaseInv
<1>3. PermitInv'
  BY <1>0, PermitStays
<1>4. HttpInv'
  BY <1>0, HttpStays
<1>5. OpenInv' /\ ExternalInv' /\ RealtimeInv'
  BY <1>0, SessionsStay DEF OpenInv
<1>6. AttemptInv'
  BY <1>0, AttemptsStay
<1>7. RequestInv'
  BY <1>0, RequestsStay
<1>8. LookInv'
  BY <1>0, LooksStay DEF LookInv
<1>9. GoneInv'
  BY <1>0, GoneStays DEF LookInv
<1> QED BY <1>1, <1>2, <1>3, <1>4, <1>5, <1>6, <1>7, <1>8, <1>9

\* The lease ends with the session.
LEMMA ReleaseLeaseStep ==
  ASSUME TransportInv, NEW g \in Gateways, ReleaseLease(g), UNCHANGED <<look, httpd>>
  PROVE  TransportInv'
PROOF
<1> USE ThreadFacts DEF TransportInv, ReleaseLease, countVars, lockVars, modeVars,
         LeasePlaces, PermitPlaces, AttemptPlaces, AskedPlaces, NetworkPlaces,
         MayBeOpen, MustBeOpen, Allowed, Places, GatewayPlaces, VoicePlaces, ConfigPlaces,
         CallerPlaces, Committed, HasTheNetwork
<1> DEFINE label == "gate"
<1>0. label \in Allowed(g) /\ GoTo(g, label)
  BY DEF TypeInv
<1>1. TypeInv'
  BY <1>0, MoveSays DEF TypeInv
<1>2. LeaseInv'
  BY <1>0, MoveSays DEF LeaseInv
<1>3. PermitInv'
  BY <1>0, PermitStays
<1>4. HttpInv'
  BY <1>0, HttpStays
<1>5. OpenInv' /\ ExternalInv' /\ RealtimeInv'
  BY <1>0, SessionsStay DEF OpenInv
<1>6. AttemptInv'
  BY <1>0, AttemptsStay
<1>7. RequestInv'
  BY <1>0, RequestsStay
<1>8. LookInv'
  BY <1>0, LooksStay DEF LookInv
<1>9. GoneInv'
  BY <1>0, GoneStays DEF LookInv
<1> QED BY <1>1, <1>2, <1>3, <1>4, <1>5, <1>6, <1>7, <1>8, <1>9

\* A handshake succeeds. Its gateway was on its way, so nobody else is surprised.
LEMMA ConnectsStep ==
  ASSUME TransportInv, NEW t \in Connectors, Connects(t), UNCHANGED <<look, httpd>>
  PROVE  TransportInv'
PROOF
<1> USE ThreadFacts DEF TransportInv, Connects, countVars, lockVars, modeVars,
         LeasePlaces, PermitPlaces, AttemptPlaces, AskedPlaces, NetworkPlaces,
         MayBeOpen, MustBeOpen, Allowed, Places, GatewayPlaces, VoicePlaces, ConfigPlaces,
         CallerPlaces, Committed, HasTheNetwork
<1> DEFINE label == "uncount"
<1>0. label \in Allowed(t) /\ GoTo(t, label)
  BY DEF TypeInv
<1>1. TypeInv'
  BY <1>0, MoveSays DEF TypeInv
<1>2. LeaseInv'
  BY <1>0, LeaseStays
<1>3. PermitInv'
  BY <1>0, PermitStays
<1>4. HttpInv'
  BY <1>0, HttpStays
<1>5. OpenInv' /\ ExternalInv' /\ RealtimeInv'
  <2>1. OpenInv'
    BY <1>0, MoveSays DEF OpenInv, TypeInv
  <2>2. \A g \in Gateways : open'[g] <=> open[g] \/ g = t
    BY DEF TypeInv
  <2>3. open'[Voice] <=> open[Voice] \/ t = Voice
    BY DEF TypeInv
  <2>4. ~open[t]
    BY DEF OpenInv
  <2>5. ASSUME t \in Gateways PROVE ~\E g \in Gateways : open[g]
    BY <2>4, <2>5 DEF OpenInv, LeaseInv
  <2>6. ExternalInv'
    BY <2>2, <2>5 DEF ExternalInv
  <2>7. RealtimeInv'
    BY <2>3, <2>4 DEF RealtimeInv
  <2> QED BY <2>1, <2>6, <2>7
<1>6. AttemptInv'
  BY <1>0, AttemptsStay
<1>7. RequestInv'
  BY <1>0, RequestsStay
<1>8. LookInv'
  BY <1>0, LooksStay DEF LookInv
<1>9. GoneInv'
  <2> SUFFICES ASSUME NEW w \in Suspenders, NEW g \in Gateways, HasSeen(w)', Committed(g)'
               PROVE  FALSE
    BY DEF GoneInv
  <2>1. HasSeen(w)
    BY <1>0, MoveSays DEF HasSeen
  <2>2. Committed(g)
    BY <1>0, MoveSays DEF TypeInv
  <2> QED BY <2>1, <2>2 DEF GoneInv
<1> QED BY <1>1, <1>2, <1>3, <1>4, <1>5, <1>6, <1>7, <1>8, <1>9

\* A gateway that finds no request at its second look: nobody waits, and nobody has
\* the network.
LEMMA StillAllowedStep ==
  ASSUME TransportInv, NEW g \in Gateways, StillAllowed(g), UNCHANGED <<look, httpd>>
  PROVE  TransportInv'
PROOF
<1> USE ThreadFacts DEF TransportInv, StillAllowed, countVars, lockVars, modeVars,
         LeasePlaces, PermitPlaces, AttemptPlaces, AskedPlaces, NetworkPlaces,
         MayBeOpen, MustBeOpen, Allowed, Places, GatewayPlaces, VoicePlaces, ConfigPlaces,
         CallerPlaces, Committed, HasTheNetwork
<1> DEFINE label == "tls"
<1>0. label \in Allowed(g) /\ GoTo(g, label)
  BY DEF TypeInv
<1>1. TypeInv'
  BY <1>0, MoveSays DEF TypeInv
<1>2. LeaseInv'
  BY <1>0, LeaseStays
<1>3. PermitInv'
  BY <1>0, PermitStays
<1>4. HttpInv'
  BY <1>0, HttpStays
<1>5. OpenInv' /\ ExternalInv' /\ RealtimeInv'
  BY <1>0, SessionsStay DEF OpenInv
<1>6. AttemptInv'
  BY <1>0, AttemptsStay
<1>7. RequestInv'
  BY <1>0, RequestsStay
<1>8. LookInv'
  BY <1>0, LooksStay DEF LookInv
<1>9. GoneInv'
  <2>1. \A w \in Suspenders : at[w] \notin AskedPlaces
    BY AskedIsCounted
  <2>2. \A w \in Suspenders : ~HasSeen(w)
    BY <2>1 DEF HasSeen
  <2>3. \A w \in Suspenders : ~HasSeen(w)'
    BY <1>0, <2>2, MoveSays DEF HasSeen
  <2> QED BY <2>3 DEF GoneInv
<1> QED BY <1>1, <1>2, <1>3, <1>4, <1>5, <1>6, <1>7, <1>8, <1>9

\* The session of a gateway ends, the only one of a gateway.
LEMMA CloseSessionStep ==
  ASSUME TransportInv, NEW g \in Gateways, CloseSession(g), UNCHANGED <<look, httpd>>
  PROVE  TransportInv'
PROOF
<1> USE ThreadFacts DEF TransportInv, CloseSession, countVars, lockVars, modeVars,
         LeasePlaces, PermitPlaces, AttemptPlaces, AskedPlaces, NetworkPlaces,
         MayBeOpen, MustBeOpen, Allowed, Places, GatewayPlaces, VoicePlaces, ConfigPlaces,
         CallerPlaces, Committed, HasTheNetwork
<1> DEFINE label == "release"
<1>0. label \in Allowed(g) /\ GoTo(g, label)
  BY DEF TypeInv
<1>1. TypeInv'
  BY <1>0, MoveSays DEF TypeInv
<1>2. LeaseInv'
  BY <1>0, LeaseStays
<1>3. PermitInv'
  BY <1>0, PermitStays
<1>4. HttpInv'
  BY <1>0, HttpStays
<1>5. OpenInv' /\ ExternalInv' /\ RealtimeInv'
  <2>1. OpenInv'
    BY <1>0, MoveSays DEF OpenInv, TypeInv
  <2>2. \A k \in Connectors : open'[k] <=> open[k] /\ k # g
    BY DEF TypeInv
  <2>3. open[g]
    BY DEF OpenInv
  <2>4. \A k \in Gateways : open[k] => k = g
    BY <2>3 DEF OpenInv, LeaseInv
  <2>5. ExternalInv'
    BY <2>2, <2>3, <2>4 DEF ExternalInv
  <2>6. RealtimeInv'
    BY <2>2 DEF RealtimeInv
  <2> QED BY <2>1, <2>5, <2>6
<1>6. AttemptInv'
  BY <1>0, AttemptsStay
<1>7. RequestInv'
  BY <1>0, RequestsStay
<1>8. LookInv'
  BY <1>0, LooksStay DEF LookInv
<1>9. GoneInv'
  <2>1. \A k \in Gateways : open'[k] => open[k]
    BY DEF TypeInv
  <2> QED BY <1>0, <2>1, GoneStays DEF LookInv
<1> QED BY <1>1, <1>2, <1>3, <1>4, <1>5, <1>6, <1>7, <1>8, <1>9

\* The realtime session ends.
LEMMA HangUpStep ==
  ASSUME TransportInv, HangUp
  PROVE  TransportInv'
PROOF
<1> USE ThreadFacts DEF TransportInv, HangUp, countVars, lockVars, modeVars,
         LeasePlaces, PermitPlaces, AttemptPlaces, AskedPlaces, NetworkPlaces,
         MayBeOpen, MustBeOpen, Allowed, Places, GatewayPlaces, VoicePlaces, ConfigPlaces,
         CallerPlaces, Committed, HasTheNetwork
<1> DEFINE label == "leave"
<1>0. label \in Allowed(Voice) /\ GoTo(Voice, label)
  BY DEF TypeInv
<1>1. TypeInv'
  BY <1>0, MoveSays DEF TypeInv
<1>2. LeaseInv'
  BY <1>0, LeaseStays
<1>3. PermitInv'
  BY <1>0, PermitStays
<1>4. HttpInv'
  BY <1>0, HttpStays
<1>5. OpenInv' /\ ExternalInv' /\ RealtimeInv'
  <2>1. OpenInv'
    BY <1>0, MoveSays DEF OpenInv, TypeInv
  <2>2. \A k \in Connectors : open'[k] <=> open[k] /\ k # Voice
    BY DEF TypeInv
  <2>3. open[Voice]
    BY DEF OpenInv
  <2>4. ExternalInv'
    BY <2>2 DEF ExternalInv
  <2>5. RealtimeInv'
    BY <2>2, <2>3 DEF RealtimeInv
  <2> QED BY <2>1, <2>4, <2>5
<1>6. AttemptInv'
  BY <1>0, AttemptsStay
<1>7. RequestInv'
  BY <1>0, RequestsStay
<1>8. LookInv'
  BY <1>0, LooksStay DEF LookInv
<1>9. GoneInv'
  <2>1. \A k \in Gateways : open'[k] => open[k]
    BY DEF TypeInv
  <2> QED BY <1>0, <2>1, GoneStays DEF LookInv
<1> QED BY <1>1, <1>2, <1>3, <1>4, <1>5, <1>6, <1>7, <1>8, <1>9

\* Voice makes its request.
LEMMA VoiceBeginsStep ==
  ASSUME TransportInv, VoiceBegins
  PROVE  TransportInv'
PROOF
<1> USE ThreadFacts DEF TransportInv, VoiceBegins, countVars, lockVars, modeVars,
         LeasePlaces, PermitPlaces, AttemptPlaces, AskedPlaces, NetworkPlaces,
         MayBeOpen, MustBeOpen, Allowed, Places, GatewayPlaces, VoicePlaces, ConfigPlaces,
         CallerPlaces, Committed, HasTheNetwork
<1> DEFINE label == "raise"
<1>0. label \in Allowed(Voice) /\ GoTo(Voice, label)
  BY DEF TypeInv
<1>1. TypeInv'
  BY <1>0, MoveSays DEF TypeInv
<1>2. LeaseInv'
  BY <1>0, LeaseStays
<1>3. PermitInv'
  BY <1>0, PermitStays
<1>4. HttpInv'
  BY <1>0, HttpStays
<1>5. OpenInv' /\ ExternalInv' /\ RealtimeInv'
  BY <1>0, SessionsStay DEF OpenInv
<1>6. AttemptInv'
  BY <1>0, AttemptsStay
<1>7. RequestInv'
  BY <1>0, RequestsMove DEF RequestInv
<1>8. LookInv'
  BY <1>0, LooksStay DEF LookInv
<1>9. GoneInv'
  BY <1>0, GoneStays DEF LookInv
<1> QED BY <1>1, <1>2, <1>3, <1>4, <1>5, <1>6, <1>7, <1>8, <1>9

\* A request that writes makes its own.
LEMMA AskSuspensionStep ==
  ASSUME TransportInv, NEW c \in Configs, AskSuspension(c)
  PROVE  TransportInv'
PROOF
<1> USE ThreadFacts DEF TransportInv, AskSuspension, countVars, lockVars, modeVars,
         LeasePlaces, PermitPlaces, AttemptPlaces, AskedPlaces, NetworkPlaces,
         MayBeOpen, MustBeOpen, Allowed, Places, GatewayPlaces, VoicePlaces, ConfigPlaces,
         CallerPlaces, Committed, HasTheNetwork
<1> DEFINE label == "wait"
<1>0. label \in Allowed(c) /\ GoTo(c, label)
  BY DEF TypeInv
<1>1. TypeInv'
  BY <1>0, MoveSays DEF TypeInv
<1>2. LeaseInv'
  BY <1>0, LeaseStays
<1>3. PermitInv'
  BY <1>0, PermitStays
<1>4. HttpInv'
  BY <1>0, HttpStays
<1>5. OpenInv' /\ ExternalInv' /\ RealtimeInv'
  BY <1>0, SessionsStay DEF OpenInv
<1>6. AttemptInv'
  BY <1>0, AttemptsStay
<1>7. RequestInv'
  <2>1. c \in Suspenders
    BY DEF TypeInv
  <2> QED BY <1>0, <2>1, RequestsMove DEF RequestInv
<1>8. LookInv'
  BY <1>0, LooksStay DEF LookInv
<1>9. GoneInv'
  BY <1>0, GoneStays DEF LookInv
<1> QED BY <1>1, <1>2, <1>3, <1>4, <1>5, <1>6, <1>7, <1>8, <1>9

\* A request is withdrawn.
LEMMA WithdrawRequestStep ==
  ASSUME TransportInv, NEW w \in Suspenders, WithdrawRequest(w)
  PROVE  TransportInv'
PROOF
<1> USE ThreadFacts DEF TransportInv, WithdrawRequest, countVars, lockVars, modeVars,
         LeasePlaces, PermitPlaces, AttemptPlaces, AskedPlaces, NetworkPlaces,
         MayBeOpen, MustBeOpen, Allowed, Places, GatewayPlaces, VoicePlaces, ConfigPlaces,
         CallerPlaces, Committed, HasTheNetwork
<1> DEFINE label == "idle"
<1>0. label \in Allowed(w) /\ GoTo(w, label)
  BY DEF TypeInv
<1>1. TypeInv'
  BY <1>0, MoveSays DEF TypeInv
<1>2. LeaseInv'
  BY <1>0, LeaseStays
<1>3. PermitInv'
  BY <1>0, PermitStays
<1>4. HttpInv'
  BY <1>0, HttpStays
<1>5. OpenInv' /\ ExternalInv' /\ RealtimeInv'
  BY <1>0, SessionsStay DEF OpenInv
<1>6. AttemptInv'
  BY <1>0, AttemptsStay
<1>7. RequestInv'
  BY <1>0, RequestsMove DEF RequestInv
<1>8. LookInv'
  BY <1>0, LooksStay DEF LookInv
<1>9. GoneInv'
  BY <1>0, GoneStays DEF LookInv
<1> QED BY <1>1, <1>2, <1>3, <1>4, <1>5, <1>6, <1>7, <1>8, <1>9

\* Both kinds of waiting look at the leases second, and at more after that.
LEMMA LookFacts ==
  ASSUME NEW w \in Suspenders
  PROVE  /\ Len(Looks(w)) \in Nat /\ Len(Looks(w)) >= 3
         /\ Looks(w)[2] = "leases"
PROOF
<1> QED BY DEF Looks

\* Whose look at the leases is behind it has seen no lease, and then no gateway
\* has a session or is on its way to one.
LEMMA SeesNoLease ==
  ASSUME TransportInv, NEW w \in Suspenders, look[w] = 2, Seen(w) = 0, NEW g \in Gateways
  PROVE  ~Committed(g)
PROOF
<1>1. wssLease = Nobody
  BY LookFacts DEF Seen
<1>2. g \in Connectors /\ wssLease # g
  BY <1>1, ThreadFacts
<1>3. at[g] \notin LeasePlaces
  BY <1>2 DEF TransportInv, LeaseInv
<1>4. ~open[g]
  BY <1>2, <1>3 DEF TransportInv, OpenInv, MayBeOpen, LeasePlaces
<1> QED BY <1>3, <1>4 DEF Committed, LeasePlaces

\* What a step of the wait does to the rest when the thread stays where it is.
LEMMA LookedOn ==
  ASSUME TransportInv, NEW w \in Suspenders, at[w] = "wait",
         NEW next \in 1 .. Len(Looks(w)), look' = [look EXCEPT ![w] = next],
         UNCHANGED <<at, open, countVars, connecting, requests, lockVars, modeVars, httpd>>,
         next >= 3 => \A g \in Gateways : ~Committed(g)
  PROVE  TransportInv'
PROOF
<1> USE DEF TransportInv, countVars, lockVars, modeVars
<1>1. DOMAIN look' = Suspenders /\ look'[w] = next
      /\ \A x \in Suspenders : x # w => look'[x] = look[x]
  BY DEF TypeInv
<1>2. TypeInv'
  BY <1>1 DEF TypeInv, Allowed, Places
<1>3. LeaseInv' /\ PermitInv' /\ OpenInv' /\ HttpInv' /\ ExternalInv' /\ RealtimeInv'
  BY DEF LeaseInv, PermitInv, OpenInv, HttpInv, ExternalInv, RealtimeInv
<1>4. AttemptInv' /\ RequestInv'
  BY DEF AttemptInv, RequestInv, Attempting, Asking
<1>5. LookInv'
  BY <1>1 DEF LookInv
<1>6. GoneInv'
  <2> SUFFICES ASSUME NEW x \in Suspenders, NEW g \in Gateways, HasSeen(x)', Committed(g)'
               PROVE  FALSE
    BY DEF GoneInv
  <2>1. Committed(g)
    BY DEF Committed
  <2>2. ASSUME x = w PROVE next >= 3
    BY <1>1, <2>2, ThreadFacts DEF HasSeen, HasTheNetwork
  <2>3. ASSUME x # w PROVE HasSeen(x)
    BY <1>1, <2>3 DEF HasSeen, HasTheNetwork
  <2> QED BY <2>1, <2>2, <2>3 DEF GoneInv
<1> QED BY <1>2, <1>3, <1>4, <1>5, <1>6

\* What the end of the wait does: with the network in hand or without.
LEMMA WaitEnds ==
  ASSUME TransportInv, NEW w \in Suspenders, at[w] = "wait",
         NEW label \in Allowed(w) \cap AskedPlaces, GoTo(w, label),
         label \notin {"wait", "unlock"} \cup PermitPlaces \cup MustBeOpen,
         look' = [look EXCEPT ![w] = 1],
         UNCHANGED <<open, countVars, connecting, requests, lockVars, modeVars, httpd>>,
         label \in NetworkPlaces => HasSeen(w)
  PROVE  TransportInv'
PROOF
<1> USE DEF TransportInv, countVars, lockVars, modeVars
<1>1. DOMAIN look' = Suspenders /\ look'[w] = 1
      /\ \A x \in Suspenders : x # w => look'[x] = look[x]
  BY DEF TypeInv
<1>2. w \in Threads /\ w \notin Gateways
  BY ThreadFacts
<1>3. at[w] \notin PermitPlaces /\ at[w] \in AskedPlaces /\ at[w] \notin MayBeOpen
  BY DEF PermitPlaces, AskedPlaces, MayBeOpen
<1>4. TypeInv'
  BY <1>1, <1>2, MoveSays, LookFacts DEF TypeInv
<1>5. LeaseInv' /\ PermitInv' /\ HttpInv'
  BY <1>2, <1>3, LeaseStays, PermitStays, HttpStays
<1>6. w \in Connectors => ~open[w]
  BY <1>3 DEF OpenInv
<1>7. OpenInv' /\ ExternalInv' /\ RealtimeInv'
  BY <1>2, <1>6, SessionsStay
<1>8. AttemptInv' /\ RequestInv'
  BY <1>2, <1>3, AttemptsStay, RequestsStay
<1>9. LookInv'
  BY <1>1, <1>2, MoveSays, ThreadFacts DEF LookInv
<1>10. GoneInv'
  <2> SUFFICES ASSUME NEW x \in Suspenders, NEW g \in Gateways, HasSeen(x)', Committed(g)'
               PROVE  FALSE
    BY DEF GoneInv
  <2>1. at'[g] = at[g] /\ g \in Threads
    BY <1>2, MoveSays, ThreadFacts
  <2>2. Committed(g)
    BY <2>1 DEF Committed
  <2>3. ASSUME x = w PROVE HasSeen(x)
    <3>1. at'[x] = label /\ label # "wait"
      BY <1>2, <2>3, MoveSays
    <3>2. HasTheNetwork(x)'
      BY <3>1 DEF HasSeen
    <3>3. label \in NetworkPlaces
      BY <3>1, <3>2 DEF HasTheNetwork, NetworkPlaces
    <3> QED BY <2>3, <3>3
  <2>4. ASSUME x # w PROVE HasSeen(x)
    <3>1. at'[x] = at[x]
      BY <1>2, <2>4, MoveSays, ThreadFacts
    <3> QED BY <1>1, <2>4, <3>1 DEF HasSeen, HasTheNetwork
  <2> QED BY <2>2, <2>3, <2>4 DEF GoneInv
<1> QED BY <1>4, <1>5, <1>7, <1>8, <1>9, <1>10

\* A look that sees nothing, the last one or another.
LEMMA SeesNoneStep ==
  ASSUME TransportInv, NEW w \in Suspenders, SeesNone(w)
  PROVE  TransportInv'
PROOF
<1>1. at[w] = "wait" /\ Seen(w) = 0 /\ look[w] \in 1 .. Len(Looks(w))
  BY DEF SeesNone, TransportInv, TypeInv
<1>2. ASSUME look[w] < Len(Looks(w)) PROVE TransportInv'
  <2>1. look[w] + 1 \in 1 .. Len(Looks(w))
    BY <1>1, <1>2, LookFacts
  <2>2. ASSUME look[w] + 1 >= 3, NEW g \in Gateways PROVE ~Committed(g)
    <3>1. CASE look[w] = 2
      BY <1>1, <3>1, SeesNoLease
    <3>2. CASE look[w] >= 3
      BY <1>1, <3>2 DEF TransportInv, GoneInv, HasSeen
    <3> QED BY <1>1, <2>2, <3>1, <3>2, LookFacts
  <2> QED BY <1>1, <1>2, <2>1, <2>2, LookedOn DEF SeesNone
<1>3. ASSUME ~(look[w] < Len(Looks(w))) PROVE TransportInv'
  <2> DEFINE label == IF w = Voice THEN "tls" ELSE "writing"
  <2>1. look[w] >= 3
    BY <1>1, <1>3, LookFacts
  <2>2. HasSeen(w)
    BY <1>1, <2>1 DEF HasSeen
  <2>3. label \in Allowed(w) \cap AskedPlaces
    BY ThreadFacts DEF Allowed, Places, VoicePlaces, ConfigPlaces, AskedPlaces
  <2>4. label \notin {"wait", "unlock"} \cup PermitPlaces \cup MustBeOpen
    BY DEF PermitPlaces, MustBeOpen
  <2>5. GoTo(w, label) /\ look' = [look EXCEPT ![w] = 1]
    BY <1>3 DEF SeesNone
  <2>6. UNCHANGED <<open, countVars, connecting, requests, lockVars, modeVars, httpd>>
    BY DEF SeesNone
  <2> HIDE DEF label
  <2> QED BY <1>1, <2>2, <2>3, <2>4, <2>5, <2>6, WaitEnds
<1> QED BY <1>2, <1>3

\* A look that sees something: all over again.
LEMMA SeesSomeStep ==
  ASSUME TransportInv, NEW w \in Suspenders, SeesSome(w)
  PROVE  TransportInv'
PROOF
<1>1. 1 \in 1 .. Len(Looks(w)) /\ ~(1 >= 3)
  BY LookFacts
<1> QED BY <1>1, LookedOn DEF SeesSome

\* A wait that is given up ends without the network.
LEMMA GiveUpWaitStep ==
  ASSUME TransportInv, NEW w \in Suspenders, GiveUpWait(w)
  PROVE  TransportInv'
PROOF
<1> DEFINE label == IF w = Voice THEN "leave" ELSE "refused"
<1>1. label \in Allowed(w) \cap AskedPlaces
  BY ThreadFacts DEF Allowed, Places, VoicePlaces, ConfigPlaces, AskedPlaces
<1>2. label \notin {"wait", "unlock"} \cup PermitPlaces \cup MustBeOpen \cup NetworkPlaces
  BY DEF PermitPlaces, MustBeOpen, NetworkPlaces
<1>3. at[w] = "wait" /\ GoTo(w, label) /\ look' = [look EXCEPT ![w] = 1]
  BY DEF GiveUpWait
<1>4. UNCHANGED <<open, countVars, connecting, requests, lockVars, modeVars, httpd>>
  BY DEF GiveUpWait
<1> HIDE DEF label
<1> QED BY <1>1, <1>2, <1>3, <1>4, WaitEnds

\* What moves no thread: the server's thread lets go, or the window ends.
LEMMA NobodyMoves ==
  ASSUME TransportInv,
         UNCHANGED <<at, open, countVars, connecting, requests, lockVars, look>>,
         OtherTypes'
  PROVE  TransportInv'
PROOF
<1> USE DEF TransportInv, countVars, lockVars
<1>1. TypeInv'
  BY DEF TypeInv, OtherTypes, Allowed, Places
<1>2. LeaseInv' /\ PermitInv' /\ OpenInv' /\ HttpInv' /\ ExternalInv' /\ RealtimeInv'
  BY DEF LeaseInv, PermitInv, OpenInv, HttpInv, ExternalInv, RealtimeInv
<1>3. AttemptInv' /\ RequestInv'
  BY DEF AttemptInv, RequestInv, Attempting, Asking
<1>4. LookInv' /\ GoneInv'
  BY DEF LookInv, GoneInv, HasSeen, HasTheNetwork, Committed
<1> QED BY <1>1, <1>2, <1>3, <1>4

-----------------------------------------------------------------------------
(* The steps together.                                                       *)

\* Nobody is anywhere at the start.
LEMMA InitHolds ==
  ASSUME Init
  PROVE  TransportInv
PROOF
<1> USE ThreadFacts
<1>1. /\ DOMAIN at = Threads
      /\ \A t \in Threads : at[t] = IF t \in Gateways THEN "gate" ELSE "idle"
  BY DEF Init
<1>2. /\ open \in [Connectors -> BOOLEAN] /\ \A k \in Connectors : open[k] = FALSE
      /\ DOMAIN look = Suspenders /\ \A w \in Suspenders : look[w] = 1
  BY DEF Init
<1>3. TypeInv
  <2>1. \A t \in Threads : at[t] \in Allowed(t)
    BY <1>1 DEF Allowed, Places, GatewayPlaces, VoicePlaces, ConfigPlaces, CallerPlaces
  <2>2. \A w \in Suspenders : look[w] \in 1 .. Len(Looks(w))
    BY <1>2, LookFacts
  <2> QED BY <1>1, <1>2, <2>1, <2>2 DEF Init, TypeInv
<1>4. LeaseInv /\ PermitInv
  BY <1>1 DEF Init, LeaseInv, PermitInv, LeasePlaces, PermitPlaces
<1>5. OpenInv /\ HttpInv /\ ExternalInv /\ RealtimeInv
  BY <1>1, <1>2 DEF Init, OpenInv, HttpInv, ExternalInv, RealtimeInv, MustBeOpen
<1>6. Attempting = {} /\ Asking = {}
  BY <1>1 DEF Attempting, Asking, ThoseAt, AttemptPlaces, AskedPlaces
<1>7. AttemptInv /\ RequestInv
  <2>1. Cardinality(Attempting) = 0 /\ Cardinality(Asking) = 0
    BY <1>6, FS_EmptySet
  <2> QED BY <2>1 DEF Init, AttemptInv, RequestInv
<1>8. LookInv /\ GoneInv
  <2>1. \A w \in Suspenders : at[w] = "idle"
    BY <1>1
  <2> QED BY <1>2, <2>1 DEF LookInv, GoneInv, HasSeen, HasTheNetwork
<1> QED BY <1>3, <1>4, <1>5, <1>7, <1>8 DEF TransportInv

\* What a step must leave to the types when it moves no thread.
LEMMA OtherTypesHold ==
  ASSUME TransportInv
  PROVE  OtherTypes
PROOF
<1> QED BY DEF TransportInv, TypeInv, OtherTypes

\* A step of a gateway.
LEMMA GatewayKeeps ==
  ASSUME TransportInv, NEW g \in Gateways, GatewayNext(g)
  PROVE  TransportInv'
PROOF
<1>1. UNCHANGED <<look, httpd>> /\ g \in Connectors /\ g \in Threads
  BY ThreadFacts DEF GatewayNext
<1>2. CASE ConnectStep(g)
  BY <1>1, <1>2, PlainConnectSteps, TakePermitStep, ConnectsStep, UncountStep, UnlockStep
     DEF ConnectStep
<1>3. CASE GatewayStep(g) /\ ~ConnectStep(g)
  BY <1>1, <1>3, PlainGatewaySteps, BeginAttemptStep, BackOffStep, AcquireLeaseStep,
     StillAllowedStep, GiveLeaseBackStep, DropLeaseStep, EndAttemptStep, CloseSessionStep,
     ReleaseLeaseStep DEF GatewayStep
<1>4. CASE LoseSession(g)
  BY <1>1, <1>4, PlainGatewaySteps
<1> QED BY <1>2, <1>3, <1>4 DEF GatewayNext

\* A step of the wait, or the end of a suspension.
LEMMA WaitKeeps ==
  ASSUME TransportInv, NEW w \in Suspenders, WaitStep(w) \/ GiveUpWait(w)
  PROVE  TransportInv'
PROOF
<1> QED BY SeesNoneStep, SeesSomeStep, WithdrawRequestStep, GiveUpWaitStep DEF WaitStep

\* A step of the voice session.
LEMMA VoiceKeeps ==
  ASSUME TransportInv, VoiceNext
  PROVE  TransportInv'
PROOF
<1>1. Voice \in Connectors /\ Voice \in Suspenders /\ Voice \in Threads
  BY ThreadFacts
<1>2. CASE ConnectStep(Voice) /\ UNCHANGED <<look, httpd>>
  BY <1>1, <1>2, PlainConnectSteps, TakePermitStep, ConnectsStep, UncountStep, UnlockStep
     DEF ConnectStep
<1>3. CASE VoiceBegins
  BY <1>3, VoiceBeginsStep
<1>4. CASE AdmitVoice \/ RaiseFlag \/ VoiceRetries \/ VoiceStops \/ LowerFlag
  BY <1>4, PlainVoiceSteps
<1>5. CASE HangUp
  BY <1>5, HangUpStep
<1>6. CASE WaitStep(Voice) \/ GiveUpWait(Voice)
  BY <1>1, <1>6, WaitKeeps
<1> QED BY <1>2, <1>3, <1>4, <1>5, <1>6 DEF VoiceNext, VoiceStep

\* A step of a request to the configuration server.
LEMMA ConfigKeeps ==
  ASSUME TransportInv, NEW c \in Configs, ConfigNext(c)
  PROVE  TransportInv'
PROOF
<1>1. CASE BeginConfig(c) \/ FinishConfig(c)
  BY <1>1, PlainConfigSteps
<1>2. CASE AskSuspension(c)
  BY <1>2, AskSuspensionStep
<1>3. CASE c \in Writers /\ (WaitStep(c) \/ GiveUpWait(c))
  BY <1>3, ThreadFacts, WaitKeeps
<1>4. CASE LeaveToWorker(c)
  <2>1. OtherTypes'
    BY <1>4, OtherTypesHold DEF OtherTypes, LeaveToWorker, lockVars, modeVars
  <2> QED BY <1>4, <2>1, NobodyMoves DEF LeaveToWorker
<1> QED BY <1>1, <1>2, <1>3, <1>4 DEF ConfigNext, ConfigStep

\* A step of a caller.
LEMMA CallerKeeps ==
  ASSUME TransportInv, NEW h \in Callers, CallerNext(h)
  PROVE  TransportInv'
PROOF
<1>1. h \in Threads
  BY ThreadFacts
<1>2. CASE (Uncount(h) \/ Unlock(h)) /\ UNCHANGED <<look, httpd>>
  BY <1>1, <1>2, UncountStep, UnlockStep
<1>3. CASE GetPermit(h)
  BY <1>3, GetPermitStep
<1>4. CASE \/ \E high \in BOOLEAN : AskPermit(h, high)
           \/ PermitRefused(h) \/ BeginExchange(h) \/ ExchangeDenied(h) \/ EndExchange(h)
  BY <1>4, PlainCallerSteps
<1> QED BY <1>2, <1>3, <1>4 DEF CallerNext, CallerStep

\* Every step keeps the invariant.
LEMMA NextKeeps ==
  ASSUME TransportInv, [Next]_vars
  PROVE  TransportInv'
PROOF
<1>1. CASE \E g \in Gateways : GatewayNext(g)
  BY <1>1, GatewayKeeps
<1>2. CASE VoiceNext
  BY <1>2, VoiceKeeps
<1>3. CASE \E c \in Configs : ConfigNext(c)
  BY <1>3, ConfigKeeps
<1>4. CASE WindowEnds
  <2>1. OtherTypes'
    BY <1>4, OtherTypesHold DEF OtherTypes, WindowEnds, lockVars
  <2> QED BY <1>4, <2>1, NobodyMoves DEF WindowEnds
<1>5. CASE \E h \in Callers : CallerNext(h)
  BY <1>5, CallerKeeps
<1>6. CASE UNCHANGED vars
  <2>1. OtherTypes'
    BY <1>6, OtherTypesHold DEF OtherTypes, vars, lockVars, modeVars
  <2> QED BY <1>6, <2>1, NobodyMoves DEF vars
<1> QED BY <1>1, <1>2, <1>3, <1>4, <1>5, <1>6 DEF Next

-----------------------------------------------------------------------------
(* What the invariant says of a state.                                       *)

\* The numbers of threads that attempt, and that ask, are natural numbers.
LEMMA NumbersOfThreads ==
  Cardinality(Attempting) \in Nat /\ Cardinality(Asking) \in Nat
PROOF
<1>1. IsFiniteSet(Attempting) /\ IsFiniteSet(Asking)
  BY ThreadFacts, FS_Subset DEF Attempting, Asking, ThoseAt
<1> QED BY <1>1, FS_CardinalityType

\* The counters cannot be negative: they are numbers of threads.
LEMMA InvSaysTypeOK ==
  ASSUME TransportInv
  PROVE  TypeOK
PROOF
<1>1. \A t \in Threads : at[t] \in Places(t)
  BY ThreadFacts DEF TransportInv, TypeInv, Allowed, Places, ConfigPlaces
<1>2. activeHttp \in Nat /\ external \in Nat /\ realtime \in Nat
  BY DEF TransportInv, HttpInv, ExternalInv, RealtimeInv
<1>3. connecting \in Nat /\ requests \in Nat
  BY NumbersOfThreads DEF TransportInv, AttemptInv, RequestInv
<1> QED BY <1>1, <1>2, <1>3 DEF TransportInv, TypeInv, TypeOK

\* A gateway's session and a realtime session are not both open: a thread with
\* a session has waited.
LEMMA InvSaysTwoSessions ==
  ASSUME TransportInv
  PROVE  AtMostTwoSessions
PROOF
<1>1. activeHttp \in 0 .. 1 /\ external \in 0 .. 1 /\ realtime \in 0 .. 1
  BY DEF TransportInv, HttpInv, ExternalInv, RealtimeInv
<1>2. ASSUME open[Voice] PROVE external = 0
  <2>1. Voice \in Connectors /\ Voice \in Suspenders /\ Voice \in Threads
    BY ThreadFacts
  <2>2. at[Voice] \in VoicePlaces /\ at[Voice] \in MayBeOpen
    BY <1>2, <2>1, ThreadFacts DEF TransportInv, TypeInv, OpenInv, Allowed, Places
  <2>3. HasSeen(Voice)
    BY <2>2 DEF VoicePlaces, MayBeOpen, HasSeen, HasTheNetwork
  <2>4. \A g \in Gateways : ~open[g]
    BY <2>1, <2>3 DEF TransportInv, GoneInv, Committed
  <2> QED BY <2>4 DEF TransportInv, ExternalInv
<1>3. realtime = 0 \/ external = 0
  BY <1>2 DEF TransportInv, RealtimeInv
<1> QED BY <1>1, <1>3 DEF AtMostTwoSessions, Sessions

\* The counters, the locks and the places agree in every state.
THEOREM TransportAlways == Spec => []TransportInv
PROOF
<1>1. Init => TransportInv BY InitHolds
<1>2. TransportInv /\ [Next]_vars => TransportInv' BY NextKeeps
<1> QED BY <1>1, <1>2, PTL DEF Spec

\* Every variable keeps its type, and no counter of src/network/mod.rs goes
\* below zero, however the threads interleave.
THEOREM TypeCorrect == Spec => []TypeOK
PROOF
<1>1. TransportInv => TypeOK BY InvSaysTypeOK
<1> QED BY <1>1, TransportAlways, PTL

\* A voice session and a request that writes have no external session beside
\* them: wait_for_external_wss_drain and connect_external_wss.
THEOREM SuspenderIsAlone == Spec => []NoSessionBesideSuspender
PROOF
<1>1. TransportInv => NoSessionBesideSuspender
  BY DEF TransportInv, GoneInv, HasSeen, NoSessionBesideSuspender
<1> QED BY <1>1, TransportAlways, PTL

\* No check of MAX_CONCURRENT_HTTP is needed for it: one permit, one lease, and
\* a suspension keep the sessions at two.
THEOREM TwoSessions == Spec => []AtMostTwoSessions
PROOF
<1>1. TransportInv => AtMostTwoSessions BY InvSaysTwoSessions
<1> QED BY <1>1, TransportAlways, PTL
=============================================================================
