----------------------------- MODULE Links_proofs -----------------------------
(***************************************************************************)
(* Proofs about SyncplayConnection, for every MaxGeneration, and about     *)
(* Rendezvous, for any run, lifetime, devices and limit.                   *)
(***************************************************************************)
EXTENDS SyncplayConnection, Rendezvous, FiniteSetTheorems, TLAPS

-----------------------------------------------------------------------------
(***************************************************************************)
(* The connection.  TypeOK is inductive by itself.  OneThingUnderWay is    *)
(* not: that a late answer cannot bring a connection back needs where each *)
(* connection can be (Held), what the watchdog and the timer are set for   *)
(* (Guarded), and that a leave under way still holds the socket it says    *)
(* goodbye on (Parting).                                                   *)
(***************************************************************************)
\* The connections that are open are the one that _rawOwner names.
Held ==
    /\ open = IF raw = 0 THEN {} ELSE {raw}
    /\ socket \in {0, raw}
    /\ ~manual => raw \in {0, generation}

\* The watchdog runs for the current connection alone, the timer for none, and
\* what is bound is what the client writes to.
Guarded ==
    /\ watchdog # "off" => /\ ~manual /\ ~timer /\ raw = generation /\ raw # 0
                           /\ stage[raw] \in {"negotiating", "upgrading", "bound"}
    /\ timer => raw = 0 /\ ~manual /\ generation # 0
    /\ ~manual /\ status = "connected" => loggedIn
    /\ ~manual /\ loggedIn => raw # 0
    /\ ~manual /\ raw # 0 /\ stage[raw] = "bound" => secure /\ socket = raw
    /\ ~manual => (status = "idle" <=> generation = 0)

\* Nothing is under way for an attempt that has not begun, nor for the
\* generation in which the client was told to stop or waits for its timer.
Fresh ==
    \A g \in Generations :
        g > generation \/ ((manual \/ timer) /\ g = generation) => stage[g] = "none"

\* A leave that still waits for its goodbye keeps a bound socket.
Parting ==
    /\ leaving # "no" => manual
    /\ leaving = "no" /\ manual => ~loggedIn
    /\ leaving \in {"disconnect", "dispose"} => raw # 0 /\ stage[raw] \in {"bound", "over"}

\* What the steps must keep beside the types.
Kept == Held /\ Guarded /\ Parting /\ OneThingUnderWay

ConnectionInvariant == TypeOK /\ Fresh /\ Kept

-----------------------------------------------------------------------------

LEMMA InitIsTyped == Init => TypeOK
<1> SUFFICES ASSUME Init PROVE TypeOK
  OBVIOUS
<1>1. FlagsOK
  BY DEF Init, FlagsOK
<1>2. WordsOK
  BY DEF Init, WordsOK, Statuses
<1>3. PlacesOK
  BY DEF Init, PlacesOK, Stages
<1> QED
  BY <1>1, <1>2, <1>3 DEF TypeOK

LEMMA FlagsStay == FlagsOK /\ [Next]_vars => FlagsOK'
<1> SUFFICES ASSUME FlagsOK, [Next]_vars PROVE FlagsOK'
  OBVIOUS
<1> USE DEF FlagsOK
<1>1. CASE UNCHANGED vars
  BY <1>1 DEF vars, client, wire
<1>2. CASE Connect
  BY <1>2 DEF Connect, OpenConnection, LoggedOut
<1>3. CASE JoinReturns
  BY <1>3 DEF JoinReturns, wire
<1>4. ASSUME NEW g \in Generations, Network(g) PROVE FlagsOK'
  <2> USE DEF ConnectionLost, ScheduleReconnect, EndInError, StopReconnecting, LoggedOut,
              client, wire
  <2>1. CASE DialSucceeds(g)
    BY <2>1 DEF DialSucceeds, TooLate, Bind
  <2>2. CASE DialFails(g)
    BY <2>2 DEF DialFails
  <2>3. CASE NegotiationDrops(g) \/ NegotiationRefused(g) \/ NegotiationAgreed(g)
    BY <2>3 DEF NegotiationDrops, NegotiationRefused, NegotiationAgreed
  <2>4. CASE HandshakeCompletes(g)
    BY <2>4 DEF HandshakeCompletes
  <2>5. ASSUME NEW bad \in BOOLEAN, HandshakeFails(g, bad) PROVE FlagsOK'
    BY <2>5 DEF HandshakeFails
  <2>6. CASE Hello(g)
    BY <2>6 DEF Hello
  <2>7. CASE Refusal(g)
    BY <2>7 DEF Refusal
  <2>8. CASE Traffic(g) \/ Overflow(g) \/ SocketEnds(g)
    BY <2>8 DEF Traffic, Overflow, SocketEnds
  <2> QED
    BY <1>4, <2>1, <2>2, <2>3, <2>4, <2>5, <2>6, <2>7, <2>8 DEF Network, Dial
<1>5. CASE Silence
  BY <1>5 DEF Silence, wire
<1>6. CASE WatchdogTimeout
  BY <1>6 DEF WatchdogTimeout, ConnectionLost, ScheduleReconnect, EndInError,
              StopReconnecting, LoggedOut
<1>7. CASE ReconnectTimerFires
  BY <1>7 DEF ReconnectTimerFires, OpenConnection, LoggedOut
<1>8. ASSUME NEW kind \in {"disconnect", "dispose"}, Leave(kind) PROVE FlagsOK'
  BY <1>8 DEF Leave, Departed, StopReconnecting, LoggedOut
<1>9. CASE LeaveContinues
  BY <1>9 DEF LeaveContinues, Departed, LoggedOut
<1> QED
  BY <1>1, <1>2, <1>3, <1>4, <1>5, <1>6, <1>7, <1>8, <1>9 DEF Next

LEMMA WordsStay == WordsOK /\ [Next]_vars => WordsOK'
<1> SUFFICES ASSUME WordsOK, [Next]_vars PROVE WordsOK'
  OBVIOUS
<1> USE DEF WordsOK, Statuses
<1>1. CASE UNCHANGED vars
  BY <1>1 DEF vars, client, wire
<1>2. CASE Connect
  BY <1>2 DEF Connect, OpenConnection
<1>3. CASE JoinReturns
  BY <1>3 DEF JoinReturns, wire
<1>4. ASSUME NEW g \in Generations, Network(g) PROVE WordsOK'
  <2> USE DEF ConnectionLost, ScheduleReconnect, EndInError, StopReconnecting, Emit,
              client, wire
  <2>1. CASE DialSucceeds(g)
    BY <2>1 DEF DialSucceeds, TooLate, Bind
  <2>2. CASE DialFails(g)
    BY <2>2 DEF DialFails
  <2>3. CASE NegotiationDrops(g) \/ NegotiationRefused(g) \/ NegotiationAgreed(g)
    BY <2>3 DEF NegotiationDrops, NegotiationRefused, NegotiationAgreed
  <2>4. CASE HandshakeCompletes(g)
    BY <2>4 DEF HandshakeCompletes
  <2>5. ASSUME NEW bad \in BOOLEAN, HandshakeFails(g, bad) PROVE WordsOK'
    BY <2>5 DEF HandshakeFails
  <2>6. CASE Hello(g)
    BY <2>6 DEF Hello
  <2>7. CASE Refusal(g)
    BY <2>7 DEF Refusal
  <2>8. CASE Traffic(g) \/ Overflow(g) \/ SocketEnds(g)
    BY <2>8 DEF Traffic, Overflow, SocketEnds
  <2> QED
    BY <1>4, <2>1, <2>2, <2>3, <2>4, <2>5, <2>6, <2>7, <2>8 DEF Network, Dial
<1>5. CASE Silence
  BY <1>5 DEF Silence, wire
<1>6. CASE WatchdogTimeout
  BY <1>6 DEF WatchdogTimeout, ConnectionLost, ScheduleReconnect, EndInError, Emit,
              StopReconnecting
<1>7. CASE ReconnectTimerFires
  BY <1>7 DEF ReconnectTimerFires, OpenConnection
<1>8. ASSUME NEW kind \in {"disconnect", "dispose"}, Leave(kind) PROVE WordsOK'
  BY <1>8 DEF Leave, Departed, CloseStreams, Emit, StopReconnecting
<1>9. CASE LeaveContinues
  BY <1>9 DEF LeaveContinues, Departed, CloseStreams, Emit
<1> QED
  BY <1>1, <1>2, <1>3, <1>4, <1>5, <1>6, <1>7, <1>8, <1>9 DEF Next

LEMMA PlacesStay == PlacesOK /\ [Next]_vars => PlacesOK'
<1> SUFFICES ASSUME PlacesOK, [Next]_vars PROVE PlacesOK'
  OBVIOUS
<1> USE DEF PlacesOK, Stages
<1>1. CASE UNCHANGED vars
  BY <1>1 DEF vars, client, wire
<1>2. CASE Connect
  BY <1>2 DEF Connect, MayBegin, OpenConnection, DestroyCurrentTransport
<1>3. CASE JoinReturns
  BY <1>3 DEF JoinReturns, wire
<1>4. ASSUME NEW g \in Generations, Network(g) PROVE PlacesOK'
  <2> USE DEF ConnectionLost, ScheduleReconnect, EndInError, StopReconnecting, DestroyCurrentTransport, Enter,
              client, wire
  <2>1. CASE DialSucceeds(g)
    BY <2>1 DEF DialSucceeds, TooLate, Bind
  <2>2. CASE DialFails(g)
    BY <2>2 DEF DialFails
  <2>3. CASE NegotiationDrops(g) \/ NegotiationRefused(g) \/ NegotiationAgreed(g)
    BY <2>3 DEF NegotiationDrops, NegotiationRefused, NegotiationAgreed
  <2>4. CASE HandshakeCompletes(g)
    BY <2>4 DEF HandshakeCompletes
  <2>5. ASSUME NEW bad \in BOOLEAN, HandshakeFails(g, bad) PROVE PlacesOK'
    BY <2>5 DEF HandshakeFails
  <2>6. CASE Hello(g)
    BY <2>6 DEF Hello
  <2>7. CASE Refusal(g)
    BY <2>7 DEF Refusal
  <2>8. CASE Traffic(g) \/ Overflow(g) \/ SocketEnds(g)
    BY <2>8 DEF Traffic, Overflow, SocketEnds
  <2> QED
    BY <1>4, <2>1, <2>2, <2>3, <2>4, <2>5, <2>6, <2>7, <2>8 DEF Network, Dial
<1>5. CASE Silence
  BY <1>5 DEF Silence, wire
<1>6. CASE WatchdogTimeout
  BY <1>6 DEF WatchdogTimeout, ConnectionLost, ScheduleReconnect, EndInError,
              StopReconnecting, DestroyCurrentTransport
<1>7. CASE ReconnectTimerFires
  BY <1>7 DEF ReconnectTimerFires, MayBegin, OpenConnection, DestroyCurrentTransport
<1>8. ASSUME NEW kind \in {"disconnect", "dispose"}, Leave(kind) PROVE PlacesOK'
  BY <1>8 DEF Leave, Departed, StopReconnecting, DestroyCurrentTransport
<1>9. CASE LeaveContinues
  BY <1>9 DEF LeaveContinues, Departed, DestroyCurrentTransport
<1> QED
  BY <1>1, <1>2, <1>3, <1>4, <1>5, <1>6, <1>7, <1>8, <1>9 DEF Next

\* Every handler leaves the state well typed.
LEMMA StepIsTyped == TypeOK /\ [Next]_vars => TypeOK'
  BY FlagsStay, WordsStay, PlacesStay DEF TypeOK

(* The state of the client is always well typed.                           *)
THEOREM TypeCorrect == Spec => []TypeOK
  BY InitIsTyped, StepIsTyped, PTL DEF Spec

-----------------------------------------------------------------------------
(* What the shared pieces of the handlers do to the invariant.             *)

LEMMA InitIsKept == Init => Fresh /\ Kept
  BY DEF Init, Fresh, Kept, Held, Guarded, Parting, OneThingUnderWay, Generations

\* Ending in an error leaves nothing.
LEMMA EndingKeeps ==
  ASSUME TypeOK, Kept, ~manual,
         StopReconnecting, DestroyCurrentTransport, LoggedOut, UNCHANGED leaving
  PROVE  Kept'
<1> USE DEF TypeOK, PlacesOK, FlagsOK, Kept, StopReconnecting, DestroyCurrentTransport, LoggedOut
<1>1. open' = {}
  BY DEF Held
<1>2. leaving' = "no"
  BY DEF Parting, WordsOK
<1>3. Held' /\ Parting'
  BY <1>1, <1>2 DEF Held, Parting
<1>4. Guarded'
  BY DEF Guarded
<1>5. OneThingUnderWay'
  BY <1>1, <1>2 DEF OneThingUnderWay
<1> QED
  BY <1>3, <1>4, <1>5

\* A reconnect that is scheduled leaves the timer and nothing else.
LEMMA SchedulingKeeps ==
  ASSUME TypeOK, Kept, ~manual, ScheduleReconnect,
         generation + 1 \in Generations => stage'[generation + 1] = "none"
  PROVE  Kept'
<1> USE DEF TypeOK, PlacesOK, FlagsOK, Kept, ScheduleReconnect, DestroyCurrentTransport,
            LoggedOut, Emit
<1>1. open' = {}
  BY DEF Held
<1>2. Held' /\ Parting'
  BY <1>1 DEF Held, Parting
<1>3. Guarded'
  BY DEF Guarded
<1>4. ~Advancing'
  BY DEF Advancing
<1>5. OneThingUnderWay'
  BY <1>1, <1>4 DEF OneThingUnderWay
<1> QED
  BY <1>2, <1>3, <1>5

LEMMA LosingKeeps ==
  ASSUME TypeOK, Kept, ~manual, ConnectionLost,
         generation + 1 \in Generations => stage'[generation + 1] = "none"
  PROVE  Kept'
  BY EndingKeeps, SchedulingKeeps DEF ConnectionLost, EndInError

\* An attempt that begins is the one thing under way.
LEMMA OpeningKeeps ==
  ASSUME TypeOK, Kept, ~manual, ~manual', OpenConnection, generation + 1 \in Generations,
         timer' = FALSE, UNCHANGED leaving, status' # "idle", status' # "connected"
  PROVE  Kept'
<1> USE DEF TypeOK, PlacesOK, FlagsOK, Kept, OpenConnection, DestroyCurrentTransport, LoggedOut
<1>1. open' = {}
  BY DEF Held
<1>2. Held' /\ Parting'
  BY <1>1 DEF Held, Parting
<1>3. Guarded'
  BY DEF Guarded
<1>4. Advancing'
  BY <1>1 DEF Advancing
<1>5. OneThingUnderWay'
  BY <1>1, <1>4 DEF OneThingUnderWay
<1> QED
  BY <1>2, <1>3, <1>5

-----------------------------------------------------------------------------
(* No step starts anything for a generation that is not there yet.         *)

LEMMA FreshStays ==
  ASSUME TypeOK, Fresh, Kept, [Next]_vars PROVE Fresh'
<1> USE DEF TypeOK, PlacesOK, FlagsOK, Fresh, Generations
<1>1. CASE UNCHANGED vars
  BY <1>1 DEF vars, client, wire
<1>2. CASE Connect
  <2>1. /\ generation' = generation + 1 /\ ~manual' /\ timer' = timer /\ ~manual
        /\ stage' = [stage EXCEPT ![generation + 1] = "dialing"]
    BY <1>2 DEF Connect, OpenConnection
  <2>2. ~timer
    BY <1>2 DEF Connect, Kept, Guarded
  <2> QED
    BY <2>1, <2>2
<1>3. CASE JoinReturns
  BY <1>3 DEF JoinReturns, wire
<1>4. ASSUME NEW g \in Generations, Network(g) PROVE Fresh'
  <2> USE DEF ConnectionLost, ScheduleReconnect, EndInError, StopReconnecting, Enter, client, wire
  <2>1. CASE DialSucceeds(g)
    BY <2>1 DEF DialSucceeds, TooLate, Bind
  <2>2. CASE DialFails(g)
    BY <2>2 DEF DialFails
  <2>3. CASE NegotiationDrops(g)
    BY <2>3 DEF NegotiationDrops
  <2>4. CASE NegotiationRefused(g)
    BY <2>4 DEF NegotiationRefused
  <2>5. CASE NegotiationAgreed(g)
    BY <2>5 DEF NegotiationAgreed, Stale
  <2>6. CASE HandshakeCompletes(g)
    BY <2>6 DEF HandshakeCompletes
  <2>7. ASSUME NEW bad \in BOOLEAN, HandshakeFails(g, bad) PROVE Fresh'
    BY <2>7 DEF HandshakeFails
  <2>8. CASE Hello(g) \/ Traffic(g)
    BY <2>8 DEF Hello, Traffic
  <2>9. CASE Refusal(g)
    BY <2>9 DEF Refusal, Hears
  <2>10. CASE Overflow(g)
    BY <2>10 DEF Overflow, Hears
  <2>11. CASE SocketEnds(g)
    BY <2>11 DEF SocketEnds
  <2> QED
    BY <1>4, <2>1, <2>2, <2>3, <2>4, <2>5, <2>6, <2>7, <2>8, <2>9, <2>10, <2>11 DEF Network, Dial
<1>5. CASE Silence
  BY <1>5 DEF Silence, wire
<1>6. CASE WatchdogTimeout
  BY <1>6 DEF WatchdogTimeout, ConnectionLost, ScheduleReconnect, EndInError, StopReconnecting
<1>7. CASE ReconnectTimerFires
  <2>1. CASE manual
    BY <1>7, <2>1 DEF ReconnectTimerFires
  <2>2. CASE ~manual
    <3>1. generation' = generation + 1 /\ ~manual' /\ timer' = FALSE
          /\ stage' = [stage EXCEPT ![generation + 1] = "dialing"]
      BY <1>7, <2>2 DEF ReconnectTimerFires, OpenConnection
    <3> QED
      BY <3>1
  <2> QED
    BY <2>1, <2>2
<1>8. ASSUME NEW kind \in {"disconnect", "dispose"}, Leave(kind) PROVE Fresh'
  BY <1>8 DEF Leave, StopReconnecting
<1>9. CASE LeaveContinues
  BY <1>9 DEF LeaveContinues
<1> QED
  BY <1>1, <1>2, <1>3, <1>4, <1>5, <1>6, <1>7, <1>8, <1>9 DEF Next

-----------------------------------------------------------------------------
(* Every step keeps the rest of the invariant.                             *)

\* An answer for the current attempt finds it where it was left.
LEMMA DialKeeps ==
  ASSUME ConnectionInvariant, NEW g \in Generations, Dial(g) PROVE Kept'
<1> USE DEF ConnectionInvariant, TypeOK, PlacesOK, FlagsOK, Generations, Fresh, Enter
<1>1. CASE stage[g] = "dialing" /\ TooLate(g)
  BY <1>1 DEF TooLate, client, Kept, Held, Guarded, Parting, OneThingUnderWay, Advancing, Stale
<1>2. CASE stage[g] = "dialing" /\ ~Stale(g) /\ Bind(g, "fresh")
  <2>1. ~manual /\ g = generation /\ raw = 0 /\ ~timer /\ leaving = "no"
    BY <1>2 DEF Stale, Kept, Held, Guarded, Parting, OneThingUnderWay, Advancing, WordsOK
  <2>2. Held' /\ Guarded' /\ Parting'
    BY <1>2, <2>1 DEF Bind, Emit, Kept, Held, Guarded, Parting, OneThingUnderWay
  <2>3. OneThingUnderWay'
    BY <1>2, <2>1 DEF Bind, Kept, Held, Guarded, Advancing, OneThingUnderWay
  <2> QED
    BY <2>2, <2>3 DEF Kept
<1>3. CASE DialFails(g) /\ Stale(g)
  BY <1>3 DEF DialFails, client, Kept, Held, Guarded, Parting, OneThingUnderWay, Advancing, Stale
<1>4. CASE DialFails(g) /\ ~Stale(g)
  BY <1>4, LosingKeeps DEF DialFails, Stale
<1> QED
  BY <1>1, <1>2, <1>3, <1>4 DEF Dial, DialSucceeds

LEMMA NegotiationKeeps ==
  ASSUME ConnectionInvariant, NEW g \in Generations,
         NegotiationDrops(g) \/ NegotiationRefused(g) \/ NegotiationAgreed(g)
  PROVE  Kept'
<1> USE DEF ConnectionInvariant, TypeOK, PlacesOK, FlagsOK, Generations, Fresh, Enter, Stale
<1>1. CASE NegotiationDrops(g)
  BY <1>1, LosingKeeps DEF NegotiationDrops
<1>2. CASE NegotiationRefused(g)
  BY <1>2, EndingKeeps DEF NegotiationRefused, EndInError
<1>3. CASE NegotiationAgreed(g)
  BY <1>3 DEF NegotiationAgreed, client, Kept, Held, Guarded, Parting, OneThingUnderWay, Advancing
<1> QED
  BY <1>1, <1>2, <1>3

LEMMA HandshakeKeeps ==
  ASSUME ConnectionInvariant, NEW g \in Generations,
         HandshakeCompletes(g) \/ \E bad \in BOOLEAN : HandshakeFails(g, bad)
  PROVE  Kept'
<1> USE DEF ConnectionInvariant, TypeOK, PlacesOK, FlagsOK, Generations, Fresh, Enter, Stale
<1>1. CASE HandshakeCompletes(g) /\ Stale(g)
  <2>1. g # raw /\ (~manual => g # generation)
    BY <1>1 DEF HandshakeCompletes, Kept, Held, Guarded, Parting, OneThingUnderWay, WordsOK
  <2> QED
    BY <1>1, <2>1 DEF HandshakeCompletes, client, Kept, Held, Guarded, Parting,
                      OneThingUnderWay, Advancing
<1>2. CASE HandshakeCompletes(g) /\ ~Stale(g)
  <2>1. ~manual /\ g = generation /\ raw = g /\ ~timer /\ leaving = "no"
    BY <1>2 DEF HandshakeCompletes, Kept, Held, Guarded, Parting, OneThingUnderWay, Advancing, WordsOK
  <2> QED
    BY <1>2, <2>1 DEF HandshakeCompletes, Kept, Held, Guarded, Parting, OneThingUnderWay, Advancing
<1>3. ASSUME NEW bad \in BOOLEAN, HandshakeFails(g, bad), Stale(g) PROVE Kept'
  BY <1>3 DEF HandshakeFails, client, Kept, Held, Guarded, Parting, OneThingUnderWay, Advancing
<1>4. ASSUME NEW bad \in BOOLEAN, HandshakeFails(g, bad), ~Stale(g) PROVE Kept'
  BY <1>4, EndingKeeps DEF HandshakeFails, EndInError
<1> QED
  BY <1>1, <1>2, <1>3, <1>4

LEMMA BoundKeeps ==
  ASSUME ConnectionInvariant, NEW g \in Generations,
         Hello(g) \/ Refusal(g) \/ Traffic(g) \/ Overflow(g) \/ SocketEnds(g)
  PROVE  Kept'
<1> USE DEF ConnectionInvariant, TypeOK, PlacesOK, FlagsOK, Generations, Fresh, Enter, Hears
<1>1. CASE Hello(g)
  BY <1>1 DEF Hello, Emit, wire, Kept, Held, Guarded, Parting, OneThingUnderWay, Advancing
<1>2. CASE Refusal(g)
  BY <1>2, EndingKeeps DEF Refusal, EndInError
<1>3. CASE Traffic(g)
  BY <1>3 DEF Traffic, wire, Kept, Held, Guarded, Parting, OneThingUnderWay, Advancing
<1>4. CASE Overflow(g)
  BY <1>4, LosingKeeps DEF Overflow
<1>5. CASE SocketEnds(g) /\ g # generation
  BY <1>5 DEF SocketEnds, client, Kept, Held, Guarded, Parting, OneThingUnderWay, Advancing
<1>6. CASE SocketEnds(g) /\ g = generation
  BY <1>6, LosingKeeps DEF SocketEnds
<1> QED
  BY <1>1, <1>2, <1>3, <1>4, <1>5, <1>6

LEMMA TimersKeep ==
  ASSUME ConnectionInvariant, Silence \/ WatchdogTimeout \/ ReconnectTimerFires PROVE Kept'
<1> USE DEF ConnectionInvariant, TypeOK, PlacesOK, FlagsOK, Generations, Fresh
<1>1. CASE Silence
  BY <1>1 DEF Silence, wire, Kept, Held, Guarded, Parting, OneThingUnderWay, Advancing
<1>2. CASE WatchdogTimeout
  BY <1>2, LosingKeeps DEF WatchdogTimeout, Kept, Guarded
<1>3. CASE ReconnectTimerFires
  <2>1. ~manual /\ status # "idle" /\ status # "connected"
    BY <1>3 DEF ReconnectTimerFires, Kept, Guarded, Held, OneThingUnderWay
  <2> QED
    BY <1>3, <2>1, OpeningKeeps DEF ReconnectTimerFires, MayBegin
<1> QED
  BY <1>1, <1>2, <1>3

LEMMA LeavingKeeps ==
  ASSUME ConnectionInvariant, LeaveContinues \/ \E kind \in {"disconnect", "dispose"} : Leave(kind) PROVE Kept'
<1> USE DEF ConnectionInvariant, TypeOK, PlacesOK, FlagsOK, WordsOK, Departed, DestroyCurrentTransport, LoggedOut,
            Kept, Held, Guarded, Parting, OneThingUnderWay
<1>1. CASE LeaveContinues
  BY <1>1 DEF LeaveContinues
<1>2. ASSUME NEW kind \in {"disconnect", "dispose"}, Leave(kind), loggedIn PROVE Kept'
  BY <1>2 DEF Leave, StopReconnecting
<1>3. ASSUME NEW kind \in {"disconnect", "dispose"}, Leave(kind), ~loggedIn PROVE Kept'
  BY <1>3 DEF Leave, StopReconnecting
<1> QED
  BY <1>1, <1>2, <1>3

LEMMA StepKeeps == ConnectionInvariant /\ [Next]_vars => ConnectionInvariant'
<1> SUFFICES ASSUME ConnectionInvariant, [Next]_vars PROVE Kept'
  BY StepIsTyped, FreshStays DEF ConnectionInvariant
<1>1. CASE UNCHANGED vars
  BY <1>1 DEF ConnectionInvariant, vars, client, wire, Kept, Held, Guarded, Parting, OneThingUnderWay, Advancing
<1>2. CASE Connect
  BY <1>2, OpeningKeeps DEF Connect, MayBegin, ConnectionInvariant, Kept, Guarded, TypeOK, FlagsOK
<1>3. CASE JoinReturns
  BY <1>3 DEF JoinReturns, wire, ConnectionInvariant, Kept, Held, Guarded, Parting, OneThingUnderWay, Advancing
<1>4. ASSUME NEW g \in Generations, Network(g) PROVE Kept'
  BY <1>4, DialKeeps, NegotiationKeeps, HandshakeKeeps, BoundKeeps DEF Network
<1>5. CASE Silence \/ WatchdogTimeout \/ ReconnectTimerFires
  BY <1>5, TimersKeep
<1>6. CASE LeaveContinues \/ \E kind \in {"disconnect", "dispose"} : Leave(kind)
  BY <1>6, LeavingKeeps
<1> QED
  BY <1>1, <1>2, <1>3, <1>4, <1>5, <1>6 DEF Next

LEMMA ConnectionInvariantHolds == Spec => []ConnectionInvariant
<1>1. Init => ConnectionInvariant
  BY InitIsTyped, InitIsKept DEF ConnectionInvariant
<1> QED
  BY <1>1, StepKeeps, PTL DEF Spec

-----------------------------------------------------------------------------
(* The results.                                                            *)

(* Exactly one thing brings a wanted client on, and nothing outlives a     *)
(* leave or a failure, whenever a dial, a handshake or an end comes.       *)
THEOREM NothingLost == Spec => []OneThingUnderWay
<1>1. ConnectionInvariant => OneThingUnderWay
  BY DEF ConnectionInvariant, Kept
<1> QED
  BY <1>1, ConnectionInvariantHolds, PTL

\* A joined connection is bound: no dial or negotiation is left to fail.
LEMMA JoinedIsBound ==
  ASSUME ConnectionInvariant, status = "connected", ~manual
  PROVE  generation \in Generations /\ stage[generation] = "bound"
  BY DEF ConnectionInvariant, TypeOK, PlacesOK, Kept, Held, Guarded, OneThingUnderWay

LEMMA LinkEndsForItself ==
  ASSUME ConnectionInvariant, [Next]_vars, status = "connected", status' = "reconnecting"
  PROVE  generation \in failed' \/ watchdog = "quiet"
<1> USE DEF Emit, EndInError, client
<1>1. CASE UNCHANGED vars
  BY <1>1 DEF vars
<1>2. CASE Connect \/ JoinReturns
  BY <1>2 DEF Connect, JoinReturns
<1>3. ASSUME NEW g \in Generations, Network(g) PROVE generation \in failed' \/ watchdog = "quiet"
  <2>1. CASE DialSucceeds(g)
    BY <2>1 DEF DialSucceeds, TooLate, Bind
  <2>2. CASE DialFails(g)
    BY <2>2, JoinedIsBound DEF DialFails, Stale
  <2>3. CASE NegotiationDrops(g)
    BY <2>3, JoinedIsBound DEF NegotiationDrops, Stale
  <2>4. CASE NegotiationRefused(g) \/ NegotiationAgreed(g)
    BY <2>4 DEF NegotiationRefused, NegotiationAgreed
  <2>5. CASE HandshakeCompletes(g)
    BY <2>5 DEF HandshakeCompletes
  <2>6. ASSUME NEW bad \in BOOLEAN, HandshakeFails(g, bad)
        PROVE  generation \in failed' \/ watchdog = "quiet"
    BY <2>6 DEF HandshakeFails
  <2>7. CASE Hello(g) \/ Refusal(g) \/ Traffic(g)
    BY <2>7 DEF Hello, Refusal, Traffic
  <2>8. CASE Overflow(g) \/ SocketEnds(g)
    BY <2>8 DEF Overflow, SocketEnds, Hears
  <2> QED
    BY <1>3, <2>1, <2>2, <2>3, <2>4, <2>5, <2>6, <2>7, <2>8 DEF Network, Dial
<1>4. CASE Silence \/ WatchdogTimeout
  BY <1>4 DEF Silence, WatchdogTimeout
<1>5. CASE ReconnectTimerFires
  BY <1>5 DEF ReconnectTimerFires
<1>6. ASSUME NEW kind \in {"disconnect", "dispose"}, Leave(kind)
      PROVE  generation \in failed' \/ watchdog = "quiet"
  BY <1>6 DEF Leave, Departed
<1>7. CASE LeaveContinues
  BY <1>7 DEF LeaveContinues, Departed
<1> QED
  BY <1>1, <1>2, <1>3, <1>4, <1>5, <1>6, <1>7 DEF Next

(* A joined connection is given up only because it failed or fell silent:  *)
(* no late word of an earlier one, no dial and no timer costs it.          *)
THEOREM OwnFailureOnly == Spec => OnlyOwnFailureEndsLink
<1>1. ConnectionInvariant /\ [Next]_vars =>
        [status = "connected" /\ status' = "reconnecting" =>
           generation \in failed' \/ watchdog = "quiet"]_vars
  BY LinkEndsForItself
<1> QED
  BY <1>1, ConnectionInvariantHolds, PTL DEF Spec, OnlyOwnFailureEndsLink

-----------------------------------------------------------------------------
(***************************************************************************)
(* The meeting point.  That a success falls into one lifetime needs to     *)
(* know that the invite on record is the first one and that it is on       *)
(* record until the run expires (Lifetime); that everyone is told the same *)
(* needs, of each key, what has been told of it against what is on record  *)
(* (Story), and that nothing is told any more once the record is gone.     *)
(***************************************************************************)
Typed ==
    /\ clock \in Nat /\ born \in Nat \cup {-1}
    /\ expired \in BOOLEAN
    /\ stored.expires_at \in Nat
    /\ DOMAIN checkpoints \subseteq Keys

Lifetime ==
    /\ stored # NoInvite => born # -1 /\ stored.expires_at = born + ttl_seconds /\ ~expired
    /\ born # -1 /\ ~expired => stored # NoInvite
    /\ born = -1 => ~expired /\ stored = NoInvite /\ DOMAIN checkpoints = {}

\* At most this has been told of a key.
OnRecord(k) == IF k = InviteKey
               THEN IF stored = NoInvite THEN {} ELSE {stored.value}
               ELSE IF k \in DOMAIN checkpoints THEN {checkpoints[k]} ELSE {}

Story == /\ told = [k \in Keys \cup {InviteKey} |-> told[k]]
         /\ ~expired => \A k \in DOMAIN told : told[k] \subseteq OnRecord(k)
         /\ \A k \in DOMAIN told : \E v : told[k] \subseteq {v}

RendezvousInvariant == Typed /\ Lifetime /\ Story /\ OneLifetime

\* The record after _expire_locked, on which every operation works.
Due == stored' = Stored /\ checkpoints' = Checkpoints /\ expired' = Expired /\ born' = born

-----------------------------------------------------------------------------

LEMMA InitHolds == RendezvousInit => RendezvousInvariant
<1> SUFFICES ASSUME RendezvousInit PROVE RendezvousInvariant
  OBVIOUS
<1>1. stored.expires_at = 0 /\ DOMAIN checkpoints = {}
  BY DEF RendezvousInit, NoInvite
<1>2. Typed
  <2>1. clock \in Nat /\ born \in Nat \cup {-1}
    BY DEF RendezvousInit
  <2>2. expired \in BOOLEAN
    BY DEF RendezvousInit
  <2> QED
    BY <1>1, <2>1, <2>2 DEF Typed
<1>3. Lifetime
  BY <1>1 DEF RendezvousInit, Lifetime
<1>4. Story
  BY DEF RendezvousInit, Story
<1>5. OneLifetime
  BY DEF RendezvousInit, OneLifetime, NoAnswer
<1> QED
  BY <1>2, <1>3, <1>4, <1>5 DEF RendezvousInvariant

\* What is due leaves, and with it the last moment of success.
LEMMA DueKeeps ==
  ASSUME RendezvousInvariant, Due, UNCHANGED clock PROVE Typed' /\ Lifetime' 
         /\ (~expired' => ~IsDue /\ stored' = stored /\ checkpoints' = checkpoints)
<1> USE DEF RendezvousInvariant, Due, Stored, Checkpoints, Expired
<1>1. CASE IsDue
  <2>1. stored' = NoInvite /\ expired' = TRUE /\ checkpoints' = <<>>
    BY <1>1
  <2>2. stored'.expires_at = 0 /\ DOMAIN checkpoints' = {}
    BY <2>1 DEF NoInvite
  <2>3. born # -1
    BY <1>1 DEF IsDue, Lifetime
  <2> QED
    BY <2>1, <2>2, <2>3 DEF Typed, Lifetime
<1>2. CASE ~IsDue
  <2>1. stored' = stored /\ expired' = expired /\ checkpoints' = checkpoints
    BY <1>2 DEF Typed
  <2> QED
    BY <1>2, <2>1 DEF Typed, Lifetime
<1> QED
  BY <1>1, <1>2

\* An answer that is no success changes nobody's story.
LEMMA RefusedKeeps ==
  ASSUME RendezvousInvariant, Due, UNCHANGED clock, NEW code, NEW key, NEW value,
         Answer(code, key, value), code # 200
  PROVE  RendezvousInvariant'
<1>1. Typed' /\ Lifetime' /\ (~expired' => ~IsDue /\ stored' = stored /\ checkpoints' = checkpoints)
      /\ told' = told
  BY DueKeeps DEF Answer, Typed
<1>2. Story'
  BY <1>1 DEF Story, OnRecord, RendezvousInvariant, Due, Expired
<1>3. OneLifetime'
  BY DEF Answer, OneLifetime
<1> QED
  BY <1>1, <1>2, <1>3 DEF RendezvousInvariant, Typed

\* A success tells what is on record, in the lifetime of the run.
LEMMA ToldKeeps ==
  ASSUME RendezvousInvariant, Due, UNCHANGED clock, ~Expired, stored # NoInvite,
         NEW key \in Keys \cup {InviteKey}, NEW value, value \in OnRecord(key),
         Answer(200, key, value)
  PROVE  RendezvousInvariant'
<1>1. Typed' /\ Lifetime' /\ ~IsDue /\ stored' = stored /\ checkpoints' = checkpoints /\ ~expired'
  BY DueKeeps DEF Answer, Typed, Due, Expired, RendezvousInvariant
<1>2. OnRecord(key) = {value}
  BY DEF OnRecord
<1>3. told' = [told EXCEPT ![key] = @ \cup {value}]
  BY DEF Answer
<1>4. \A k \in DOMAIN told : told'[k] \subseteq OnRecord(k)
  <2>1. \A k \in DOMAIN told : told[k] \subseteq OnRecord(k)
    BY DEF Story, RendezvousInvariant, Expired
  <2> QED
    BY <1>2, <1>3, <2>1
<1>5. \A k \in DOMAIN told : OnRecord(k)' = OnRecord(k)
  BY <1>1 DEF OnRecord
<1>6. \A k : \E v : OnRecord(k) \subseteq {v}
  BY DEF OnRecord
<1>7. Story'
  <2>1. DOMAIN told' = DOMAIN told /\ told' = [k \in Keys \cup {InviteKey} |-> told'[k]]
    BY <1>3 DEF Story, RendezvousInvariant
  <2>2. \A k \in DOMAIN told' : told'[k] \subseteq OnRecord(k)'
    BY <1>4, <1>5, <2>1
  <2>3. \A k \in DOMAIN told' : \E v : told'[k] \subseteq {v}
    <3> SUFFICES ASSUME NEW k \in DOMAIN told' PROVE \E v : told'[k] \subseteq {v}
      OBVIOUS
    <3> PICK v : OnRecord(k) \subseteq {v}
      BY <1>6
    <3> told'[k] \subseteq {v}
      BY <1>4, <2>1
    <3> QED
      OBVIOUS
  <2> QED
    BY <2>1, <2>2, <2>3 DEF Story
<1>8. OneLifetime'
  BY <1>1 DEF Answer, OneLifetime, IsDue, Lifetime, RendezvousInvariant, Due, Typed
<1> QED
  BY <1>1, <1>3, <1>7, <1>8 DEF RendezvousInvariant, Typed

\* A malformed or foreign request finds the record as it is.
LEMMA RefuseKeeps ==
  ASSUME RendezvousInvariant, UNCHANGED clock, NEW key, NEW value, NEW run, Refuse(key, value, run)
  PROVE  RendezvousInvariant'
<1>1. told' = told /\ answer'.code # 200
  BY DEF Refuse, Answer
<1>2. Typed' /\ Lifetime' /\ Story'
  BY <1>1 DEF Refuse, RendezvousInvariant, Typed, Lifetime, Story, OnRecord
<1>3. OneLifetime'
  BY <1>1 DEF OneLifetime
<1> QED
  BY <1>2, <1>3 DEF RendezvousInvariant

\* The first invite begins the lifetime; nobody has been told anything yet.
LEMMA FirstInviteKeeps ==
  ASSUME RendezvousInvariant, UNCHANGED clock, NEW invite, ~Expired, stored = NoInvite,
         Answer(200, InviteKey, invite), checkpoints' = Checkpoints, expired' = Expired,
         stored' = [value |-> invite, expires_at |-> clock + ttl_seconds],
         born' = IF born = -1 THEN clock ELSE born
  PROVE  RendezvousInvariant'
<1> USE RendezvousAssumption
<1>1. ~expired /\ born = -1 /\ checkpoints' = checkpoints /\ DOMAIN checkpoints = {} /\ ~expired'
  BY DEF Expired, Checkpoints, IsDue, RendezvousInvariant, Lifetime
<1>2. stored'.expires_at = clock + ttl_seconds /\ stored'.value = invite
  OBVIOUS
<1>3. stored' # NoInvite
  BY <1>2 DEF NoInvite, RendezvousInvariant, Typed
<1>4. born' = clock
  BY <1>1
<1>5. Typed' /\ Lifetime'
  BY <1>1, <1>2, <1>3, <1>4 DEF RendezvousInvariant, Typed, Lifetime, Expired
<1>6. OneLifetime'
  BY <1>4 DEF OneLifetime, RendezvousInvariant, Typed
<1>7. told' = [told EXCEPT ![InviteKey] = @ \cup {invite}]
  BY DEF Answer
<1>8. \A k \in DOMAIN told : told[k] = {}
  BY <1>1 DEF RendezvousInvariant, Story, OnRecord
<1>9. Story'
  <2>1. DOMAIN told' = DOMAIN told /\ told' = [k \in Keys \cup {InviteKey} |-> told'[k]]
    BY <1>7 DEF Story, RendezvousInvariant
  <2>2. \A k \in DOMAIN told' : told'[k] = IF k = InviteKey THEN {invite} ELSE {}
    BY <1>7, <1>8, <2>1
  <2> QED
    BY <1>2, <1>3, <2>1, <2>2 DEF Story, OnRecord
<1> QED
  BY <1>5, <1>6, <1>9 DEF RendezvousInvariant

LEMMA PutInviteKeeps ==
  ASSUME RendezvousInvariant, UNCHANGED clock, NEW invite, NEW run, PutInvite(invite, run) PROVE RendezvousInvariant'
<1> USE DEF PutInvite, ExpireLocked
<1>1. CASE Expired
  <2>1. Due /\ Answer(410, InviteKey, invite)
    BY <1>1 DEF Due
  <2> QED
    BY <2>1, RefusedKeeps
<1>2. CASE ~Expired /\ Stored # NoInvite /\ Stored.value # invite
  <2>1. Due /\ Answer(409, InviteKey, invite)
    BY <1>2 DEF Due
  <2> QED
    BY <2>1, RefusedKeeps
<1>3. CASE ~Expired /\ Stored # NoInvite /\ Stored.value = invite
  <2>1. Due /\ Answer(200, InviteKey, invite) /\ stored # NoInvite /\ stored.value = invite
    BY <1>3 DEF Due, Stored, Expired
  <2> QED
    BY <1>3, <2>1, ToldKeeps DEF OnRecord
<1>4. CASE ~Expired /\ Stored = NoInvite
  BY <1>4, FirstInviteKeeps DEF Stored, Expired
<1> QED
  BY <1>1, <1>2, <1>3, <1>4

LEMMA GetInviteKeeps ==
  ASSUME RendezvousInvariant, UNCHANGED clock, NEW run, GetInvite(run) PROVE RendezvousInvariant'
<1>1. Due
  BY DEF GetInvite, ExpireLocked, Due
<1>2. CASE Expired \/ Stored = NoInvite
  BY <1>1, <1>2, RefusedKeeps DEF GetInvite
<1>3. CASE ~Expired /\ Stored # NoInvite
  <2>1. Answer(200, InviteKey, stored.value) /\ stored # NoInvite
    BY <1>3 DEF GetInvite, Stored, Expired
  <2> QED
    BY <1>1, <1>3, <2>1, ToldKeeps DEF OnRecord
<1> QED
  BY <1>2, <1>3

LEMMA GetCheckpointKeeps ==
  ASSUME RendezvousInvariant, UNCHANGED clock, NEW key \in Keys, NEW run, GetCheckpoint(key, run) PROVE RendezvousInvariant'
<1>1. Due
  BY DEF GetCheckpoint, ExpireLocked, Due
<1>2. CASE Expired \/ key \notin DOMAIN Checkpoints
  BY <1>1, <1>2, RefusedKeeps DEF GetCheckpoint
<1>3. CASE ~Expired /\ key \in DOMAIN Checkpoints
  <2>1. Answer(200, key, checkpoints[key]) /\ key \in DOMAIN checkpoints
    BY <1>3 DEF GetCheckpoint, Checkpoints, Expired
  <2>2. stored # NoInvite
    BY <1>3, <2>1 DEF RendezvousInvariant, Lifetime, Expired
  <2>3. key # InviteKey
    BY RendezvousAssumption
  <2> QED
    BY <1>1, <1>3, <2>1, <2>2, <2>3, ToldKeeps DEF OnRecord
<1> QED
  BY <1>2, <1>3

\* A checkpoint that is written, or written again as it is.
LEMMA WrittenKeeps ==
  ASSUME RendezvousInvariant, UNCHANGED clock, NEW key \in Keys, NEW value, ~Expired, stored # NoInvite,
         key \in DOMAIN checkpoints => checkpoints[key] = value,
         stored' = Stored, expired' = Expired, born' = born, Answer(200, key, value),
         checkpoints' = [k \in DOMAIN checkpoints \cup {key} |->
                            IF k = key THEN value ELSE checkpoints[k]]
  PROVE  RendezvousInvariant'
<1>1. ~IsDue /\ ~expired /\ ~expired' /\ stored' = stored /\ key # InviteKey
  BY RendezvousAssumption DEF Expired, Stored
<1>2. Typed' /\ Lifetime'
  BY <1>1 DEF RendezvousInvariant, Typed, Lifetime, Expired
<1>3. OneLifetime'
  BY <1>1 DEF OneLifetime, IsDue, RendezvousInvariant, Lifetime, Typed
<1>4. told' = [told EXCEPT ![key] = @ \cup {value}]
  BY DEF Answer
<1>5. OnRecord(key)' = {value} /\ told[key] \subseteq {value}
  BY <1>1 DEF OnRecord, RendezvousInvariant, Story
<1>6. \A k \in DOMAIN told : k # key => OnRecord(k)' = OnRecord(k)
  BY <1>1 DEF OnRecord
<1>7. Story'
  <2>1. DOMAIN told' = DOMAIN told /\ told' = [k \in Keys \cup {InviteKey} |-> told'[k]]
    BY <1>4 DEF Story, RendezvousInvariant
  <2>2. \A k \in DOMAIN told : told[k] \subseteq OnRecord(k)
    BY <1>1 DEF RendezvousInvariant, Story
  <2>3. \A k \in DOMAIN told' : told'[k] \subseteq OnRecord(k)'
    BY <1>4, <1>5, <1>6, <2>1, <2>2
  <2>4. \A k \in DOMAIN told' : \E v : told'[k] \subseteq {v}
    BY <1>4, <1>5, <2>1 DEF RendezvousInvariant, Story
  <2> QED
    BY <2>1, <2>3, <2>4 DEF Story
<1> QED
  BY <1>2, <1>3, <1>7 DEF RendezvousInvariant

LEMMA PutCheckpointKeeps ==
  ASSUME RendezvousInvariant, UNCHANGED clock, NEW key \in Keys, NEW value, NEW run,
         PutCheckpoint(key, value, run)
  PROVE  RendezvousInvariant'
<1>1. CASE PutStatus(key, value) # 200
  <2>1. Due
    BY <1>1 DEF PutCheckpoint, ExpireLocked, Due
  <2> QED
    BY <1>1, <2>1, RefusedKeeps DEF PutCheckpoint
<1>2. CASE PutStatus(key, value) = 200
  <2>1. ~Expired /\ Stored # NoInvite
        /\ (key \in DOMAIN Checkpoints => Checkpoints[key] = value)
    BY <1>2 DEF PutStatus
  <2>2. Stored = stored /\ Checkpoints = checkpoints
    BY <2>1 DEF Stored, Checkpoints, Expired
  <2> QED
    BY <1>2, <2>1, <2>2, WrittenKeeps DEF PutCheckpoint, ExpireLocked
<1> QED
  BY <1>1, <1>2

LEMMA TickKeeps == ASSUME RendezvousInvariant, Tick PROVE RendezvousInvariant'
<1>1. Typed'
  BY DEF Tick, RendezvousInvariant, Typed
<1>2. Lifetime'
  BY DEF Tick, RendezvousInvariant, Lifetime
<1>3. Story'
  <2>1. \A k : OnRecord(k)' = OnRecord(k)
    BY DEF Tick, OnRecord
  <2> QED
    BY <2>1 DEF Tick, RendezvousInvariant, Story
<1>4. OneLifetime'
  BY DEF Tick, OneLifetime, NoAnswer
<1> QED
  BY <1>1, <1>2, <1>3, <1>4 DEF RendezvousInvariant

LEMMA StepHolds == RendezvousInvariant /\ [RendezvousNext]_rendezvous => RendezvousInvariant'
<1> SUFFICES ASSUME RendezvousInvariant, [RendezvousNext]_rendezvous PROVE RendezvousInvariant'
  OBVIOUS
<1>1. CASE UNCHANGED rendezvous
  BY <1>1 DEF rendezvous, RendezvousInvariant, Typed, Lifetime, Story, OnRecord, OneLifetime
<1>2. CASE Tick
  BY <1>2, TickKeeps
<1>3. ASSUME NEW run \in RunIds, Request(run), UNCHANGED clock PROVE RendezvousInvariant'
  BY <1>3, PutInviteKeeps, RefuseKeeps, GetInviteKeeps, PutCheckpointKeeps, GetCheckpointKeeps
     DEF Request
<1> QED
  BY <1>1, <1>2, <1>3 DEF RendezvousNext

LEMMA RendezvousInvariantHolds == RendezvousSpec => []RendezvousInvariant
  BY InitHolds, StepHolds, PTL DEF RendezvousSpec

-----------------------------------------------------------------------------
(* The results.                                                            *)

(* A run succeeds in one interval of ttl_seconds from its first invite, for*)
(* any lifetime and any number of requests.                                *)
THEOREM SuccessHasOneLifetime == RendezvousSpec => []OneLifetime
<1>1. RendezvousInvariant => OneLifetime
  BY DEF RendezvousInvariant
<1> QED
  BY <1>1, RendezvousInvariantHolds, PTL

(* Everyone is told the same of each key, for any devices and values.      *)
THEOREM EveryoneHearsOneStory == RendezvousSpec => []OneStory
<1>1. ASSUME NEW S, NEW v, S \subseteq {v} PROVE Cardinality(S) <= 1
  <2>1. IsFiniteSet({v}) /\ Cardinality({v}) = 1
    BY FS_Singleton
  <2> QED
    BY <1>1, <2>1, FS_Subset
<1>2. RendezvousInvariant => OneStory
  BY <1>1 DEF RendezvousInvariant, Story, OneStory
<1> QED
  BY <1>2, RendezvousInvariantHolds, PTL
=============================================================================
