------------------------- MODULE SyncplayConnection -------------------------
(***************************************************************************)
(* The connection of lib/core/sync/syncplay_client.dart: dialling, the TLS *)
(* gate, the login, the watchdog, the backed-off reconnect and leaving.    *)
(* The app makes one client per endpoint it tries and connects it once     *)
(* (app_controller.dart:921-942), then disposes it at any moment.          *)
(*                                                                         *)
(* A TCP connection is named by the generation of the attempt that dialled *)
(* it, so that an answer which comes after its attempt was given up is     *)
(* told from one that comes in time.  The room's own traffic is Traffic.   *)
(***************************************************************************)
EXTENDS Naturals

CONSTANT MaxGeneration      \* bound: attempts begun and given up together

VARIABLES status,           \* lastConnectionState.status
          manual,           \* _manualDisconnect
          everLoggedIn,     \* _everLoggedIn
          loggedIn,         \* _loggedIn
          secure,           \* _channelSecure
          generation,       \* _generation
          raw,              \* _rawOwner: 0, or the connection it is
          socket,           \* _socket: 0, or the connection it is
          stage,            \* how far each attempt's asynchronous work is
          watchdog,         \* "off", "fresh" since the last bump, or "quiet"
          timer,            \* _reconnectTimer is armed
          leaving,          \* the rest of disconnect or dispose: "no" if none
          join,             \* connectUntilJoin
          open,             \* connections not closed by this side
          failed,           \* connections that failed by themselves
          refused           \* the server has refused this client

client == <<status, manual, everLoggedIn, loggedIn, secure, generation, raw,
            socket, watchdog, timer, leaving, join>>
wire == <<stage, open, failed, refused>>
vars == <<client, wire>>

Generations == 1..MaxGeneration
Stages == {"none", "dialing", "negotiating", "upgrading", "bound", "over"}
Statuses == {"idle", "connecting", "handshaking", "connected", "reconnecting",
             "error", "disconnected"}

\* The bound: two more generations are left, for losing an attempt that begins
\* and for leaving.
MayBegin == {generation + 1, generation + 3} \subseteq Generations

-----------------------------------------------------------------------------
(* Pieces of the handlers.                                                 *)

\* A client that has been disposed of delivers no states (SyncCore._disposed);
\* connectUntilJoin hears the others before anything else happens.
Emit(s) ==
    /\ status' = s
    /\ join' = IF join = "waiting" /\ s = "connected" THEN "hello"
               ELSE IF join \in {"waiting", "hello"} /\ s \in {"error", "disconnected"}
               THEN "refused" ELSE join

Stale(g) == g # generation \/ manual

Enter(g, s) == stage' = [stage EXCEPT ![g] = s]

\* _destroyCurrentTransport.  What was bound still reports its own end.
DestroyCurrentTransport ==
    /\ socket' = 0 /\ raw' = 0
    /\ open' = open \ {raw, socket}

LoggedOut == loggedIn' = FALSE /\ secure' = FALSE

\* _stopReconnecting.
StopReconnecting ==
    /\ manual' = TRUE
    /\ generation' = generation + 1
    /\ watchdog' = "off" /\ timer' = FALSE

\* _failInitialConnection, _failTlsNegotiation, and the end of an ErrorMessage.
EndInError ==
    /\ StopReconnecting /\ DestroyCurrentTransport /\ LoggedOut
    /\ Emit("error")
    /\ UNCHANGED <<everLoggedIn, leaving>>

ScheduleReconnect ==
    /\ generation' = generation + 1
    /\ watchdog' = "off" /\ timer' = TRUE
    /\ DestroyCurrentTransport /\ LoggedOut
    /\ Emit("reconnecting")
    /\ UNCHANGED <<manual, everLoggedIn, leaving>>

\* _onConnectionLost, _onWatchdogTimeout.  Their check of _manualDisconnect is
\* left out: setting it ends the generation that their callers compare.
ConnectionLost == IF everLoggedIn THEN ScheduleReconnect ELSE EndInError

\* _openConnection up to its await.
OpenConnection ==
    /\ generation' = generation + 1
    /\ stage' = [stage EXCEPT ![generation'] = "dialing"]
    /\ watchdog' = "off"
    /\ DestroyCurrentTransport /\ LoggedOut

-----------------------------------------------------------------------------
(* connectUntilJoin.                                                       *)

Connect ==
    /\ status = "idle" /\ leaving = "no" /\ ~manual /\ MayBegin
    /\ OpenConnection
    /\ status' = "connecting" /\ join' = "waiting"
    /\ UNCHANGED <<manual, everLoggedIn, timer, leaving, failed, refused>>

\* The turn that connectUntilJoin waits after its first outcome is over.
JoinReturns ==
    /\ join \in {"hello", "refused"}
    /\ join' = IF join = "refused" \/ status = "error" THEN "failed" ELSE "joined"
    /\ UNCHANGED <<status, manual, everLoggedIn, loggedIn, secure, generation, raw,
                   socket, watchdog, timer, leaving, wire>>

-----------------------------------------------------------------------------
(* The dial, the TLS negotiation and the handshake.                        *)

\* The rest of _openConnection for a dial that is still wanted.
Bind(g, watched) ==
    /\ Enter(g, "negotiating")
    /\ raw' = g /\ open' = open \cup {g}
    /\ Emit("handshaking")
    /\ watchdog' = watched
    /\ UNCHANGED <<manual, everLoggedIn, loggedIn, secure, generation, socket,
                   timer, leaving, failed, refused>>

TooLate(g) == Stale(g) /\ Enter(g, "over") /\ UNCHANGED <<client, open, failed, refused>>

\* A dial that comes too late is taken all the same.
DialSucceedsLate(g) == stage[g] = "dialing" /\ Bind(g, "fresh")

\* The watchdog starts with the login.
DialSucceedsUnwatched(g) ==
    stage[g] = "dialing" /\ (TooLate(g) \/ (~Stale(g) /\ Bind(g, watchdog)))

DialSucceeds(g) ==
    stage[g] = "dialing" /\ (TooLate(g) \/ (~Stale(g) /\ Bind(g, "fresh")))

\* SocketException, also after the dial's timeout of ten seconds.
DialFails(g) ==
    /\ stage[g] = "dialing"
    /\ Enter(g, "over")
    /\ IF Stale(g) THEN UNCHANGED <<client, open>> ELSE ConnectionLost
    /\ UNCHANGED <<failed, refused>>

\* readClosed, closed, an error or an end before the server has answered.
NegotiationDrops(g) ==
    /\ stage[g] = "negotiating" /\ ~Stale(g)
    /\ Enter(g, "over") /\ failed' = failed \cup {g}
    /\ ConnectionLost
    /\ UNCHANGED refused

\* startTLS false, an Error, another message or no message at all.
NegotiationRefused(g) ==
    /\ stage[g] = "negotiating" /\ ~Stale(g)
    /\ Enter(g, "over") /\ refused' = TRUE
    /\ EndInError
    /\ UNCHANGED failed

NegotiationAgreed(g) ==
    /\ stage[g] = "negotiating" /\ ~Stale(g)
    /\ Enter(g, "upgrading")
    /\ UNCHANGED <<client, open, failed, refused>>

\* The upgraded socket is bound and the Hello goes out on it, encrypted.
HandshakeCompletes(g) ==
    /\ stage[g] = "upgrading"
    /\ IF Stale(g)
       THEN Enter(g, "over") /\ open' = open \ {g} /\ UNCHANGED client
       ELSE /\ Enter(g, "bound")
            /\ secure' = TRUE /\ socket' = g
            /\ UNCHANGED <<status, manual, everLoggedIn, loggedIn, generation, raw,
                           watchdog, timer, leaving, join, open>>
    /\ UNCHANGED <<failed, refused>>

\* The peer is gone in the middle of the handshake, or it cannot prove who it
\* is: the same error for both.
HandshakeFails(g, bad) ==
    /\ stage[g] = "upgrading"
    /\ Enter(g, "over")
    /\ IF Stale(g) THEN UNCHANGED <<client, open>> ELSE EndInError
    /\ failed' = IF bad THEN failed ELSE failed \cup {g}
    /\ refused' = (refused \/ (bad /\ ~Stale(g)))

-----------------------------------------------------------------------------
(* The bound socket.                                                       *)

\* _onChunk hears only the current connection.
Hears(g) == stage[g] = "bound" /\ g = generation

Hello(g) ==
    /\ Hears(g) /\ ~loggedIn
    /\ watchdog' = "fresh"
    /\ loggedIn' = TRUE /\ everLoggedIn' = TRUE
    /\ Emit("connected")
    /\ UNCHANGED <<manual, secure, generation, raw, socket, timer, leaving, wire>>

\* An Error, alone or in one chunk behind the Hello.  The server says nothing
\* after it.
Refusal(g) ==
    /\ Hears(g)
    /\ refused' = TRUE /\ Enter(g, "over")
    /\ \/ EndInError
       \/ /\ ~loggedIn /\ everLoggedIn' = TRUE
          /\ StopReconnecting /\ DestroyCurrentTransport /\ LoggedOut
          /\ Emit("error")
          /\ UNCHANGED leaving
    /\ UNCHANGED failed

\* Any bytes at all, also before the Hello: _onChunk restarts the watchdog
\* before it reads them.
Traffic(g) ==
    /\ Hears(g) /\ watchdog = "quiet"
    /\ watchdog' = "fresh"
    /\ UNCHANGED <<status, manual, everLoggedIn, loggedIn, secure, generation, raw,
                   socket, timer, leaving, join, wire>>

\* LineOverflowException.
Overflow(g) ==
    /\ Hears(g)
    /\ failed' = failed \cup {g} /\ UNCHANGED <<stage, refused>>
    /\ ConnectionLost

\* Without the guard on the generation.
SocketEndsUnguarded(g) ==
    /\ stage[g] = "bound"
    /\ Enter(g, "over")
    /\ failed' = failed \cup {g}
    /\ IF manual THEN UNCHANGED <<client, open>> ELSE ConnectionLost
    /\ UNCHANGED refused

\* The listener of a bound socket hears its end or its error, those of an
\* earlier socket that was destroyed too.
SocketEnds(g) ==
    /\ stage[g] = "bound"
    /\ Enter(g, "over")
    /\ IF g # generation
       THEN UNCHANGED <<client, open, failed>>
       ELSE failed' = failed \cup {g} /\ ConnectionLost
    /\ UNCHANGED refused

-----------------------------------------------------------------------------
(* Timers.                                                                 *)

\* livenessTimeout passes in two parts, so that a bump can come in between.
Silence ==
    /\ watchdog = "fresh"
    /\ watchdog' = "quiet"
    /\ UNCHANGED <<status, manual, everLoggedIn, loggedIn, secure, generation, raw,
                   socket, timer, leaving, join, wire>>

WatchdogTimeout ==
    /\ watchdog = "quiet"
    /\ IF manual
       THEN /\ watchdog' = "off"
            /\ UNCHANGED <<status, manual, everLoggedIn, loggedIn, secure, generation,
                           raw, socket, timer, leaving, join, open>>
       ELSE ConnectionLost
    /\ UNCHANGED <<stage, failed, refused>>

ReconnectTimerFires ==
    /\ timer /\ MayBegin
    /\ timer' = FALSE
    /\ IF manual
       THEN UNCHANGED <<status, manual, everLoggedIn, loggedIn, secure, generation, raw,
                        socket, watchdog, leaving, join, stage, open>>
       ELSE OpenConnection /\ UNCHANGED <<status, manual, everLoggedIn, leaving, join>>
    /\ UNCHANGED <<failed, refused>>

-----------------------------------------------------------------------------
(* Leaving: disconnect, and dispose, whose streams close at the end.       *)

CloseStreams == IF join \in {"waiting", "hello"} THEN "refused" ELSE join

Departed(kind) ==
    /\ DestroyCurrentTransport /\ LoggedOut
    /\ leaving' = "over"
    /\ IF kind = "disconnect" THEN Emit("disconnected")
       ELSE status' = status /\ join' = CloseStreams

\* _announceLeaving is awaited for at most 120 ms.
Leave(kind) ==
    /\ leaving = "no"
    /\ StopReconnecting
    /\ IF loggedIn
       THEN leaving' = kind /\ UNCHANGED <<status, loggedIn, secure, raw, socket, join, open>>
       ELSE Departed(kind)
    /\ UNCHANGED <<everLoggedIn, stage, failed, refused>>

LeaveContinues ==
    /\ leaving \in {"disconnect", "dispose"}
    /\ Departed(leaving)
    /\ UNCHANGED <<manual, everLoggedIn, generation, watchdog, timer, stage, failed, refused>>

-----------------------------------------------------------------------------

Init ==
    /\ status = "idle" /\ join = "none" /\ leaving = "no"
    /\ manual = FALSE /\ everLoggedIn = FALSE
    /\ loggedIn = FALSE /\ secure = FALSE
    /\ generation = 0 /\ raw = 0 /\ socket = 0
    /\ watchdog = "off" /\ timer = FALSE
    /\ stage = [g \in Generations |-> "none"]
    /\ open = {} /\ failed = {} /\ refused = FALSE

Dial(g) == DialSucceeds(g) \/ DialFails(g)

Network(g) == \/ Dial(g)
              \/ NegotiationDrops(g) \/ NegotiationRefused(g) \/ NegotiationAgreed(g)
              \/ HandshakeCompletes(g) \/ \E bad \in BOOLEAN : HandshakeFails(g, bad)
              \/ Hello(g) \/ Refusal(g) \/ Traffic(g) \/ Overflow(g) \/ SocketEnds(g)

Next == \/ Connect \/ JoinReturns
        \/ \E g \in Generations : Network(g)
        \/ Silence \/ WatchdogTimeout \/ ReconnectTimerFires
        \/ \E kind \in {"disconnect", "dispose"} : Leave(kind)
        \/ LeaveContinues

\* A dial has a timeout, a timer fires, a bounded await returns; nothing is
\* assumed of the server or the network.
Fairness == /\ \A g \in Generations : WF_vars(Dial(g))
            /\ WF_vars(Silence) /\ WF_vars(WatchdogTimeout)
            /\ WF_vars(LeaveContinues) /\ WF_vars(JoinReturns)

Spec == Init /\ [][Next]_vars /\ Fairness

-----------------------------------------------------------------------------

FlagsOK == /\ manual \in BOOLEAN /\ everLoggedIn \in BOOLEAN
           /\ loggedIn \in BOOLEAN /\ secure \in BOOLEAN
           /\ timer \in BOOLEAN /\ refused \in BOOLEAN

WordsOK == /\ status \in Statuses
           /\ watchdog \in {"off", "fresh", "quiet"}
           /\ leaving \in {"no", "disconnect", "dispose", "over"}
           /\ join \in {"none", "waiting", "hello", "refused", "joined", "failed"}

PlacesOK == /\ generation \in Nat
            /\ raw \in Generations \cup {0} /\ socket \in Generations \cup {0}
            /\ stage \in [Generations -> Stages]
            /\ open \subseteq Generations /\ failed \subseteq Generations

TypeOK == FlagsOK /\ WordsOK /\ PlacesOK

\* The current attempt is dialling, or has its one connection under the eyes
\* of the watchdog.
Advancing ==
    /\ generation \in Generations
    /\ \/ stage[generation] = "dialing" /\ open = {}
       \/ /\ stage[generation] \in {"negotiating", "upgrading", "bound"}
          /\ watchdog # "off"
          /\ raw = generation /\ open = {generation}

(* A client that is meant to be connected always has exactly one thing     *)
(* under way that will bring it on, a watched attempt or an armed timer,   *)
(* and no other connection open; once it has left or failed nothing is     *)
(* left: no timer, no connection, and none that a late dial or handshake   *)
(* could still bring.                                                      *)
OneThingUnderWay ==
    /\ status # "idle" /\ ~manual => (timer <=> ~Advancing) /\ (timer => open = {})
    /\ manual => ~timer /\ watchdog = "off"
    /\ manual /\ leaving \in {"no", "over"} => open = {} /\ raw = 0 /\ socket = 0
    /\ loggedIn /\ ~manual => secure /\ socket = raw /\ stage[raw] = "bound"

(* A connection that has joined is given up only for its own failure or    *)
(* silence, or by leaving: an earlier socket's last words do not cost it.  *)
OnlyOwnFailureEndsLink ==
    [][status = "connected" /\ status' = "reconnecting" =>
          generation \in failed' \/ watchdog = "quiet"]_vars

\* No server keeps a connection busy for ever without saying Hello on it.
HelloIsNotWithheld ==
    <>[][\A g \in Generations : Traffic(g) => loggedIn]_vars

(* connectUntilJoin always returns: with a login that has happened, or with*)
(* a failure, whatever fails on the way and whatever answer never comes.   *)
(* A server that goes on sending bytes and never its Hello is the one      *)
(* exception: each of them puts the watchdog off, and nothing else bounds  *)
(* the wait.                                                               *)
JoinIsAnswered ==
    HelloIsNotWithheld =>
      (join = "waiting" ~> join = "failed" \/ (join = "joined" /\ everLoggedIn))

(* docs/ACCEPTANCE_HISTORY.md:1297-1299 and the comment at 667-668: a      *)
(* network fault during STARTTLS reconnects; only a refusal (an answer, a  *)
(* certificate, an Error) ends a session that had been established.        *)
OnlyRefusalStrands == everLoggedIn /\ status = "error" => refused
=============================================================================
