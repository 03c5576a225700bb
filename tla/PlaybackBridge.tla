--------------------------- MODULE PlaybackBridge ---------------------------
(***************************************************************************)
(* PlaybackSyncBridge: one phone (or TV) decoder kept in step with a       *)
(* Syncplay room.  Everything runs on one Dart isolate, so a handler is    *)
(* atomic up to its next await; native commands, authorization and loads   *)
(* are awaited inside the serial queue _tail, and connection, room, user   *)
(* and decoder events interleave with those awaits.                        *)
(*                                                                         *)
(* Playback positions, rate correction and first-play catch-up are left    *)
(* out: the properties below are about who may start or stop the decoder   *)
(* and what the room is told about it.                                     *)
(***************************************************************************)
EXTENDS Naturals, Sequences

CONSTANTS
  Sources,         \* media URIs a user may open
  NetworkSources,  \* the ones streamed over the network
  NoSource,
  External,        \* target.acceptsExternalPlaybackChanges (a TV)
  Reloadable,      \* target.canReloadAfterConnectionLoss (the phone)
  Transient,       \* the target may leave "ready" and return without a load
  Stimuli,         \* which environment events this instance exercises
  MaxStimuli       \* bound: how many of them happen in one behaviour

ASSUME BridgeAssumption ==
  /\ NetworkSources \subseteq Sources
  /\ NoSource \notin Sources
  /\ External \in BOOLEAN /\ Reloadable \in BOOLEAN /\ Transient \in BOOLEAN
  /\ MaxStimuli \in Nat

VARIABLES
  target,   \* PlaybackSnapshot of the decoder
  native,   \* commands handed to the decoder that have not taken effect yet
  event,    \* a snapshot change _onPlayer has not been told about
  loader,   \* whose target.load is in progress
  bridge,   \* the fields of PlaybackSyncBridge and of its SyncCore cache
  pc,       \* the await at which the head of the queue is suspended
  link,     \* the Syncplay session is logged in
  room,     \* SyncCore.lastObservedRoomState
  ghost,    \* history read by the properties only
  spent     \* stimuli used so far

vars == <<target, native, event, loader, bridge, pc, link, room, ghost, spent>>

-----------------------------------------------------------------------------
(* Values.                                                                 *)

Modes == {"paused", "playing"}
MaybeMode == Modes \cup {"none"}

NoRecovery == [source |-> NoSource, gen |-> 0, attempted |-> FALSE,
               recovering |-> FALSE, observedPause |-> FALSE,
               pendingPlay |-> FALSE, reconnected |-> "no"]

NoKey == <<0, 0>>          \* no (intent, source generation) pair

Operations ==
  [kind : {"peer", "play", "pause", "seek", "reassert", "recover"},
   mode : Modes,           \* the peer state to apply
   flag : BOOLEAN,         \* play: externallyStarted; reassert: alreadyPublished
   intent : Nat, gen : Nat]

Op(kind, mode, flag, s) ==
  [kind |-> kind, mode |-> mode, flag |-> flag,
   intent |-> s.intent, gen |-> s.gen]

ModeOf(t) == IF t.playing THEN "playing" ELSE "paused"

(* _hasSource: an accepted source that the decoder still has open.         *)
HasSource(s, t) ==
  /\ ~s.disposed
  /\ t.conn = "ready"
  /\ s.confirmed # NoSource
  /\ t.media = s.confirmed

(* (mutant: forgets that a newer intent replaced this one)                 *)
CurrentSource(s, t, intent, gen) == HasSource(s, t) /\ gen = s.gen

Current(s, t, intent, gen) ==
  HasSource(s, t) /\ intent = s.intent /\ gen = s.gen

(* A queued operation other than the recovery load holds _applying.        *)
Applying(s) == pc # "idle" /\ Head(s.queue).kind # "recover"

-----------------------------------------------------------------------------
(* The bridge's synchronous helpers, each a function of its fields.        *)

(* Every new intent cancels the timers and completes _superseded.          *)
NextIntent(s) ==
  [s EXCEPT !.intent = @ + 1, !.deferred = NoKey,
            !.buffering = FALSE, !.bufferTimer = FALSE]

Enqueue(s, op) == [s EXCEPT !.queue = Append(@, op)]

BeginSourceLoad(s) ==
  [NextIntent([s EXCEPT !.recovery = NoRecovery, !.confirmed = NoSource,
                        !.expected = "none", !.published = "none"])
     EXCEPT !.gen = @ + 1]

(* _publish: updateLocalState, and notifyLocalChange when changed.         *)
Publish(s, t, mode, changed) ==
  IF ~HasSource(s, t) THEN s
  ELSE [s EXCEPT !.buffering = @ \/ t.buffering,
                 !.published = mode, !.told = mode,
                 !.pending = @ \/ changed]

Acknowledge(s, mode) ==
  [s EXCEPT !.deferred = NoKey, !.expected = mode, !.fresh = TRUE,
            !.published = mode, !.told = mode]

ReassertPause(s, alreadyPublished) ==
  IF s.correction = <<s.intent, s.gen>> THEN s
  ELSE Enqueue([s EXCEPT !.correction = <<s.intent, s.gen>>],
               Op("reassert", "paused", alreadyPublished, s))

(* (mutant: a busy queue swallows the command)                             *)
LocalCommandWhenIdle(s, t, kind) ==
  IF ~HasSource(s, t) \/ s.queue # <<>> THEN s
  ELSE LET n == NextIntent(s) IN Enqueue(n, Op(kind, "paused", FALSE, n))

LocalCommand(s, t, kind) ==
  IF ~HasSource(s, t) THEN s
  ELSE LET n == NextIntent(s) IN Enqueue(n, Op(kind, "paused", FALSE, n))

LocalPlay(s, t, externallyStarted) ==
  IF ~HasSource(s, t) THEN s
  ELSE LET n == NextIntent([s EXCEPT !.recovery = NoRecovery])
       IN Enqueue([n EXCEPT !.localPlay = n.intent],
                  Op("play", "playing", externallyStarted, n))

(* (mutant: reconnecting alone lifts the hold)                             *)
HeldWhileOffline(s, mode) ==
  s.recovery # NoRecovery /\ (~s.connected \/ s.recovery.recovering)

(* After an outage a Play is held back until the room was seen paused.     *)
HeldByRecovery(s, mode) ==
  /\ s.recovery # NoRecovery
  /\ \/ ~s.connected
     \/ s.recovery.recovering
     \/ ~s.recovery.observedPause /\ mode = "playing"

OnPeer(s, t, mode) ==
  IF s.disposed THEN s
  ELSE IF HeldByRecovery(s, mode)
  THEN [s EXCEPT !.latestPeer = mode, !.expected = "none",
                 !.published = "paused", !.told = "paused",
                 !.recovery.pendingPlay =
                    @ \/ (s.connected /\ s.recovery.observedPause
                                      /\ mode = "playing")]
  ELSE LET acked == Acknowledge([s EXCEPT !.latestPeer = mode], mode)
           n     == NextIntent(acked)
       IN IF HasSource(s, t) THEN Enqueue(n, Op("peer", mode, FALSE, n))
          ELSE acked

(* _recoverNetworkSource: reopen a network source that failed in the       *)
(* outage, once, paused, and only shortly after the link is back.          *)
(* (mutant: does not remember that it tried)                               *)
MayRecoverAgain(s, t) ==
  /\ ~s.disposed /\ s.connected /\ Reloadable
  /\ t.media \in NetworkSources
  /\ s.recovery # NoRecovery
  /\ ~s.recovery.recovering /\ s.recovery.gen = s.gen
  /\ t.conn = "failed" /\ t.media = s.recovery.source

MayRecover(s, t) ==
  /\ ~s.disposed /\ s.connected /\ Reloadable
  /\ t.media \in NetworkSources
  /\ s.recovery # NoRecovery
  /\ ~s.recovery.attempted /\ ~s.recovery.recovering
  /\ s.recovery.gen = s.gen
  /\ s.recovery.reconnected # "expired"
  /\ t.conn = "failed"
  /\ t.media = s.recovery.source

RecoverNetworkSource(s, t) ==
  IF ~MayRecover(s, t) THEN s
  ELSE LET n == BeginSourceLoad(s)
       IN Enqueue([n EXCEPT !.recovery = [s.recovery EXCEPT
                       !.attempted = TRUE, !.recovering = TRUE, !.gen = n.gen]],
                  Op("recover", "paused", FALSE, n))

(* (mutant: assumes the room was heard of)                                 *)
MarkSourceOpenAssumingPeer(s, t) ==
  OnPeer([s EXCEPT !.deferred = NoKey, !.confirmed = t.media], t,
         IF room # "none" THEN room ELSE s.latestPeer)

MarkSourceOpen(s, t) ==
  LET open == [s EXCEPT !.deferred = NoKey, !.confirmed = t.media]
      peer == IF room # "none" THEN room ELSE s.latestPeer
  IN IF peer # "none" THEN OnPeer(open, t, peer)
     ELSE Publish(open, t, ModeOf(t), FALSE)

(* _onPlayer.  near: the reported position is where the expected command   *)
(* would have left the decoder.                                            *)
OnReadyPlayer(s, t, near) ==
  LET nativePause == ~t.playing /\ s.published = "playing"
      settled     == [s EXCEPT !.deferred = NoKey]
      told        == Publish(settled, t, ModeOf(t), nativePause)
  IN IF t.playing /\ s.published = "paused" /\ ~External
     THEN ReassertPause(s, FALSE)
     ELSE IF /\ s.expected # "none" /\ s.fresh
             /\ ~(s.expected = ModeOf(t) /\ near)
     THEN IF s.expected = "playing" /\ nativePause /\ s.deferred = NoKey
          THEN [s EXCEPT !.deferred = <<s.intent, s.gen>>]
          ELSE s
     ELSE IF t.playing /\ s.published = "paused"
     THEN IF s.externalPlay THEN settled
          ELSE LocalPlay([settled EXCEPT !.externalPlay = TRUE], t, TRUE)
     ELSE IF nativePause /\ ~External
     THEN ReassertPause(told, TRUE)
     ELSE told

OnPlayer(s, t, near) ==
  IF MayRecover(s, t) THEN RecoverNetworkSource(s, t)
  ELSE IF ~HasSource(s, t) THEN s
  ELSE IF t.buffering
  THEN [s EXCEPT !.deferred = NoKey, !.buffering = TRUE, !.bufferTimer = FALSE]
  ELSE IF Applying(s) THEN s
  ELSE LET p == [s EXCEPT !.deferred = IF t.playing THEN NoKey ELSE @]
       IN IF p.buffering /\ ~t.playing /\ p.published = "playing"
          THEN [p EXCEPT !.bufferTimer = TRUE]
          ELSE OnReadyPlayer([p EXCEPT !.buffering = FALSE,
                                       !.bufferTimer = FALSE], t, near)

-----------------------------------------------------------------------------
(* The operation queue.                                                    *)

Running == Head(bridge.queue)
RunningIsCurrent == Current(bridge, target, Running.intent, Running.gen)

(* (mutant: the correction key is never released)                          *)
FinishKeepingCorrection(s) ==
  LET op == Head(s.queue)
  IN [s EXCEPT
       !.queue = Tail(@),
       !.localPlay = IF op.kind = "play" /\ @ = op.intent THEN 0 ELSE @,
       !.externalPlay = @ /\ ~(op.kind = "play" /\ op.flag)]

(* The finally blocks and whenComplete callbacks of an operation.          *)
Finish(s) ==
  LET op == Head(s.queue)
  IN [s EXCEPT
       !.queue = Tail(@),
       !.localPlay = IF op.kind = "play" /\ @ = op.intent THEN 0 ELSE @,
       !.externalPlay = @ /\ ~(op.kind = "play" /\ op.flag),
       !.correction = IF op.kind = "reassert" /\ @ = <<op.intent, op.gen>>
                      THEN NoKey ELSE @]

Return(s) ==
  pc' = "idle" /\ bridge' = Finish(s) /\ UNCHANGED <<native, ghost>>

Await(where, command, s) ==
  pc' = where /\ native' = Append(native, command) /\ bridge' = s /\ UNCHANGED ghost

(* No continuation or stream delivery is ready.  Dart runs them all before *)
(* the next event, so input, timers and I/O never come between.            *)
Settled ==
  /\ bridge.queue # <<>> =>
       /\ pc # "idle"
       /\ pc = "auth" => bridge.intent = Running.intent
  /\ event => bridge.disposed
  /\ link => bridge.connected

OutsideQueue == UNCHANGED <<target, event, loader, link, room, spent>>

(* An operation whose intent was replaced while it waited does nothing.    *)
StartStale ==
  /\ pc = "idle" /\ bridge.queue # <<>>
  /\ CASE Running.kind = "recover" ->
            bridge.disposed \/ bridge.recovery = NoRecovery \/ bridge.gen # Running.gen
       [] Running.kind = "reassert" ->
            ~RunningIsCurrent \/ bridge.published # "paused"
       [] OTHER -> ~RunningIsCurrent
  /\ Return(bridge)
  /\ OutsideQueue

StartPeer ==
  /\ pc = "idle" /\ bridge.queue # <<>> /\ Running.kind = "peer"
  /\ RunningIsCurrent
  /\ IF Running.mode = "playing"
     THEN pc' = "auth" /\ UNCHANGED <<bridge, native, ghost>>
     ELSE Await("pause", "pause", bridge)
  /\ OutsideQueue

StartPlay ==
  /\ pc = "idle" /\ bridge.queue # <<>> /\ Running.kind = "play"
  /\ RunningIsCurrent
  /\ IF Running.flag
     THEN Await("externalPause", "pause", bridge)
     ELSE pc' = "auth" /\ UNCHANGED <<bridge, native, ghost>>
  /\ OutsideQueue

StartLocalCommand ==
  /\ pc = "idle" /\ bridge.queue # <<>> /\ Running.kind \in {"pause", "seek"}
  /\ RunningIsCurrent
  /\ Await("command", Running.kind, [bridge EXCEPT !.expected = "none"])
  /\ OutsideQueue

StartReassert ==
  /\ pc = "idle" /\ bridge.queue # <<>> /\ Running.kind = "reassert"
  /\ RunningIsCurrent /\ bridge.published = "paused"
  /\ Await("command", "pause", bridge)
  /\ OutsideQueue

StartRecover ==
  /\ pc = "idle" /\ bridge.queue # <<>> /\ Running.kind = "recover"
  /\ ~bridge.disposed /\ bridge.recovery # NoRecovery /\ bridge.gen = Running.gen
  /\ pc' = "load" /\ loader' = "recover" /\ native' = <<>> /\ event' = TRUE
  /\ target' = [target EXCEPT !.conn = "loading", !.playing = FALSE,
                              !.buffering = FALSE]
  /\ ghost' = [ghost EXCEPT !.reloads = @ + 1]
  /\ UNCHANGED <<bridge, link, room, spent>>

(* authorizePlayback answers; AppController._authorizePlay never grants    *)
(* while the room is disconnected.                                         *)
AuthorizeGranted ==
  /\ Settled /\ pc = "auth" /\ bridge.connected
  /\ IF ~RunningIsCurrent THEN Return(bridge)
     ELSE /\ IF Running.kind = "peer"
             THEN pc' = "pause" /\ native' = Append(native, "pause") /\ UNCHANGED bridge
             ELSE /\ pc' = "play" /\ native' = Append(native, "play")
                  /\ bridge' = [bridge EXCEPT !.expected = "none"]
          /\ ghost' = [ghost EXCEPT !.granted = bridge.intent]
  /\ OutsideQueue

AuthorizeDenied ==
  /\ Settled /\ pc = "auth" /\ ("deny" \in Stimuli \/ ~bridge.connected)
  /\ IF RunningIsCurrent THEN Await("deny", "pause", bridge) ELSE Return(bridge)
  /\ OutsideQueue

(* The allowance store threw.                                              *)
AuthorizeFailed ==
  /\ Settled /\ pc = "auth" /\ "deny" \in Stimuli
  /\ IF RunningIsCurrent /\ Running.kind = "peer"
     THEN Await("errorPause", "pause", bridge) ELSE Return(bridge)
  /\ OutsideQueue

(* A newer intent releases an authorization nobody has answered.           *)
AuthorizeSuperseded ==
  /\ pc = "auth" /\ bridge.intent # Running.intent
  /\ Return(bridge)
  /\ OutsideQueue

Awaiting(place) == Settled /\ pc = place /\ native = <<>>

PeerPaused ==
  /\ Awaiting("pause")
  /\ IF RunningIsCurrent THEN Await("seek", "seek", bridge) ELSE Return(bridge)
  /\ OutsideQueue

(* (mutant: the seek's answer is not checked against a newer intent)       *)
PeerSoughtUnchecked ==
  /\ Awaiting("seek")
  /\ IF Running.mode = "playing" THEN Await("play", "play", bridge)
     ELSE Return(Acknowledge(bridge, Running.mode))
  /\ OutsideQueue

PeerSought ==
  /\ Awaiting("seek")
  /\ IF ~RunningIsCurrent THEN Return(bridge)
     ELSE IF Running.mode = "playing" THEN Await("play", "play", bridge)
     ELSE Return(Acknowledge(bridge, Running.mode))
  /\ OutsideQueue

(* (mutant: the play's answer is not checked against a newer intent)       *)
PlayedUnchecked ==
  /\ Awaiting("play")
  /\ Return(IF Running.kind = "peer" THEN Acknowledge(bridge, "playing")
            ELSE Publish(bridge, target, "playing", TRUE))
  /\ OutsideQueue

(* target.play() returned, for a room Play or for the user's own.          *)
Played ==
  /\ Awaiting("play")
  /\ Return(IF ~RunningIsCurrent THEN bridge
            ELSE IF Running.kind = "peer" THEN Acknowledge(bridge, "playing")
            ELSE Publish(bridge, target, "playing", TRUE))
  /\ OutsideQueue

(* (mutant: the TV remote's Play skips the allowance)                      *)
ExternalPlayUnchecked ==
  /\ Awaiting("externalPause")
  /\ IF RunningIsCurrent THEN Await("play", "play", bridge) ELSE Return(bridge)
  /\ OutsideQueue

ExternalPlayHeld ==
  /\ Awaiting("externalPause")
  /\ IF RunningIsCurrent
     THEN pc' = "auth" /\ UNCHANGED <<bridge, native, ghost>>
     ELSE Return(bridge)
  /\ OutsideQueue

(* _denyPlayback: what follows the await does not look at the intent.      *)
PlaybackDenied ==
  /\ Awaiting("deny")
  /\ Return(Publish([bridge EXCEPT !.expected = "none"], target, "paused", TRUE))
  /\ OutsideQueue

LocalCommandDone ==
  /\ Awaiting("command") /\ Running.kind \in {"pause", "seek"}
  /\ LET kept == IF bridge.published = "none" THEN ModeOf(target)
                 ELSE bridge.published
         mode == IF Running.kind = "seek" THEN kept ELSE "paused"
     IN Return(IF RunningIsCurrent THEN Publish(bridge, target, mode, TRUE)
               ELSE bridge)
  /\ OutsideQueue

ReassertDone ==
  /\ Awaiting("command") /\ Running.kind = "reassert"
  /\ Return(IF ~RunningIsCurrent \/ bridge.published # "paused" \/ Running.flag
            THEN bridge
            ELSE IF bridge.expected = "paused" THEN Acknowledge(bridge, "paused")
            ELSE Publish(bridge, target, "paused", FALSE))
  /\ OutsideQueue

(* The second half of _onPeer's catch block, after its own pause.          *)
ReportError(s) ==
  Publish([s EXCEPT !.expected = "none"], target, ModeOf(target), TRUE)

ErrorPaused ==
  /\ Awaiting("errorPause")
  /\ Return(ReportError(bridge))
  /\ OutsideQueue

Spend(name) ==
  name \in Stimuli /\ spent < MaxStimuli /\ spent' = spent + 1

(* A failure after which nobody asks for the wanted pause again: its own,  *)
(* with nothing newer behind it, or that of the pause after a failed room  *)
(* Play when audio focus was lost meanwhile.  The decoder is then reported *)
(* as playing, and the pause that the loss has queued drops itself.        *)
LastPauseFails(late) ==
  /\ ~late
  /\ \/ pc = "command" /\ Running.kind \in {"pause", "reassert"} /\ RunningIsCurrent
     \/ pc = "errorPause" /\ ghost.want = "silent" /\ ~RunningIsCurrent

(* (mutant: the queue's chain keeps the error, and nothing behind it runs) *)
CommandFailsForAll(late) ==
  /\ Settled /\ Spend("fault")
  /\ pc \in {"pause", "seek", "play", "externalPause", "command", "deny", "errorPause"}
  /\ native' = IF late \/ native = <<>> THEN native
               ELSE SubSeq(native, 1, Len(native) - 1)
  /\ pc' = "idle" /\ bridge' = [Finish(bridge) EXCEPT !.queue = <<>>]
  /\ ghost' = [ghost EXCEPT !.want = IF LastPauseFails(late) THEN "no" ELSE @]
  /\ UNCHANGED <<target, event, loader, link, room>>

(* The awaited native command fails.  After a timeout it may still reach   *)
(* the decoder later (late); a rejected one never does.                    *)
CommandFails(late) ==
  /\ Settled /\ Spend("fault")
  /\ pc \in {"pause", "seek", "play", "externalPause", "command", "deny", "errorPause"}
  /\ LET left == IF late \/ native = <<>> THEN native
                 ELSE SubSeq(native, 1, Len(native) - 1)
     IN IF pc = "errorPause"
        THEN /\ pc' = "idle" /\ native' = left /\ bridge' = Finish(ReportError(bridge))
        ELSE IF Running.kind = "peer" /\ RunningIsCurrent
        THEN /\ pc' = "errorPause" /\ native' = Append(left, "pause")
             /\ UNCHANGED bridge
        ELSE /\ pc' = "idle" /\ native' = left /\ bridge' = Finish(bridge)
  /\ ghost' = [ghost EXCEPT !.want = IF LastPauseFails(late) THEN "no" ELSE @]
  /\ UNCHANGED <<target, event, loader, link, room>>

(* The recovery load settles; only success confirms the source, and it is  *)
(* published paused whatever the room was doing before the outage.         *)
RecoverySettled(s) == [s EXCEPT !.recovery.recovering = FALSE]

RecoveryLoaded ==
  /\ Settled /\ pc = "load" /\ loader = "recover"
  /\ target' = [target EXCEPT !.conn = "ready"]
  /\ loader' = "none" /\ event' = TRUE /\ pc' = "idle"
  /\ LET open == [bridge EXCEPT !.confirmed = target.media, !.expected = "none",
                                !.recovery.recovering = FALSE,
                                !.recovery.pendingPlay = FALSE]
         told == Publish(open, target', "paused", FALSE)
         held == bridge.recovery.pendingPlay
     IN bridge' = Finish(
          IF bridge.gen # Running.gen \/ bridge.disposed THEN bridge
          ELSE IF held /\ bridge.connected /\ bridge.recovery.observedPause
          THEN OnPeer(told, target', "playing") ELSE told)
  /\ UNCHANGED <<native, link, room, ghost, spent>>

RecoveryFailed ==
  /\ Settled /\ pc = "load" /\ loader = "recover" /\ Spend("fault")
  /\ target' = [target EXCEPT !.conn = "failed"]
  /\ loader' = "none" /\ event' = TRUE /\ pc' = "idle"
  /\ bridge' = Finish(IF bridge.gen # Running.gen \/ bridge.disposed THEN bridge
                      ELSE RecoverNetworkSource(RecoverySettled(bridge), target'))
  /\ UNCHANGED <<native, link, room, ghost>>

(* A newer target.load makes the recovery's own load return silently.      *)
RecoverySuperseded ==
  /\ pc = "load" /\ loader # "recover"
  /\ Return(bridge)
  /\ OutsideQueue

-----------------------------------------------------------------------------
(* The user, through AppController.                                        *)

UserPlay ==
  /\ Settled /\ Spend("user") /\ HasSource(bridge, target)
  /\ bridge' = LocalPlay(bridge, target, FALSE)
  /\ ghost' = [ghost EXCEPT !.consent = TRUE, !.want = "no"]
  /\ UNCHANGED <<target, native, event, loader, pc, link, room>>

UserPause ==
  /\ Settled /\ Spend("user") /\ HasSource(bridge, target)
  /\ bridge' = LocalCommand(bridge, target, "pause")
  /\ ghost' = [ghost EXCEPT !.want = "paused"]
  /\ UNCHANGED <<target, native, event, loader, pc, link, room>>

UserSeek ==
  /\ Settled /\ Spend("seek") /\ HasSource(bridge, target)
  /\ bridge' = LocalCommand(bridge, target, "seek")
  /\ ghost' = [ghost EXCEPT !.want = IF @ \in {"paused", "sought"} THEN "sought" ELSE "no"]
  /\ UNCHANGED <<target, native, event, loader, pc, link, room>>

(* load: the bridge forgets the old source before the target opens the new *)
UserLoads(source) ==
  /\ Settled /\ Spend("load") /\ ~bridge.disposed
  /\ bridge' = BeginSourceLoad(bridge)
  /\ target' = [media |-> source, conn |-> "loading",
                playing |-> FALSE, buffering |-> FALSE]
  /\ native' = <<>> /\ loader' = "user" /\ event' = TRUE
  /\ ghost' = [ghost EXCEPT !.consent = TRUE, !.want = "no"]
  /\ UNCHANGED <<pc, link, room>>

UserLoadDone ==
  /\ Settled /\ loader = "user" /\ loader' = "none"
  /\ target' = [target EXCEPT !.conn = "ready"] /\ event' = TRUE
  /\ bridge' = IF bridge.disposed THEN bridge ELSE MarkSourceOpen(bridge, target')
  /\ ghost' = [ghost EXCEPT !.consent = TRUE]
  /\ UNCHANGED <<native, pc, link, room, spent>>

UserLoadFails ==
  /\ Settled /\ loader = "user" /\ Spend("fault") /\ loader' = "none"
  /\ target' = [target EXCEPT !.conn = "failed"] /\ event' = TRUE
  /\ UNCHANGED <<native, bridge, pc, link, room, ghost>>

Dispose ==
  /\ Settled /\ Spend("dispose") /\ ~bridge.disposed
  /\ bridge' = [NextIntent([bridge EXCEPT !.recovery = NoRecovery])
                  EXCEPT !.disposed = TRUE, !.gen = @ + 1]
  /\ ghost' = [ghost EXCEPT !.want = "no"]
  /\ UNCHANGED <<target, native, event, loader, pc, link, room>>

-----------------------------------------------------------------------------
(* The room, through SyncplayClient.                                       *)

(* A State from the server.  The room listener sees every one; the peer    *)
(* stream only those decideFollow applies (follow), and never while this   *)
(* phone's own change waits to be sent.  The reply sends that change.      *)
RoomState(mode, follow) ==
  /\ Settled \/ ~bridge.connected
  /\ Spend("peer") /\ link
  /\ room' = mode
  /\ follow => ~bridge.pending
  /\ LET seen == IF /\ ~bridge.disposed /\ bridge.connected
                    /\ bridge.recovery # NoRecovery /\ mode = "paused"
                 THEN [bridge EXCEPT !.recovery.observedPause = TRUE,
                                     !.recovery.pendingPlay = FALSE]
                 ELSE bridge
         told == IF follow THEN OnPeer([seen EXCEPT !.told = mode], target, mode)
                 ELSE seen
     IN bridge' = [told EXCEPT !.pending = FALSE]
  /\ ghost' = [ghost EXCEPT
                 !.consent = @ \/ (bridge.connected /\ mode = "paused"),
                 !.want = IF follow THEN "no" ELSE @]
  /\ UNCHANGED <<target, native, event, loader, pc, link>>

(* The session drops.  An outage that finds the accepted source open       *)
(* starts a recovery; one that meets an unfinished recovery renews it.     *)
Outage(s, t) ==
  [(IF /\ s.confirmed # NoSource /\ t.media = s.confirmed
       /\ s.recovery = NoRecovery \/ t.conn = "ready"
    THEN [s EXCEPT !.recovery = [NoRecovery EXCEPT !.source = s.confirmed,
                                                   !.gen = s.gen]]
    ELSE IF /\ s.recovery # NoRecovery
            /\ s.recovery.gen = s.gen /\ t.media = s.recovery.source
    THEN [s EXCEPT !.recovery.attempted = FALSE, !.recovery.reconnected = "no",
                   !.recovery.observedPause = FALSE,
                   !.recovery.pendingPlay = FALSE]
    ELSE IF s.recovery # NoRecovery
    THEN [s EXCEPT !.recovery.observedPause = FALSE,
                   !.recovery.pendingPlay = FALSE]
    ELSE s) EXCEPT !.connected = FALSE]

ConnectionLost ==
  /\ Settled /\ Spend("link") /\ link /\ bridge.connected /\ link' = FALSE
  /\ bridge' = IF bridge.disposed THEN [bridge EXCEPT !.connected = FALSE]
               ELSE LocalCommand(Outage(bridge, target), target, "pause")
  /\ ghost' = [ghost EXCEPT !.consent = FALSE, !.outages = @ + 1,
                            !.want = IF HasSource(bridge, target) THEN "paused"
                                     ELSE "no"]
  /\ UNCHANGED <<target, native, event, loader, pc, room>>

(* Hello arrives; the bridge's listener hears of it a microtask later, and *)
(* a State in the same chunk overtakes it.                                 *)
LoggedIn ==
  /\ Settled /\ ~link /\ link' = TRUE
  /\ UNCHANGED <<target, native, event, loader, bridge, pc, room, ghost, spent>>

ConnectionRestored ==
  /\ link /\ ~bridge.connected
  /\ LET up == [bridge EXCEPT !.connected = TRUE,
                  !.recovery.reconnected =
                     IF bridge.recovery # NoRecovery /\ @ = "no" THEN "yes" ELSE @]
     IN bridge' = IF bridge.disposed THEN [bridge EXCEPT !.connected = TRUE]
                  ELSE RecoverNetworkSource(up, target)
  /\ UNCHANGED <<target, native, event, loader, pc, link, room, ghost, spent>>

RecoveryWindowEnds ==
  /\ Settled /\ bridge.recovery.reconnected = "yes"
  /\ bridge' = [bridge EXCEPT !.recovery.reconnected = "expired"]
  /\ UNCHANGED <<target, native, event, loader, pc, link, room, ghost, spent>>

-----------------------------------------------------------------------------
(* The decoder and its timers.                                             *)

(* The oldest outstanding command reaches the decoder.                     *)
NativeEffect ==
  /\ Settled /\ native # <<>> /\ native' = Tail(native) /\ event' = TRUE
  /\ target' = IF target.conn # "ready" THEN target
               ELSE [target EXCEPT !.playing =
                       CASE Head(native) = "play"  -> TRUE
                         [] Head(native) = "pause" -> FALSE
                         [] OTHER                  -> @]
  /\ UNCHANGED <<loader, bridge, pc, link, room, ghost, spent>>

(* The decoder changes by itself: it stops (end, unplugged headphones),    *)
(* starts (a lifecycle echo, a TV remote), stalls, recovers or fails.      *)
NativeChange(t) ==
  /\ Settled /\ target.conn = "ready" /\ Spend("native") /\ t # target
  /\ target' = t /\ event' = TRUE
  /\ ghost' = [ghost EXCEPT !.want = IF t.playing THEN "no" ELSE @]
  /\ UNCHANGED <<native, loader, bridge, pc, link, room>>

NativePlayingChanges ==
  \E on, stall \in BOOLEAN :
    NativeChange([target EXCEPT !.playing = on, !.buffering = stall])

NativeFails ==
  NativeChange([target EXCEPT !.conn = "failed", !.playing = FALSE,
                              !.buffering = FALSE])

(* A Cast receiver is briefly "loading" and then ready again.              *)
TransientLoss ==
  Transient /\ NativeChange([target EXCEPT !.conn = "loading",
                                           !.playing = FALSE, !.buffering = FALSE])

TransientReturn ==
  /\ Settled /\ Transient /\ target.conn = "loading" /\ loader = "none"
  /\ target' = [target EXCEPT !.conn = "ready"] /\ event' = TRUE
  /\ UNCHANGED <<native, loader, bridge, pc, link, room, ghost, spent>>

(* _onPlayer hears of a changed snapshot, or of the position of a playing  *)
(* decoder, which reports it several times a second.                       *)
PlayerEvent ==
  /\ event \/ (target.playing /\ Settled)
  /\ ~bridge.disposed
  /\ event' = FALSE
  /\ \E near \in BOOLEAN : bridge' = OnPlayer(bridge, target, near)
  /\ ghost' = [ghost EXCEPT
                 !.consent = @ \/ (bridge'.externalPlay /\ ~bridge.externalPlay)]
  /\ UNCHANGED <<target, native, loader, pc, link, room, spent>>

(* Native audio focus is lost: the room's Play, or the user's pending one, *)
(* is over, whatever the snapshots say.                                    *)
FocusInterruption ==
  /\ Settled /\ Spend("focus") /\ ~External /\ HasSource(bridge, target)
  /\ target' = [target EXCEPT !.playing = FALSE] /\ event' = TRUE
  /\ LET wasPlaying == bridge.published = "playing"
         n == [NextIntent(bridge) EXCEPT !.expected = "none", !.localPlay = 0]
         ends == wasPlaying \/ bridge.localPlay = bridge.intent
     IN /\ bridge' =
             IF ends THEN ReassertPause(Publish(n, target, "paused",
                                          wasPlaying /\ bridge.connected), TRUE)
             ELSE bridge
        /\ ghost' = [ghost EXCEPT !.focusLost = @ \cup {bridge.intent},
                                  !.want = IF ends THEN "silent" ELSE @]
  /\ UNCHANGED <<native, loader, pc, link, room>>

EchoWindowEnds ==
  /\ Settled /\ bridge.expected # "none" /\ bridge.fresh
  /\ bridge' = [bridge EXCEPT !.fresh = FALSE]
  /\ UNCHANGED <<target, native, event, loader, pc, link, room, ghost, spent>>

(* The deferred pause: still stopped once the echo window has passed.      *)
DeferredPauseFires ==
  /\ Settled /\ ~bridge.disposed /\ bridge.deferred # NoKey /\ ~bridge.fresh
  /\ LET s == [bridge EXCEPT !.deferred = NoKey]
         stands == /\ Current(s, target, bridge.deferred[1], bridge.deferred[2])
                   /\ s.expected # "none" /\ s.published = "playing"
                   /\ ~target.buffering /\ ~target.playing
     IN bridge' = IF stands
                  THEN OnPlayer([s EXCEPT !.expected = "none"], target, FALSE)
                  ELSE s
  /\ UNCHANGED <<target, native, event, loader, pc, link, room, ghost, spent>>

BufferTimerFires ==
  /\ Settled /\ ~bridge.disposed /\ bridge.bufferTimer
  /\ \E near \in BOOLEAN :
       bridge' = OnPlayer([bridge EXCEPT !.buffering = FALSE,
                                         !.bufferTimer = FALSE], target, near)
  /\ ghost' = [ghost EXCEPT
                 !.consent = @ \/ (bridge'.externalPlay /\ ~bridge.externalPlay)]
  /\ UNCHANGED <<target, native, event, loader, pc, link, room, spent>>

-----------------------------------------------------------------------------
(* A room session starts with the link up and no video chosen.  start()    *)
(* queues requireExplicitResume first; without a player to configure that  *)
(* Future is complete already, and the queue empty again before any event. *)
Init ==
  /\ target = [media |-> NoSource, conn |-> "idle",
               playing |-> FALSE, buffering |-> FALSE]
  /\ native = <<>> /\ event = FALSE /\ loader = "none"
  /\ bridge = [confirmed |-> NoSource, gen |-> 0, intent |-> 0,
               disposed |-> FALSE, connected |-> TRUE, recovery |-> NoRecovery,
               latestPeer |-> "none", expected |-> "none", fresh |-> FALSE,
               published |-> "none", buffering |-> FALSE, bufferTimer |-> FALSE,
               deferred |-> NoKey, externalPlay |-> FALSE, correction |-> NoKey,
               localPlay |-> 0, queue |-> <<>>, told |-> "paused",
               pending |-> FALSE]
  /\ pc = "idle" /\ link = TRUE /\ room = "none" /\ spent = 0
  /\ ghost = [consent |-> TRUE, granted |-> 0, want |-> "no", outages |-> 0,
              reloads |-> 0, focusLost |-> {}]

Authorization == AuthorizeGranted \/ AuthorizeDenied \/ AuthorizeFailed

(* Queue steps that need nothing but the isolate and a working decoder.    *)
QueueStep ==
  \/ StartStale \/ StartPeer \/ StartPlay \/ StartLocalCommand
  \/ StartReassert \/ StartRecover
  \/ AuthorizeSuperseded \/ PeerPaused \/ PeerSought \/ Played
  \/ ExternalPlayHeld \/ PlaybackDenied \/ LocalCommandDone \/ ReassertDone
  \/ ErrorPaused \/ RecoveryLoaded \/ RecoverySuperseded

User ==
  \/ UserPlay \/ UserPause \/ UserSeek \/ Dispose
  \/ \E source \in Sources : UserLoads(source)
  \/ UserLoadDone \/ UserLoadFails

Room ==
  \/ \E mode \in Modes, follow \in BOOLEAN : RoomState(mode, follow)
  \/ ConnectionLost \/ LoggedIn \/ ConnectionRestored \/ RecoveryWindowEnds

Decoder ==
  \/ NativeEffect \/ NativePlayingChanges \/ NativeFails
  \/ TransientLoss \/ TransientReturn \/ PlayerEvent \/ FocusInterruption
  \/ EchoWindowEnds \/ DeferredPauseFires \/ BufferTimerFires

Faults == RecoveryFailed \/ \E late \in BOOLEAN : CommandFails(late)

Next == QueueStep \/ Authorization \/ User \/ Room \/ Decoder \/ Faults

Spec == Init /\ [][Next]_vars

(* The isolate runs every ready continuation and timer, the decoder        *)
(* executes or drops its commands, the user's load settles.  Nothing is    *)
(* assumed of the user, the room, the link, or of authorization ever       *)
(* answering.                                                              *)
Fairness ==
  /\ WF_vars(QueueStep) /\ WF_vars(NativeEffect) /\ WF_vars(PlayerEvent)
  /\ WF_vars(UserLoadDone) /\ WF_vars(EchoWindowEnds)
  /\ WF_vars(DeferredPauseFires) /\ WF_vars(BufferTimerFires)
  /\ WF_vars(ConnectionRestored)

FairSpec == Spec /\ Fairness

(* ... and here the allowance store also answers every request.            *)
AnsweredSpec == FairSpec /\ WF_vars(Authorization)

-----------------------------------------------------------------------------
(* Properties.                                                             *)

(* Every field stays in its range, and the running operation exists.       *)
TypeOK ==
  /\ target \in [media : Sources \cup {NoSource},
                  conn : {"idle", "loading", "ready", "failed"},
                  playing : BOOLEAN, buffering : BOOLEAN]
  /\ native \in Seq({"play", "pause", "seek"})
  /\ event \in BOOLEAN /\ loader \in {"none", "user", "recover"}
  /\ bridge \in
       [confirmed : Sources \cup {NoSource}, gen : Nat, intent : Nat,
        disposed : BOOLEAN, connected : BOOLEAN,
        recovery : [source : Sources \cup {NoSource}, gen : Nat,
                    attempted : BOOLEAN, recovering : BOOLEAN,
                    observedPause : BOOLEAN, pendingPlay : BOOLEAN,
                    reconnected : {"no", "yes", "expired"}],
        latestPeer : MaybeMode, expected : MaybeMode, fresh : BOOLEAN,
        published : MaybeMode, buffering : BOOLEAN, bufferTimer : BOOLEAN,
        deferred : Nat \X Nat, externalPlay : BOOLEAN,
        correction : Nat \X Nat, localPlay : Nat, queue : Seq(Operations),
        told : Modes, pending : BOOLEAN]
  /\ pc \in {"idle", "auth", "pause", "seek", "play", "externalPause",
             "command", "deny", "errorPause", "load"}
  /\ pc # "idle" => bridge.queue # <<>>
  /\ link \in BOOLEAN /\ room \in MaybeMode /\ spent \in 0..MaxStimuli
  /\ ghost \in [consent : BOOLEAN, granted : Nat,
                want : {"no", "paused", "sought", "silent"}, outages : Nat,
                reloads : Nat, focusLost : SUBSET Nat]

IssuesPlay ==
  /\ Len(native') > Len(native)
  /\ native'[Len(native')] = "play"

(* Whatever happened while the operation waited for the allowance, for the *)
(* decoder's pause or for its seek, play() is only called for the newest   *)
(* intent, and only after authorizePlayback granted that very intent.      *)
PlayIsAuthorized ==
  [][IssuesPlay => /\ RunningIsCurrent
                   /\ ghost'.granted = bridge.intent]_vars

(* "Reconnect never resumes playback by itself": after an outage play() is *)
(* called only once the user asked again or the room was seen paused.      *)
ReconnectNeverResumes == [][IssuesPlay => ghost.consent]_vars

(* "Native focus loss is a distinct event": an operation whose intent was  *)
(* the newest one when focus was lost never plays later, however long its  *)
(* authorization or its seek was in flight.                                *)
FocusLossEndsPlay ==
  [][IssuesPlay => Running.intent \notin ghost.focusLost]_vars

(* A network source that keeps failing is reopened once for every outage,  *)
(* even when the next outage interrupts the reload of the last.            *)
OneReloadPerOutage == ghost.reloads <= ghost.outages

(* This phone starts the room (a change to "playing" of its own) only      *)
(* after its allowance was granted for that intent.  The report of a       *)
(* failed command is no start: it says what the decoder does.              *)
OwnStartIsGranted ==
  [][(/\ pc # "errorPause" /\ ~bridge.pending /\ bridge'.pending
      /\ bridge.told = "paused" /\ bridge'.told = "playing")
       => ghost.granted = bridge.intent]_vars

(* A pause by the user, or the one an outage or a focus loss issues, stops *)
(* the decoder in the end, even if the operations before it fail, time out *)
(* and still reach the decoder later, or wait for an answer that never     *)
(* comes.  It is over when a newer intent replaces it, when the decoder    *)
(* starts again by itself, or after one of two failures: the decoder       *)
(* refuses this very pause, or focus was lost during the pause after a     *)
(* failed room Play, which fails as well (LastPauseFails).                 *)
PauseWins ==
  (ghost.want \in {"paused", "silent"})
    ~> (~target.playing \/ ghost.want \notin {"paused", "silent"})

(* "Explicit pause always wins": a seek asserts no new play state, so it   *)
(* does not undo the pause before it.                                      *)
ExplicitPauseAlwaysWins ==
  (ghost.want \in {"paused", "sought"})
    ~> (~target.playing \/ ghost.want \notin {"paused", "sought"})

(* A stalled decoder is not heard, whatever its playing flag says.         *)
Advancing(t) == t.playing /\ ~t.buffering

(* A phone whose room was told "paused" does not keep playing, unless the  *)
(* queue waits for an authorization.                                       *)
PausedRoomSilencesPhone ==
  (HasSource(bridge, target) /\ bridge.published = "paused" /\ Advancing(target))
    ~> \/ ~Advancing(target) \/ bridge.published # "paused"
       \/ ~HasSource(bridge, target) \/ pc = "auth"

(* "A persistent native pause must reach the room."                        *)
NativePauseReachesRoom ==
  (HasSource(bridge, target) /\ bridge.published = "playing"
     /\ ~target.playing /\ ~target.buffering)
    ~> (target.playing \/ target.buffering \/ bridge.published # "playing"
                       \/ ~HasSource(bridge, target))

(* "Invalidate a previous load or remote command before starting a new     *)
(* source": a queued operation of an earlier source changes nothing the    *)
(* room is told.                                                           *)
SourceChangeInvalidates ==
  [][(bridge.queue # <<>> /\ bridge'.queue = Tail(bridge.queue)
        /\ Running.gen # bridge.gen)
       => /\ bridge'.told = bridge.told
          /\ bridge'.pending = bridge.pending
          /\ bridge'.published = bridge.published]_vars

=============================================================================
