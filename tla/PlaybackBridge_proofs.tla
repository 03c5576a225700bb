----------------------- MODULE PlaybackBridge_proofs -----------------------
(***************************************************************************)
(* Proofs about PlaybackBridge.                                            *)
(***************************************************************************)
EXTENDS PlaybackBridge, TLAPS

(* The ranges TypeOK gives to the decoder's snapshot, to the recovery      *)
(* record and to the fields of the bridge.                                 *)
Snapshots == [media : Sources \cup {NoSource},
              conn : {"idle", "loading", "ready", "failed"},
              playing : BOOLEAN, buffering : BOOLEAN]

Recoveries == [source : Sources \cup {NoSource}, gen : Nat,
               attempted : BOOLEAN, recovering : BOOLEAN,
               observedPause : BOOLEAN, pendingPlay : BOOLEAN,
               reconnected : {"no", "yes", "expired"}]

Bridges ==
  [confirmed : Sources \cup {NoSource}, gen : Nat, intent : Nat,
   disposed : BOOLEAN, connected : BOOLEAN, recovery : Recoveries,
   latestPeer : MaybeMode, expected : MaybeMode, fresh : BOOLEAN,
   published : MaybeMode, buffering : BOOLEAN, bufferTimer : BOOLEAN,
   deferred : Nat \X Nat, externalPlay : BOOLEAN,
   correction : Nat \X Nat, localPlay : Nat, queue : Seq(Operations),
   told : Modes, pending : BOOLEAN]

-----------------------------------------------------------------------------
(* What every helper of the bridge returns is a bridge.                    *)
LEMMA ModeTypes ==
  /\ \A mode \in Modes : mode \in MaybeMode
  /\ "paused" \in Modes /\ "playing" \in Modes /\ "none" \in MaybeMode
  /\ \A mode \in MaybeMode : mode # "none" => mode \in Modes
  /\ \A t \in Snapshots : ModeOf(t) \in Modes
BY DEF Modes, MaybeMode, ModeOf, Snapshots

LEMMA NoRecoveryType == NoRecovery \in Recoveries /\ NoKey \in Nat \X Nat
BY DEF NoRecovery, Recoveries, NoKey

LEMMA NextIntentType ==
  ASSUME NEW s \in Bridges
  PROVE  NextIntent(s) \in Bridges
<1> DEFINE next == s.intent + 1
<1>1. next \in Nat
  BY DEF Bridges
<1>2. [s EXCEPT !.intent = next, !.deferred = NoKey,
                !.buffering = FALSE, !.bufferTimer = FALSE] \in Bridges
  <2> HIDE DEF next
  <2> QED BY <1>1, NoRecoveryType DEF Bridges
<1>3. QED
  BY <1>2 DEF NextIntent

LEMMA OpType ==
  ASSUME NEW s \in Bridges, NEW mode \in Modes, NEW flag \in BOOLEAN,
         NEW kind \in {"peer", "play", "pause", "seek", "reassert", "recover"}
  PROVE  Op(kind, mode, flag, s) \in Operations
BY DEF Bridges, Op, Operations

LEMMA EnqueueType ==
  ASSUME NEW s \in Bridges, NEW op \in Operations
  PROVE  Enqueue(s, op) \in Bridges
<1> DEFINE longer == Append(s.queue, op)
<1>1. longer \in Seq(Operations)
  BY DEF Bridges
<1>2. [s EXCEPT !.queue = longer] \in Bridges
  <2> HIDE DEF longer
  <2> QED BY <1>1 DEF Bridges
<1>3. QED
  BY <1>2 DEF Enqueue

LEMMA BeginSourceLoadType ==
  ASSUME NEW s \in Bridges
  PROVE  BeginSourceLoad(s) \in Bridges
<1> DEFINE r == [s EXCEPT !.recovery = NoRecovery, !.confirmed = NoSource,
                          !.expected = "none", !.published = "none"]
<1>1. r \in Bridges
  BY NoRecoveryType, ModeTypes DEF Bridges
<1>2. NextIntent(r) \in Bridges
  BY <1>1, NextIntentType
<1> DEFINE next == NextIntent(r).gen + 1
<1>3. [NextIntent(r) EXCEPT !.gen = next] \in Bridges
  <2> HIDE DEF r
  <2>1. next \in Nat
    BY <1>2 DEF Bridges
  <2> HIDE DEF next
  <2> QED BY <1>2, <2>1 DEF Bridges
<1>4. QED
  BY <1>3 DEF BeginSourceLoad

LEMMA PublishType ==
  ASSUME NEW s \in Bridges, NEW t \in Snapshots, NEW mode \in Modes,
         NEW changed \in BOOLEAN
  PROVE  Publish(s, t, mode, changed) \in Bridges
<1>1. [s EXCEPT !.buffering = @ \/ t.buffering, !.published = mode,
                !.told = mode, !.pending = @ \/ changed] \in Bridges
  BY ModeTypes DEF Bridges
<1>2. QED
  BY <1>1 DEF Publish

LEMMA OnPeerType ==
  ASSUME NEW s \in Bridges, NEW t \in Snapshots, NEW mode \in Modes
  PROVE  OnPeer(s, t, mode) \in Bridges
<1> USE ModeTypes
<1> DEFINE h == [s EXCEPT !.latestPeer = mode, !.expected = "none",
                 !.published = "paused", !.told = "paused",
                 !.recovery.pendingPlay =
                    @ \/ (s.connected /\ s.recovery.observedPause
                                      /\ mode = "playing")]
           a == Acknowledge([s EXCEPT !.latestPeer = mode], mode)
<1>1. h \in Bridges
  BY DEF Bridges, Recoveries
<1>2. a \in Bridges
  BY NoRecoveryType DEF Bridges, Acknowledge
<1>3. Enqueue(NextIntent(a), Op("peer", mode, FALSE, NextIntent(a))) \in Bridges
  <2> HIDE DEF a
  <2> QED BY <1>2, NextIntentType, OpType, EnqueueType
<1>4. QED
  BY <1>1, <1>2, <1>3 DEF OnPeer

LEMMA AcknowledgeType ==
  ASSUME NEW s \in Bridges, NEW mode \in Modes
  PROVE  Acknowledge(s, mode) \in Bridges
BY ModeTypes, NoRecoveryType DEF Bridges, Acknowledge

LEMMA ReassertPauseType ==
  ASSUME NEW s \in Bridges, NEW flag \in BOOLEAN
  PROVE  ReassertPause(s, flag) \in Bridges
<1> DEFINE key == <<s.intent, s.gen>>
<1>1. key \in Nat \X Nat
  BY DEF Bridges
<1>2. [s EXCEPT !.correction = key] \in Bridges
  <2> HIDE DEF key
  <2> QED BY <1>1 DEF Bridges
<1>3. Op("reassert", "paused", flag, s) \in Operations
  BY OpType, ModeTypes
<1>4. QED
  BY <1>2, <1>3, EnqueueType DEF ReassertPause

LEMMA LocalCommandType ==
  ASSUME NEW s \in Bridges, NEW t \in Snapshots, NEW kind \in {"pause", "seek"}
  PROVE  LocalCommand(s, t, kind) \in Bridges
BY NextIntentType, OpType, EnqueueType, ModeTypes DEF LocalCommand

LEMMA LocalPlayType ==
  ASSUME NEW s \in Bridges, NEW t \in Snapshots, NEW flag \in BOOLEAN
  PROVE  LocalPlay(s, t, flag) \in Bridges
<1> DEFINE n == NextIntent([s EXCEPT !.recovery = NoRecovery])
           started == n.intent
<1>1. [s EXCEPT !.recovery = NoRecovery] \in Bridges
  BY NoRecoveryType DEF Bridges
<1>2. n \in Bridges
  BY <1>1, NextIntentType
<1> HIDE DEF n
<1>3. started \in Nat
  BY <1>2 DEF Bridges
<1>4. [n EXCEPT !.localPlay = started] \in Bridges
  <2> HIDE DEF started
  <2> QED BY <1>2, <1>3 DEF Bridges
<1>5. Op("play", "playing", flag, n) \in Operations
  BY <1>2, OpType, ModeTypes
<1>6. QED
  BY <1>4, <1>5, EnqueueType DEF LocalPlay, n

LEMMA RecoverType ==
  ASSUME NEW s \in Bridges, NEW t \in Snapshots
  PROVE  RecoverNetworkSource(s, t) \in Bridges
<1> DEFINE n == BeginSourceLoad(s)
           r == [s.recovery EXCEPT !.attempted = TRUE, !.recovering = TRUE,
                                   !.gen = n.gen]
<1>1. n \in Bridges
  BY BeginSourceLoadType
<1> HIDE DEF n
<1>2. r \in Recoveries
  BY <1>1 DEF Bridges, Recoveries
<1>3. [n EXCEPT !.recovery = r] \in Bridges
  <2> HIDE DEF r
  <2> QED BY <1>1, <1>2 DEF Bridges
<1>4. Op("recover", "paused", FALSE, n) \in Operations
  BY <1>1, OpType, ModeTypes
<1>5. QED
  BY <1>3, <1>4, EnqueueType DEF RecoverNetworkSource, n

LEMMA MarkSourceOpenType ==
  ASSUME NEW s \in Bridges, NEW t \in Snapshots, room \in MaybeMode
  PROVE  MarkSourceOpen(s, t) \in Bridges
<1> DEFINE open == [s EXCEPT !.deferred = NoKey, !.confirmed = t.media]
           peer == IF room # "none" THEN room ELSE s.latestPeer
<1>1. open \in Bridges
  BY NoRecoveryType DEF Bridges, Snapshots
<1>2. peer \in MaybeMode
  BY DEF Bridges
<1>3. CASE peer # "none"
  <2>1. OnPeer(open, t, peer) \in Bridges
    BY <1>1, <1>2, <1>3, OnPeerType, ModeTypes
  <2>2. QED
    BY <1>3, <2>1 DEF MarkSourceOpen
<1>4. CASE peer = "none"
  <2>1. Publish(open, t, ModeOf(t), FALSE) \in Bridges
    BY <1>1, PublishType, ModeTypes
  <2>2. QED
    BY <1>4, <2>1 DEF MarkSourceOpen
<1>5. QED
  BY <1>3, <1>4

LEMMA OnReadyPlayerType ==
  ASSUME NEW s \in Bridges, NEW t \in Snapshots, NEW near \in BOOLEAN
  PROVE  OnReadyPlayer(s, t, near) \in Bridges
<1> DEFINE settled == [s EXCEPT !.deferred = NoKey]
           nativePause == ~t.playing /\ s.published = "playing"
           told == Publish(settled, t, ModeOf(t), nativePause)
           key == <<s.intent, s.gen>>
<1>1. settled \in Bridges
  BY NoRecoveryType DEF Bridges
<1>2. [settled EXCEPT !.externalPlay = TRUE] \in Bridges
  <2> HIDE DEF settled
  <2> QED BY <1>1 DEF Bridges
<1>3. told \in Bridges
  BY <1>1, PublishType, ModeTypes
<1>4. key \in Nat \X Nat
  BY DEF Bridges
<1>5. [s EXCEPT !.deferred = key] \in Bridges
  <2> HIDE DEF key
  <2> QED BY <1>4 DEF Bridges
<1>6. ReassertPause(s, FALSE) \in Bridges /\ ReassertPause(told, TRUE) \in Bridges
  <2> HIDE DEF told
  <2> QED BY <1>3, ReassertPauseType
<1>7. LocalPlay([settled EXCEPT !.externalPlay = TRUE], t, TRUE) \in Bridges
  <2> HIDE DEF settled
  <2> QED BY <1>2, LocalPlayType
<1>8. QED
  BY <1>1, <1>3, <1>5, <1>6, <1>7 DEF OnReadyPlayer

LEMMA OnPlayerType ==
  ASSUME NEW s \in Bridges, NEW t \in Snapshots, NEW near \in BOOLEAN
  PROVE  OnPlayer(s, t, near) \in Bridges
<1> DEFINE p == [s EXCEPT !.deferred = IF t.playing THEN NoKey ELSE @]
           q == [p EXCEPT !.buffering = FALSE, !.bufferTimer = FALSE]
<1>1. [s EXCEPT !.deferred = NoKey, !.buffering = TRUE, !.bufferTimer = FALSE]
        \in Bridges
  BY NoRecoveryType DEF Bridges
<1>2. p \in Bridges
  BY NoRecoveryType DEF Bridges
<1>3. [p EXCEPT !.bufferTimer = TRUE] \in Bridges /\ q \in Bridges
  <2> HIDE DEF p
  <2> QED BY <1>2 DEF Bridges
<1>4. OnReadyPlayer(q, t, near) \in Bridges
  <2> HIDE DEF q
  <2> QED BY <1>3, OnReadyPlayerType
<1>5. RecoverNetworkSource(s, t) \in Bridges
  BY RecoverType
<1>6. QED
  BY <1>1, <1>3, <1>4, <1>5 DEF OnPlayer

(* The finally blocks take one operation off the queue and nothing newer.  *)
LEMMA FinishType ==
  ASSUME NEW s \in Bridges, s.queue # <<>>
  PROVE  Finish(s) \in Bridges /\ Finish(s).queue = Tail(s.queue)
         /\ Finish(s).intent = s.intent
<1> DEFINE op == Head(s.queue)
           rest == Tail(s.queue)
           local == IF op.kind = "play" /\ s.localPlay = op.intent THEN 0
                    ELSE s.localPlay
           outside == s.externalPlay /\ ~(op.kind = "play" /\ op.flag)
           key == IF op.kind = "reassert" /\ s.correction = <<op.intent, op.gen>>
                  THEN NoKey ELSE s.correction
           r == [s EXCEPT !.queue = rest, !.localPlay = local,
                          !.externalPlay = outside, !.correction = key]
<1>1. rest \in Seq(Operations)
  BY DEF Bridges
<1>2. local \in Nat /\ outside \in BOOLEAN /\ key \in Nat \X Nat
  <2> HIDE DEF op
  <2> QED BY NoRecoveryType DEF Bridges
<1>3. r \in Bridges /\ r.queue = rest /\ r.intent = s.intent
  <2> HIDE DEF rest, local, outside, key
  <2> QED BY <1>1, <1>2 DEF Bridges
<1>4. QED
  BY <1>3 DEF Finish

-----------------------------------------------------------------------------
(* What a handler does to the queue: it adds one operation or none, of an  *)
(* intent that is not newer than the one it leaves behind.                 *)
Grows(s, r) ==
  /\ r.intent >= s.intent
  /\ \/ r.queue = s.queue
     \/ \E op \in Operations : op.intent <= r.intent /\ r.queue = Append(s.queue, op)

(* The helpers, one by one.                                                *)
LEMMA NextIntentGrows ==
  ASSUME NEW s \in Bridges
  PROVE  /\ NextIntent(s).intent = s.intent + 1
         /\ NextIntent(s).queue = s.queue
BY DEF Bridges, NextIntent

LEMMA EnqueueGrows ==
  ASSUME NEW s \in Bridges, NEW op
  PROVE  /\ Enqueue(s, op).intent = s.intent
         /\ Enqueue(s, op).queue = Append(s.queue, op)
BY DEF Bridges, Enqueue

LEMMA OpIntent ==
  ASSUME NEW s, NEW mode, NEW flag, NEW kind
  PROVE  Op(kind, mode, flag, s).intent = s.intent
BY DEF Op

LEMMA PublishGrows ==
  ASSUME NEW s \in Bridges, NEW t \in Snapshots, NEW mode \in Modes,
         NEW changed \in BOOLEAN
  PROVE  /\ Publish(s, t, mode, changed).intent = s.intent
         /\ Publish(s, t, mode, changed).queue = s.queue
BY DEF Bridges, Publish

LEMMA AcknowledgeGrows ==
  ASSUME NEW s \in Bridges, NEW mode
  PROVE  /\ Acknowledge(s, mode).intent = s.intent
         /\ Acknowledge(s, mode).queue = s.queue
BY DEF Bridges, Acknowledge

LEMMA BeginSourceLoadGrows ==
  ASSUME NEW s \in Bridges
  PROVE  /\ BeginSourceLoad(s).intent = s.intent + 1
         /\ BeginSourceLoad(s).queue = s.queue
BY DEF Bridges, BeginSourceLoad, NextIntent

LEMMA ReassertPauseGrows ==
  ASSUME NEW s \in Bridges, NEW flag \in BOOLEAN
  PROVE  /\ Grows(s, ReassertPause(s, flag))
         /\ ReassertPause(s, flag).intent = s.intent
<1> DEFINE r == [s EXCEPT !.correction = <<s.intent, s.gen>>]
           op == Op("reassert", "paused", flag, s)
<1>1. r.intent = s.intent /\ r.queue = s.queue /\ s.intent \in Nat
  BY DEF Bridges
<1>2. op \in Operations /\ op.intent = s.intent
  BY OpType, OpIntent, ModeTypes
<1>3. Enqueue(r, op).intent = s.intent /\ Enqueue(r, op).queue = Append(s.queue, op)
  <2>1. r \in Bridges
    <3>1. <<s.intent, s.gen>> \in Nat \X Nat
      BY DEF Bridges
    <3>2. QED
      BY <3>1 DEF Bridges
  <2> HIDE DEF r, op
  <2> QED BY <1>1, <2>1, EnqueueGrows
<1>4. QED
  <2> HIDE DEF r, op
  <2>1. ReassertPause(s, flag) = s \/ ReassertPause(s, flag) = Enqueue(r, op)
    BY DEF ReassertPause, r, op
  <2> QED BY <1>1, <1>2, <1>3, <2>1 DEF Grows

LEMMA LocalCommandGrows ==
  ASSUME NEW s \in Bridges, NEW t, NEW kind \in {"pause", "seek"}
  PROVE  Grows(s, LocalCommand(s, t, kind))
<1> DEFINE n == NextIntent(s)
           op == Op(kind, "paused", FALSE, n)
<1>1. n \in Bridges /\ n.intent = s.intent + 1 /\ n.queue = s.queue /\ s.intent \in Nat
  BY NextIntentType, NextIntentGrows DEF Bridges
<1> HIDE DEF n
<1>2. op \in Operations /\ op.intent = n.intent
  BY <1>1, OpType, OpIntent, ModeTypes
<1>3. Enqueue(n, op).intent = n.intent /\ Enqueue(n, op).queue = Append(n.queue, op)
  BY <1>1, EnqueueGrows
<1> HIDE DEF op
<1>4. LocalCommand(s, t, kind) = s \/ LocalCommand(s, t, kind) = Enqueue(n, op)
  BY DEF LocalCommand, n, op
<1>5. QED
  BY <1>1, <1>2, <1>3, <1>4 DEF Grows

LEMMA LocalPlayGrows ==
  ASSUME NEW s \in Bridges, NEW t, NEW flag \in BOOLEAN
  PROVE  Grows(s, LocalPlay(s, t, flag))
<1> DEFINE c == [s EXCEPT !.recovery = NoRecovery]
           n == NextIntent(c)
           started == n.intent
           r == [n EXCEPT !.localPlay = started]
           op == Op("play", "playing", flag, n)
<1>1. c \in Bridges /\ c.intent = s.intent /\ c.queue = s.queue /\ s.intent \in Nat
  BY NoRecoveryType DEF Bridges
<1> HIDE DEF c
<1>2. n \in Bridges /\ n.intent = s.intent + 1 /\ n.queue = s.queue
  BY <1>1, NextIntentType, NextIntentGrows
<1> HIDE DEF n
<1>3. started \in Nat
  BY <1>1, <1>2
<1>4. r \in Bridges /\ r.intent = n.intent /\ r.queue = n.queue
  <2> HIDE DEF started
  <2> QED BY <1>2, <1>3 DEF Bridges
<1>5. op \in Operations /\ op.intent = n.intent
  BY <1>2, OpType, OpIntent, ModeTypes
<1> HIDE DEF r, op
<1>6. Enqueue(r, op).intent = r.intent /\ Enqueue(r, op).queue = Append(r.queue, op)
  BY <1>4, EnqueueGrows
<1>7. LocalPlay(s, t, flag) = s \/ LocalPlay(s, t, flag) = Enqueue(r, op)
  BY DEF LocalPlay, r, op, n, c
<1>8. QED
  BY <1>1, <1>2, <1>4, <1>5, <1>6, <1>7 DEF Grows

LEMMA RecoverGrows ==
  ASSUME NEW s \in Bridges, NEW t
  PROVE  Grows(s, RecoverNetworkSource(s, t))
<1> DEFINE n == BeginSourceLoad(s)
           rec == [s.recovery EXCEPT !.attempted = TRUE, !.recovering = TRUE,
                                     !.gen = n.gen]
           r == [n EXCEPT !.recovery = rec]
           op == Op("recover", "paused", FALSE, n)
<1>1. n \in Bridges /\ n.intent = s.intent + 1 /\ n.queue = s.queue /\ s.intent \in Nat
  BY BeginSourceLoadType, BeginSourceLoadGrows DEF Bridges
<1> HIDE DEF n
<1>2. rec \in Recoveries
  BY <1>1 DEF Bridges, Recoveries
<1>3. r \in Bridges /\ r.intent = n.intent /\ r.queue = n.queue
  <2> HIDE DEF rec
  <2> QED BY <1>1, <1>2 DEF Bridges
<1>4. op \in Operations /\ op.intent = n.intent
  BY <1>1, OpType, OpIntent, ModeTypes
<1> HIDE DEF r, op
<1>5. Enqueue(r, op).intent = r.intent /\ Enqueue(r, op).queue = Append(r.queue, op)
  BY <1>3, EnqueueGrows
<1>6. RecoverNetworkSource(s, t) = s \/ RecoverNetworkSource(s, t) = Enqueue(r, op)
  BY DEF RecoverNetworkSource, r, op, n
<1>7. QED
  BY <1>1, <1>3, <1>4, <1>5, <1>6 DEF Grows

LEMMA OnPeerGrows ==
  ASSUME NEW s \in Bridges, NEW t \in Snapshots, NEW mode \in Modes
  PROVE  Grows(s, OnPeer(s, t, mode))
<1> DEFINE h == [s EXCEPT !.latestPeer = mode, !.expected = "none",
                 !.published = "paused", !.told = "paused",
                 !.recovery.pendingPlay =
                    @ \/ (s.connected /\ s.recovery.observedPause
                                      /\ mode = "playing")]
           b == [s EXCEPT !.latestPeer = mode]
           a == Acknowledge(b, mode)
           n == NextIntent(a)
           op == Op("peer", mode, FALSE, n)
<1>1. h.intent = s.intent /\ h.queue = s.queue /\ s.intent \in Nat
  BY DEF Bridges
<1>2. b \in Bridges /\ b.intent = s.intent /\ b.queue = s.queue
  BY ModeTypes DEF Bridges
<1> HIDE DEF h, b
<1>3. a \in Bridges /\ a.intent = s.intent /\ a.queue = s.queue
  BY <1>2, AcknowledgeType, AcknowledgeGrows
<1> HIDE DEF a
<1>4. n \in Bridges /\ n.intent = s.intent + 1 /\ n.queue = s.queue
  BY <1>3, NextIntentType, NextIntentGrows
<1> HIDE DEF n
<1>5. op \in Operations /\ op.intent = n.intent
  BY <1>4, OpType, OpIntent
<1> HIDE DEF op
<1>6. Enqueue(n, op).intent = n.intent /\ Enqueue(n, op).queue = Append(n.queue, op)
  BY <1>4, EnqueueGrows
<1>7. OnPeer(s, t, mode) \in {s, h, a, Enqueue(n, op)}
  BY DEF OnPeer, h, b, a, n, op
<1>8. QED
  BY <1>1, <1>3, <1>4, <1>5, <1>6, <1>7 DEF Grows

LEMMA MarkSourceOpenGrows ==
  ASSUME NEW s \in Bridges, NEW t \in Snapshots, room \in MaybeMode
  PROVE  Grows(s, MarkSourceOpen(s, t))
<1> DEFINE open == [s EXCEPT !.deferred = NoKey, !.confirmed = t.media]
           peer == IF room # "none" THEN room ELSE s.latestPeer
           told == Publish(open, t, ModeOf(t), FALSE)
<1>1. open \in Bridges /\ open.intent = s.intent /\ open.queue = s.queue
      /\ s.intent \in Nat /\ peer \in MaybeMode
  BY NoRecoveryType DEF Bridges, Snapshots
<1> HIDE DEF open, peer
<1>2. peer # "none" => Grows(open, OnPeer(open, t, peer))
  BY <1>1, OnPeerGrows, ModeTypes
<1>3. told.intent = open.intent /\ told.queue = open.queue
  BY <1>1, PublishGrows, ModeTypes
<1>4. MarkSourceOpen(s, t) = IF peer # "none" THEN OnPeer(open, t, peer)
                             ELSE told
  BY DEF MarkSourceOpen, open, peer, told
<1> HIDE DEF told
<1>5. CASE peer = "none"
  <2>1. MarkSourceOpen(s, t) = told
    BY <1>4, <1>5
  <2>2. QED
    BY <1>1, <1>3, <2>1 DEF Grows
<1>6. CASE peer # "none"
  <2>1. Grows(open, MarkSourceOpen(s, t))
    BY <1>2, <1>4, <1>6
  <2>2. QED
    BY <1>1, <2>1 DEF Grows
<1>7. QED
  BY <1>5, <1>6

LEMMA OnReadyPlayerGrows ==
  ASSUME NEW s \in Bridges, NEW t \in Snapshots, NEW near \in BOOLEAN
  PROVE  Grows(s, OnReadyPlayer(s, t, near))
<1> DEFINE settled == [s EXCEPT !.deferred = NoKey]
           outside == [settled EXCEPT !.externalPlay = TRUE]
           nativePause == ~t.playing /\ s.published = "playing"
           told == Publish(settled, t, ModeOf(t), nativePause)
           later == [s EXCEPT !.deferred = <<s.intent, s.gen>>]
<1>1. settled \in Bridges /\ settled.intent = s.intent /\ settled.queue = s.queue
      /\ s.intent \in Nat
  BY NoRecoveryType DEF Bridges
<1>2. outside \in Bridges /\ outside.intent = s.intent /\ outside.queue = s.queue
  <2> HIDE DEF settled
  <2> QED BY <1>1 DEF Bridges
<1>3. later.intent = s.intent /\ later.queue = s.queue
  BY DEF Bridges
<1> HIDE DEF settled, outside, later
<1>4. told \in Bridges /\ told.intent = s.intent /\ told.queue = s.queue
  BY <1>1, PublishType, PublishGrows, ModeTypes
<1> HIDE DEF told
<1>5. Grows(s, ReassertPause(s, FALSE)) /\ Grows(told, ReassertPause(told, TRUE))
      /\ Grows(outside, LocalPlay(outside, t, TRUE))
  BY <1>2, <1>4, ReassertPauseGrows, LocalPlayGrows
<1>6. OnReadyPlayer(s, t, near) \in
        {s, later, settled, told, ReassertPause(s, FALSE),
         ReassertPause(told, TRUE), LocalPlay(outside, t, TRUE)}
  BY DEF OnReadyPlayer, settled, outside, told, later
<1>7. /\ Grows(s, s) /\ Grows(s, later) /\ Grows(s, settled) /\ Grows(s, told)
      /\ Grows(s, ReassertPause(s, FALSE))
      /\ Grows(s, ReassertPause(told, TRUE))
      /\ Grows(s, LocalPlay(outside, t, TRUE))
  <2>1. Grows(s, s) /\ Grows(s, later)
    BY <1>1, <1>3 DEF Grows
  <2>2. Grows(s, settled) /\ Grows(s, told)
    BY <1>1, <1>4 DEF Grows
  <2>3. Grows(s, ReassertPause(told, TRUE))
    BY <1>4, <1>5 DEF Grows
  <2>4. Grows(s, LocalPlay(outside, t, TRUE))
    BY <1>2, <1>5 DEF Grows
  <2>5. QED
    BY <1>5, <2>1, <2>2, <2>3, <2>4
<1>8. QED
  BY <1>6, <1>7

LEMMA OnPlayerGrows ==
  ASSUME NEW s \in Bridges, NEW t \in Snapshots, NEW near \in BOOLEAN
  PROVE  Grows(s, OnPlayer(s, t, near))
<1> DEFINE stalled == [s EXCEPT !.deferred = NoKey, !.buffering = TRUE,
                                !.bufferTimer = FALSE]
           p == [s EXCEPT !.deferred = IF t.playing THEN NoKey ELSE @]
           timed == [p EXCEPT !.bufferTimer = TRUE]
           q == [p EXCEPT !.buffering = FALSE, !.bufferTimer = FALSE]
<1>1. p \in Bridges /\ p.intent = s.intent /\ p.queue = s.queue /\ s.intent \in Nat
  BY NoRecoveryType DEF Bridges
<1>2. stalled.intent = s.intent /\ stalled.queue = s.queue
  BY DEF Bridges
<1>3. /\ timed.intent = s.intent /\ timed.queue = s.queue
      /\ q \in Bridges /\ q.intent = s.intent /\ q.queue = s.queue
  <2> HIDE DEF p
  <2> QED BY <1>1 DEF Bridges
<1> HIDE DEF p, stalled, timed, q
<1>4. Grows(q, OnReadyPlayer(q, t, near)) /\ Grows(s, RecoverNetworkSource(s, t))
  BY <1>3, OnReadyPlayerGrows, RecoverGrows
<1>5. OnPlayer(s, t, near) \in {s, stalled, timed, RecoverNetworkSource(s, t),
                                OnReadyPlayer(q, t, near)}
  BY DEF OnPlayer, p, stalled, timed, q
<1>6. QED
  BY <1>1, <1>2, <1>3, <1>4, <1>5 DEF Grows

-----------------------------------------------------------------------------
(* The ranges of the rest of the state.                                    *)
Commands == {"play", "pause", "seek"}
Places == {"idle", "auth", "pause", "seek", "play", "externalPause",
           "command", "deny", "errorPause", "load"}

Histories == [consent : BOOLEAN, granted : Nat,
              want : {"no", "paused", "sought", "silent"}, outages : Nat,
              reloads : Nat, focusLost : SUBSET Nat]

(* TypeOK without the bridge's own fields.                                 *)
Surroundings ==
  /\ target \in Snapshots /\ native \in Seq(Commands)
  /\ event \in BOOLEAN /\ loader \in {"none", "user", "recover"}
  /\ pc \in Places
  /\ link \in BOOLEAN /\ room \in MaybeMode /\ spent \in 0..MaxStimuli
  /\ ghost \in Histories

(* An await has an operation to come back to.                              *)
Occupied == pc # "idle" => bridge.queue # <<>>

LEMMA TypeParts == TypeOK <=> Surroundings /\ bridge \in Bridges /\ Occupied
BY DEF TypeOK, Surroundings, Bridges, Occupied, Snapshots, Recoveries,
       Histories, Commands, Places

(* How a step treats the queue: it keeps the operation at the head, or it  *)
(* ends it after whatever the operation did.                               *)
Keeps ==
  /\ bridge' \in Bridges /\ Grows(bridge, bridge')
  /\ pc' # pc => bridge.queue # <<>>

Ends ==
  /\ pc' = "idle" /\ bridge.queue # <<>>
  /\ \E r \in Bridges : Grows(bridge, r) /\ bridge' = Finish(r)

LEMMA Unchanged == ASSUME NEW s \in Bridges PROVE Grows(s, s)
BY DEF Bridges, Grows

(* Adding an operation never empties the queue.                            *)
LEMMA GrowsNonempty ==
  ASSUME NEW s \in Bridges, NEW r, Grows(s, r), s.queue # <<>>
  PROVE  r.queue # <<>>
BY DEF Grows, Bridges

(* Ending an operation without any other change.                           *)
LEMMA Returning ==
  ASSUME TypeOK, bridge.queue # <<>>, Return(bridge)
  PROVE  Ends
BY TypeParts, Unchanged DEF Ends, Return

(* Ending an operation with something to publish or to acknowledge.        *)
LEMMA ReturningWith ==
  ASSUME TypeOK, bridge.queue # <<>>, NEW r \in Bridges, Return(r),
         r.intent = bridge.intent, r.queue = bridge.queue
  PROVE  Ends
<1>1. Grows(bridge, r)
  BY TypeParts DEF Grows, Bridges
<1>2. QED
  BY <1>1 DEF Ends, Return

(* Waiting for a native command changes no more than the expectation.      *)
LEMMA Expecting ==
  ASSUME NEW s \in Bridges
  PROVE  /\ [s EXCEPT !.expected = "none"] \in Bridges
         /\ [s EXCEPT !.expected = "none"].intent = s.intent
         /\ [s EXCEPT !.expected = "none"].queue = s.queue
BY ModeTypes DEF Bridges

(* An operation that goes on to its next await.                            *)
LEMMA Standing ==
  ASSUME TypeOK, bridge' = bridge, bridge.queue # <<>>
  PROVE  Keeps
BY TypeParts, Unchanged DEF Keeps

LEMMA RunningType ==
  ASSUME TypeOK, bridge.queue # <<>>
  PROVE  Running \in Operations
<1>1. bridge.queue \in Seq(Operations)
  BY TypeParts DEF Bridges
<1>2. QED
  BY <1>1 DEF Running

(* The report of a failed command.                                         *)
LEMMA Reporting ==
  ASSUME NEW s \in Bridges, target \in Snapshots
  PROVE  /\ ReportError(s) \in Bridges
         /\ ReportError(s).intent = s.intent
         /\ ReportError(s).queue = s.queue
<1> DEFINE e == [s EXCEPT !.expected = "none"]
           r == Publish(e, target, ModeOf(target), TRUE)
<1>1. e \in Bridges /\ e.intent = s.intent /\ e.queue = s.queue
  BY Expecting
<1> HIDE DEF e
<1>2. r \in Bridges /\ r.intent = s.intent /\ r.queue = s.queue
  BY <1>1, PublishType, PublishGrows, ModeTypes
<1> HIDE DEF r
<1>3. ReportError(s) = r
  BY DEF ReportError, r, e
<1>4. QED
  BY <1>2, <1>3

(* A recovery load that succeeded.                                         *)
LEMMA LoadedEffect == ASSUME TypeOK, RecoveryLoaded PROVE Ends
<1> bridge \in Bridges /\ target \in Snapshots /\ Occupied
  BY TypeParts DEF Surroundings
<1> DEFINE open == [bridge EXCEPT !.confirmed = target.media, !.expected = "none",
                                  !.recovery.recovering = FALSE,
                                  !.recovery.pendingPlay = FALSE]
           told == Publish(open, target', "paused", FALSE)
           peer == OnPeer(told, target', "playing")
<1>1. target' \in Snapshots
  BY DEF RecoveryLoaded, Snapshots
<1>2. open \in Bridges /\ open.intent = bridge.intent /\ open.queue = bridge.queue
  BY ModeTypes DEF Bridges, Recoveries, Snapshots
<1> HIDE DEF open
<1>3. told \in Bridges /\ told.intent = bridge.intent /\ told.queue = bridge.queue
  BY <1>1, <1>2, PublishType, PublishGrows, ModeTypes
<1>4. /\ pc' = "idle" /\ bridge.queue # <<>>
      /\ bridge' = Finish(bridge) \/ bridge' = Finish(told) \/ bridge' = Finish(peer)
  BY DEF RecoveryLoaded, Occupied, told, open, peer
<1> HIDE DEF told
<1>5. peer \in Bridges /\ Grows(told, peer)
  BY <1>1, <1>3, OnPeerType, OnPeerGrows, ModeTypes
<1> HIDE DEF peer
<1>6. Grows(bridge, bridge) /\ Grows(bridge, told) /\ Grows(bridge, peer)
  <2>1. bridge.intent \in Nat /\ Grows(bridge, bridge)
    BY Unchanged DEF Bridges
  <2>2. Grows(bridge, told)
    BY <1>3, <2>1 DEF Grows
  <2>3. Grows(bridge, peer)
    BY <1>3, <1>5, <2>1 DEF Grows
  <2>4. QED
    BY <2>1, <2>2, <2>3
<1>7. QED
  BY <1>3, <1>4, <1>5, <1>6 DEF Ends

(* Each step of the queue keeps or ends the operation at its head.         *)
LEMMA QueueEffect == ASSUME TypeOK, QueueStep PROVE Keeps \/ Ends
<1> bridge \in Bridges /\ target \in Snapshots /\ Occupied
  BY TypeParts DEF Surroundings
<1>1. CASE StartStale
  BY <1>1, Returning DEF StartStale
<1>2. CASE StartPeer \/ StartPlay \/ StartReassert \/ StartRecover
  BY <1>2, Standing DEF StartPeer, StartPlay, StartReassert, StartRecover, Await
<1>3. CASE StartLocalCommand
  <2>1. bridge.queue # <<>> /\ bridge' = [bridge EXCEPT !.expected = "none"]
    BY <1>3 DEF StartLocalCommand, Await
  <2>2. QED
    BY <2>1, Expecting DEF Keeps, Grows, Bridges
<1>4. CASE AuthorizeSuperseded
  BY <1>4, Returning DEF AuthorizeSuperseded, Occupied
<1>5. CASE PeerPaused
  <2>1. bridge.queue # <<>> /\ (bridge' = bridge \/ Return(bridge))
    BY <1>5 DEF PeerPaused, Awaiting, Await, Occupied
  <2>2. QED
    BY <2>1, Returning, Standing
<1>6. CASE PeerSought
  <2>1. bridge.queue # <<>>
    BY <1>6 DEF PeerSought, Awaiting, Occupied
  <2>2. Running.mode \in Modes
    BY <2>1, RunningType DEF Operations
  <2>3. \/ bridge' = bridge \/ Return(bridge)
        \/ Return(Acknowledge(bridge, Running.mode))
    BY <1>6 DEF PeerSought, Await
  <2>4. QED
    BY <2>1, <2>2, <2>3, Returning, Standing, ReturningWith, AcknowledgeType,
       AcknowledgeGrows
<1>7. CASE Played
  <2>1. bridge.queue # <<>>
    BY <1>7 DEF Played, Awaiting, Occupied
  <2>2. \/ Return(bridge) \/ Return(Acknowledge(bridge, "playing"))
        \/ Return(Publish(bridge, target, "playing", TRUE))
    BY <1>7 DEF Played
  <2>3. CASE Return(bridge) \/ Return(Acknowledge(bridge, "playing"))
    BY <2>1, <2>3, Returning, ReturningWith, AcknowledgeType, AcknowledgeGrows,
       ModeTypes
  <2>4. CASE Return(Publish(bridge, target, "playing", TRUE))
    <3> DEFINE r == Publish(bridge, target, "playing", TRUE)
    <3>1. r \in Bridges /\ r.intent = bridge.intent /\ r.queue = bridge.queue
      BY PublishType, PublishGrows, ModeTypes
    <3>2. Return(r)
      BY <2>4
    <3> HIDE DEF r
    <3>3. QED
      BY <2>1, <3>1, <3>2, ReturningWith
  <2>5. QED
    BY <2>2, <2>3, <2>4
<1>8. CASE ExternalPlayHeld
  <2>1. bridge.queue # <<>> /\ (bridge' = bridge \/ Return(bridge))
    BY <1>8 DEF ExternalPlayHeld, Awaiting, Occupied
  <2>2. QED
    BY <2>1, Returning, Standing
<1>9. CASE PlaybackDenied
  <2> DEFINE e == [bridge EXCEPT !.expected = "none"]
             r == Publish(e, target, "paused", TRUE)
  <2>1. e \in Bridges /\ e.intent = bridge.intent /\ e.queue = bridge.queue
    BY Expecting
  <2> HIDE DEF e
  <2>2. r \in Bridges /\ r.intent = bridge.intent /\ r.queue = bridge.queue
    BY <2>1, PublishType, PublishGrows, ModeTypes
  <2>3. Return(r) /\ bridge.queue # <<>>
    BY <1>9 DEF PlaybackDenied, Awaiting, Occupied, e
  <2> HIDE DEF r
  <2>4. QED
    BY <2>2, <2>3, ReturningWith
<1>10. CASE LocalCommandDone
  <2> DEFINE kept == IF bridge.published = "none" THEN ModeOf(target)
                     ELSE bridge.published
             mode == IF Running.kind = "seek" THEN kept ELSE "paused"
             r == Publish(bridge, target, mode, TRUE)
  <2>1. mode \in Modes
    BY ModeTypes DEF Bridges
  <2> HIDE DEF mode
  <2>2. r \in Bridges /\ r.intent = bridge.intent /\ r.queue = bridge.queue
    BY <2>1, PublishType, PublishGrows
  <2>3. bridge.queue # <<>> /\ (Return(r) \/ Return(bridge))
    BY <1>10 DEF LocalCommandDone, Awaiting, Occupied, mode
  <2> HIDE DEF r
  <2>4. QED
    BY <2>2, <2>3, Returning, ReturningWith
<1>11. CASE ReassertDone
  <2> DEFINE a == Acknowledge(bridge, "paused")
             r == Publish(bridge, target, "paused", FALSE)
  <2>1. /\ a \in Bridges /\ a.intent = bridge.intent /\ a.queue = bridge.queue
        /\ r \in Bridges /\ r.intent = bridge.intent /\ r.queue = bridge.queue
    BY AcknowledgeType, AcknowledgeGrows, PublishType, PublishGrows, ModeTypes
  <2>2. bridge.queue # <<>> /\ (Return(bridge) \/ Return(a) \/ Return(r))
    BY <1>11 DEF ReassertDone, Awaiting, Occupied
  <2> HIDE DEF a, r
  <2>3. QED
    BY <2>1, <2>2, Returning, ReturningWith
<1>12. CASE ErrorPaused
  <2> DEFINE r == ReportError(bridge)
  <2>1. r \in Bridges /\ r.intent = bridge.intent /\ r.queue = bridge.queue
    BY Reporting
  <2>2. Return(r) /\ bridge.queue # <<>>
    BY <1>12 DEF ErrorPaused, Awaiting, Occupied
  <2> HIDE DEF r
  <2>3. QED
    BY <2>1, <2>2, ReturningWith
<1>13. CASE RecoveryLoaded
  BY <1>13, LoadedEffect
<1>14. CASE RecoverySuperseded
  BY <1>14, Returning DEF RecoverySuperseded, Occupied
<1>15. QED
  BY <1>1, <1>2, <1>3, <1>4, <1>5, <1>6, <1>7, <1>8, <1>9, <1>10, <1>11, <1>12,
     <1>13, <1>14 DEF QueueStep

(* An answer of authorizePlayback, and a late one.                         *)
LEMMA AuthorizationEffect == ASSUME TypeOK, Authorization PROVE Keeps \/ Ends
<1> bridge \in Bridges /\ Occupied
  BY TypeParts
<1>1. CASE AuthorizeGranted
  <2>1. /\ bridge.queue # <<>>
        /\ \/ Return(bridge) \/ bridge' = bridge
           \/ bridge' = [bridge EXCEPT !.expected = "none"]
    BY <1>1 DEF AuthorizeGranted, Occupied
  <2>2. bridge' = [bridge EXCEPT !.expected = "none"] => Keeps
    BY <2>1, Expecting DEF Keeps, Grows, Bridges
  <2>3. QED
    BY <2>1, <2>2, Returning, Standing
<1>2. CASE AuthorizeDenied
  BY <1>2, Returning, Standing DEF AuthorizeDenied, Occupied, Await
<1>3. CASE AuthorizeFailed
  BY <1>3, Returning, Standing DEF AuthorizeFailed, Occupied, Await
<1>4. QED
  BY <1>1, <1>2, <1>3 DEF Authorization

(* A handler outside the queue only ever adds an operation.                *)
LEMMA Handled ==
  ASSUME bridge' \in Bridges, Grows(bridge, bridge'), pc' = pc
  PROVE  Keeps
BY DEF Keeps

LEMMA UserEffect == ASSUME TypeOK, User PROVE Keeps
<1> bridge \in Bridges /\ target \in Snapshots /\ room \in MaybeMode
  BY TypeParts DEF Surroundings
<1>1. CASE UserPlay
  <2>1. bridge' = LocalPlay(bridge, target, FALSE) /\ pc' = pc
    BY <1>1 DEF UserPlay
  <2>2. QED
    BY <2>1, Handled, LocalPlayType, LocalPlayGrows
<1>2. CASE UserPause
  BY <1>2, Handled, LocalCommandType, LocalCommandGrows DEF UserPause
<1>3. CASE UserSeek
  BY <1>3, Handled, LocalCommandType, LocalCommandGrows DEF UserSeek
<1>4. CASE Dispose
  <2> DEFINE c == [bridge EXCEPT !.recovery = NoRecovery]
             n == NextIntent(c)
             gen == n.gen + 1
  <2>1. c \in Bridges /\ c.intent = bridge.intent /\ c.queue = bridge.queue
        /\ bridge.intent \in Nat
    BY NoRecoveryType DEF Bridges
  <2> HIDE DEF c
  <2>2. n \in Bridges /\ n.intent = bridge.intent + 1 /\ n.queue = bridge.queue
    BY <2>1, NextIntentType, NextIntentGrows
  <2> HIDE DEF n
  <2>3. gen \in Nat
    BY <2>2 DEF Bridges
  <2>4. bridge' = [n EXCEPT !.disposed = TRUE, !.gen = gen] /\ pc' = pc
    BY <1>4 DEF Dispose, n, c
  <2> HIDE DEF gen
  <2>5. bridge' \in Bridges /\ bridge'.intent = n.intent /\ bridge'.queue = n.queue
    BY <2>2, <2>3, <2>4 DEF Bridges
  <2>6. QED
    BY <2>1, <2>2, <2>4, <2>5 DEF Keeps, Grows
<1>5. CASE \E source \in Sources : UserLoads(source)
  <2>1. bridge' = BeginSourceLoad(bridge) /\ pc' = pc /\ bridge.intent \in Nat
    BY <1>5 DEF UserLoads, Bridges
  <2>2. QED
    BY <2>1, BeginSourceLoadType, BeginSourceLoadGrows DEF Keeps, Grows
<1>6. CASE UserLoadDone
  <2>1. target' \in Snapshots /\ pc' = pc
    BY <1>6 DEF UserLoadDone, Snapshots
  <2>2. bridge' = bridge \/ bridge' = MarkSourceOpen(bridge, target')
    BY <1>6 DEF UserLoadDone
  <2>3. QED
    BY <2>1, <2>2, Handled, Unchanged, MarkSourceOpenType, MarkSourceOpenGrows
<1>7. CASE UserLoadFails
  BY <1>7, Handled, Unchanged DEF UserLoadFails
<1>8. QED
  BY <1>1, <1>2, <1>3, <1>4, <1>5, <1>6, <1>7 DEF User

LEMMA RoomStateEffect ==
  ASSUME TypeOK, NEW mode \in Modes, NEW follow \in BOOLEAN, RoomState(mode, follow)
  PROVE  Keeps
<1> bridge \in Bridges /\ target \in Snapshots
  BY TypeParts DEF Surroundings
<1> DEFINE seen == IF /\ ~bridge.disposed /\ bridge.connected
                      /\ bridge.recovery # NoRecovery /\ mode = "paused"
                   THEN [bridge EXCEPT !.recovery.observedPause = TRUE,
                                       !.recovery.pendingPlay = FALSE]
                   ELSE bridge
           heard == [seen EXCEPT !.told = mode]
           told == IF follow THEN OnPeer(heard, target, mode) ELSE seen
<1>1. seen \in Bridges /\ seen.intent = bridge.intent /\ seen.queue = bridge.queue
      /\ bridge.intent \in Nat
  <2> DEFINE rec == [bridge.recovery EXCEPT !.observedPause = TRUE,
                                            !.pendingPlay = FALSE]
             r == [bridge EXCEPT !.recovery = rec]
  <2>1. rec \in Recoveries
    BY DEF Bridges, Recoveries
  <2>2. r \in Bridges /\ r.intent = bridge.intent /\ r.queue = bridge.queue
    <3> HIDE DEF rec
    <3> QED BY <2>1 DEF Bridges
  <2>3. seen \in {bridge, r}
    BY DEF Bridges
  <2> HIDE DEF r
  <2>4. QED
    <3> HIDE DEF seen
    <3> QED BY <2>2, <2>3 DEF Bridges
<1>2. bridge' = [told EXCEPT !.pending = FALSE] /\ pc' = pc
  BY DEF RoomState
<1> HIDE DEF seen
<1>3. heard \in Bridges /\ heard.intent = bridge.intent /\ heard.queue = bridge.queue
  BY <1>1 DEF Bridges
<1> HIDE DEF heard
<1>4. told \in Bridges /\ Grows(bridge, told)
  <2>1. OnPeer(heard, target, mode) \in Bridges
        /\ Grows(heard, OnPeer(heard, target, mode))
    BY <1>3, OnPeerType, OnPeerGrows
  <2>2. CASE follow
    <3>1. told = OnPeer(heard, target, mode)
      BY <2>2
    <3> HIDE DEF told
    <3>2. QED
      BY <1>3, <2>1, <3>1 DEF Grows
  <2>3. CASE ~follow
    <3>1. told = seen
      BY <2>3
    <3> HIDE DEF told
    <3>2. QED
      BY <1>1, <3>1 DEF Grows
  <2>4. QED
    BY <2>2, <2>3
<1> HIDE DEF told
<1>5. bridge' \in Bridges /\ bridge'.intent = told.intent /\ bridge'.queue = told.queue
  BY <1>2, <1>4 DEF Bridges
<1>6. QED
  BY <1>2, <1>4, <1>5 DEF Keeps, Grows

(* An outage touches the recovery record, never the queue.                 *)
LEMMA OutageType ==
  ASSUME NEW s \in Bridges, NEW t \in Snapshots
  PROVE  /\ Outage(s, t) \in Bridges
         /\ Outage(s, t).intent = s.intent /\ Outage(s, t).queue = s.queue
<1> DEFINE fresh == [NoRecovery EXCEPT !.source = s.confirmed, !.gen = s.gen]
           a == [s EXCEPT !.recovery = fresh]
           b == [s EXCEPT !.recovery.attempted = FALSE, !.recovery.reconnected = "no",
                   !.recovery.observedPause = FALSE,
                   !.recovery.pendingPlay = FALSE]
           c == [s EXCEPT !.recovery.observedPause = FALSE,
                   !.recovery.pendingPlay = FALSE]
<1>1. fresh \in Recoveries
  BY DEF Bridges, NoRecovery, Recoveries
<1>2. a \in Bridges /\ a.intent = s.intent /\ a.queue = s.queue
  <2> HIDE DEF fresh
  <2> QED BY <1>1 DEF Bridges
<1>3. b \in Bridges /\ b.intent = s.intent /\ b.queue = s.queue
  BY DEF Bridges, Recoveries
<1>4. c \in Bridges /\ c.intent = s.intent /\ c.queue = s.queue
  BY DEF Bridges, Recoveries
<1>5. PICK r \in {a, b, c, s} : Outage(s, t) = [r EXCEPT !.connected = FALSE]
  BY DEF Outage
<1> HIDE DEF a, b, c
<1>6. r \in Bridges /\ r.intent = s.intent /\ r.queue = s.queue
  BY <1>2, <1>3, <1>4
<1>7. QED
  BY <1>5, <1>6 DEF Bridges

(* Composing changes: some that leave the queue alone, then a handler.     *)
LEMMA GrowsQuietly ==
  ASSUME NEW s \in Bridges, NEW r \in Bridges, r.intent >= s.intent,
         r.queue = s.queue
  PROVE  Grows(s, r)
BY DEF Grows

LEMMA GrowsThrough ==
  ASSUME NEW s \in Bridges, NEW o \in Bridges, NEW r \in Bridges,
         o.intent >= s.intent, o.queue = s.queue, Grows(o, r)
  PROVE  Grows(s, r)
<1>1. s.intent \in Nat /\ o.intent \in Nat /\ r.intent \in Nat
  BY DEF Bridges
<1>2. QED
  BY <1>1 DEF Grows

LEMMA SameIntent ==
  ASSUME NEW s \in Bridges, NEW o, o.intent = s.intent
  PROVE  o.intent >= s.intent
BY DEF Bridges

LEMMA RecoverySettledType ==
  ASSUME NEW s \in Bridges
  PROVE  /\ RecoverySettled(s) \in Bridges
         /\ RecoverySettled(s).intent = s.intent
         /\ RecoverySettled(s).queue = s.queue
BY DEF RecoverySettled, Bridges, Recoveries

LEMMA RoomEffect == ASSUME TypeOK, Room PROVE Keeps
<1> bridge \in Bridges /\ target \in Snapshots
  BY TypeParts DEF Surroundings
<1>1. CASE \E mode \in Modes, follow \in BOOLEAN : RoomState(mode, follow)
  BY <1>1, RoomStateEffect
<1>2. CASE ConnectionLost
  <2> DEFINE o == Outage(bridge, target)
             down == [bridge EXCEPT !.connected = FALSE]
  <2>1. o \in Bridges /\ o.intent = bridge.intent /\ o.queue = bridge.queue
    BY OutageType
  <2>2. down \in Bridges /\ down.intent = bridge.intent /\ down.queue = bridge.queue
    BY DEF Bridges
  <2>3. pc' = pc /\ bridge' \in {down, LocalCommand(o, target, "pause")}
    BY <1>2 DEF ConnectionLost
  <2> HIDE DEF o, down
  <2>4. /\ LocalCommand(o, target, "pause") \in Bridges
        /\ Grows(o, LocalCommand(o, target, "pause"))
    BY <2>1, LocalCommandType, LocalCommandGrows
  <2>5. Grows(bridge, down) /\ Grows(bridge, LocalCommand(o, target, "pause"))
    BY <2>1, <2>2, <2>4, GrowsQuietly, GrowsThrough, SameIntent
  <2>6. QED
    BY <2>2, <2>3, <2>4, <2>5, Handled
<1>3. CASE LoggedIn
  BY <1>3, Handled, Unchanged DEF LoggedIn
<1>4. CASE ConnectionRestored
  <2> DEFINE seen == IF bridge.recovery # NoRecovery /\ bridge.recovery.reconnected = "no"
                     THEN "yes" ELSE bridge.recovery.reconnected
             rec == [bridge.recovery EXCEPT !.reconnected = seen]
             up == [bridge EXCEPT !.connected = TRUE, !.recovery = rec]
             on == [bridge EXCEPT !.connected = TRUE]
  <2>1. rec \in Recoveries
    BY DEF Bridges, Recoveries
  <2>2. /\ up \in Bridges /\ up.intent = bridge.intent /\ up.queue = bridge.queue
        /\ on \in Bridges /\ on.intent = bridge.intent /\ on.queue = bridge.queue
    <3> HIDE DEF rec
    <3> QED BY <2>1 DEF Bridges
  <2>3. pc' = pc /\ bridge' \in {on, RecoverNetworkSource(up, target)}
    BY <1>4 DEF ConnectionRestored, Bridges
  <2> HIDE DEF up, on
  <2>4. /\ RecoverNetworkSource(up, target) \in Bridges
        /\ Grows(up, RecoverNetworkSource(up, target))
    BY <2>2, RecoverType, RecoverGrows
  <2>5. Grows(bridge, on) /\ Grows(bridge, RecoverNetworkSource(up, target))
    BY <2>2, <2>4, GrowsQuietly, GrowsThrough, SameIntent
  <2>6. QED
    BY <2>2, <2>3, <2>4, <2>5, Handled
<1>5. CASE RecoveryWindowEnds
  <2>1. pc' = pc /\ bridge' = [bridge EXCEPT !.recovery.reconnected = "expired"]
    BY <1>5 DEF RecoveryWindowEnds
  <2>2. bridge' \in Bridges /\ bridge'.intent = bridge.intent
        /\ bridge'.queue = bridge.queue
    BY <2>1 DEF Bridges, Recoveries
  <2>3. QED
    BY <2>1, <2>2 DEF Keeps, Grows, Bridges
<1>6. QED
  BY <1>1, <1>2, <1>3, <1>4, <1>5 DEF Room

LEMMA DecoderEffect == ASSUME TypeOK, Decoder PROVE Keeps
<1> bridge \in Bridges /\ target \in Snapshots
  BY TypeParts DEF Surroundings
<1>1. CASE NativeEffect \/ NativePlayingChanges \/ NativeFails
           \/ TransientLoss \/ TransientReturn
  BY <1>1, Handled, Unchanged DEF NativeEffect, NativePlayingChanges, NativeFails,
     NativeChange, TransientLoss, TransientReturn
<1>2. CASE PlayerEvent
  <2>1. PICK near \in BOOLEAN : bridge' = OnPlayer(bridge, target, near)
    BY <1>2 DEF PlayerEvent
  <2>2. pc' = pc
    BY <1>2 DEF PlayerEvent
  <2>3. QED
    BY <2>1, <2>2, Handled, OnPlayerType, OnPlayerGrows
<1>3. CASE FocusInterruption
  <2> DEFINE i == NextIntent(bridge)
             n == [i EXCEPT !.expected = "none", !.localPlay = 0]
             changed == bridge.published = "playing" /\ bridge.connected
             told == Publish(n, target, "paused", changed)
  <2>1. i \in Bridges /\ i.intent = bridge.intent + 1 /\ i.queue = bridge.queue
        /\ bridge.intent \in Nat
    BY NextIntentType, NextIntentGrows DEF Bridges
  <2>2. pc' = pc /\ bridge' \in {bridge, ReassertPause(told, TRUE)}
    BY <1>3 DEF FocusInterruption
  <2> HIDE DEF i
  <2>3. n \in Bridges /\ n.intent = i.intent /\ n.queue = i.queue
    BY <2>1, ModeTypes DEF Bridges
  <2>4. changed \in BOOLEAN
    BY DEF Bridges
  <2> HIDE DEF n, changed
  <2>5. told \in Bridges /\ told.intent = n.intent /\ told.queue = n.queue
    BY <2>3, <2>4, PublishType, PublishGrows, ModeTypes
  <2> HIDE DEF told
  <2>6. /\ ReassertPause(told, TRUE) \in Bridges
        /\ Grows(told, ReassertPause(told, TRUE))
    BY <2>5, ReassertPauseType, ReassertPauseGrows
  <2>7. Grows(bridge, ReassertPause(told, TRUE))
    <3>1. told.intent >= bridge.intent /\ told.queue = bridge.queue
      BY <2>1, <2>3, <2>5
    <3>2. QED
      BY <2>5, <2>6, <3>1, GrowsThrough
  <2>8. QED
    BY <2>2, <2>6, <2>7, Handled, Unchanged
<1>4. CASE EchoWindowEnds
  <2>1. pc' = pc /\ bridge' = [bridge EXCEPT !.fresh = FALSE]
    BY <1>4 DEF EchoWindowEnds
  <2>2. /\ bridge' \in Bridges /\ bridge'.intent = bridge.intent
        /\ bridge'.queue = bridge.queue
    BY <2>1 DEF Bridges
  <2>3. QED
    BY <2>1, <2>2, Handled, GrowsQuietly, SameIntent
<1>5. CASE DeferredPauseFires
  <2> DEFINE s == [bridge EXCEPT !.deferred = NoKey]
             e == [s EXCEPT !.expected = "none"]
  <2>1. s \in Bridges /\ s.intent = bridge.intent /\ s.queue = bridge.queue
        /\ bridge.intent \in Nat
    BY NoRecoveryType DEF Bridges
  <2>2. pc' = pc /\ bridge' \in {s, OnPlayer(e, target, FALSE)}
    BY <1>5 DEF DeferredPauseFires
  <2> HIDE DEF s
  <2>3. e \in Bridges /\ e.intent = s.intent /\ e.queue = s.queue
    BY <2>1, Expecting
  <2> HIDE DEF e
  <2>4. OnPlayer(e, target, FALSE) \in Bridges /\ Grows(e, OnPlayer(e, target, FALSE))
    BY <2>3, OnPlayerType, OnPlayerGrows
  <2>5. Grows(bridge, s) /\ Grows(bridge, OnPlayer(e, target, FALSE))
    <3>1. e.intent >= bridge.intent /\ e.queue = bridge.queue
      BY <2>1, <2>3
    <3>2. QED
      BY <2>1, <2>3, <2>4, <3>1, GrowsQuietly, GrowsThrough, SameIntent
  <2>6. QED
    BY <2>1, <2>2, <2>4, <2>5, Handled
<1>6. CASE BufferTimerFires
  <2> DEFINE s == [bridge EXCEPT !.buffering = FALSE, !.bufferTimer = FALSE]
  <2>1. s \in Bridges /\ s.intent = bridge.intent /\ s.queue = bridge.queue
        /\ bridge.intent \in Nat
    BY DEF Bridges
  <2>2. PICK near \in BOOLEAN : bridge' = OnPlayer(s, target, near)
    BY <1>6 DEF BufferTimerFires
  <2>3. pc' = pc
    BY <1>6 DEF BufferTimerFires
  <2> HIDE DEF s
  <2>4. OnPlayer(s, target, near) \in Bridges /\ Grows(s, OnPlayer(s, target, near))
    BY <2>1, OnPlayerType, OnPlayerGrows
  <2>5. Grows(bridge, OnPlayer(s, target, near))
    BY <2>1, <2>4 DEF Grows
  <2>6. QED
    BY <2>2, <2>3, <2>4, <2>5, Handled
<1>7. QED
  BY <1>1, <1>2, <1>3, <1>4, <1>5, <1>6 DEF Decoder

LEMMA FaultsEffect == ASSUME TypeOK, Faults PROVE Keeps \/ Ends
<1> bridge \in Bridges /\ target \in Snapshots /\ Occupied
  BY TypeParts DEF Surroundings
<1>1. CASE RecoveryFailed
  <2> DEFINE s == RecoverySettled(bridge)
             r == RecoverNetworkSource(s, target')
  <2>1. s \in Bridges /\ s.intent = bridge.intent /\ s.queue = bridge.queue
        /\ bridge.intent \in Nat
    BY RecoverySettledType DEF Bridges
  <2>2. target' \in Snapshots
    BY <1>1 DEF RecoveryFailed, Snapshots
  <2>3. pc' = "idle" /\ bridge.queue # <<>>
        /\ (bridge' = Finish(bridge) \/ bridge' = Finish(r))
    BY <1>1 DEF RecoveryFailed, Occupied
  <2> HIDE DEF s
  <2>4. r \in Bridges /\ Grows(s, r)
    BY <2>1, <2>2, RecoverType, RecoverGrows
  <2> HIDE DEF r
  <2>5. Grows(bridge, r)
    BY <2>1, <2>4 DEF Grows
  <2>6. QED
    BY <2>3, <2>4, <2>5, Unchanged DEF Ends
<1>2. CASE \E late \in BOOLEAN : CommandFails(late)
  <2>1. /\ bridge.queue # <<>>
        /\ \/ bridge' = bridge
           \/ pc' = "idle" /\ bridge' = Finish(bridge)
           \/ pc' = "idle" /\ bridge' = Finish(ReportError(bridge))
    BY <1>2 DEF CommandFails, Occupied
  <2>2. ReportError(bridge) \in Bridges /\ Grows(bridge, ReportError(bridge))
    BY Reporting DEF Grows, Bridges
  <2>3. QED
    BY <2>1, <2>2, Standing, Unchanged DEF Ends
<1>3. QED
  BY <1>1, <1>2 DEF Faults

(* Whatever happens, the head of the queue stays or ends.                  *)
LEMMA StepEffect == ASSUME TypeOK, Next PROVE Keeps \/ Ends
BY QueueEffect, AuthorizationEffect, UserEffect, RoomEffect, DecoderEffect,
   FaultsEffect DEF Next
(* Hence the bridge keeps its type, and an await its operation.            *)
LEMMA GrowsOccupied ==
  ASSUME TypeOK, Keeps \/ Ends
  PROVE  bridge' \in Bridges /\ Occupied'
<1> bridge \in Bridges /\ Occupied
  BY TypeParts
<1>1. CASE Keeps
  <2>1. bridge.queue # <<>> => bridge'.queue # <<>>
    BY <1>1, GrowsNonempty DEF Keeps
  <2>2. QED
    BY <1>1, <2>1 DEF Keeps, Occupied
<1>2. CASE Ends
  <2>1. PICK r \in Bridges : Grows(bridge, r) /\ bridge' = Finish(r)
    BY <1>2 DEF Ends
  <2>2. r.queue # <<>>
    BY <1>2, <2>1, GrowsNonempty DEF Ends
  <2>3. QED
    BY <1>2, <2>1, <2>2, FinishType DEF Ends, Occupied
<1>3. QED
  BY <1>1, <1>2

LEMMA SpendType ==
  ASSUME spent \in 0..MaxStimuli, NEW name, Spend(name)
  PROVE  spent' \in 0..MaxStimuli
BY BridgeAssumption DEF Spend

(* The command list: one more command, one fewer, or none.                 *)
LEMMA NativeType ==
  ASSUME native \in Seq(Commands)
  PROVE  /\ \A c \in Commands : Append(native, c) \in Seq(Commands)
         /\ native # <<>> => Tail(native) \in Seq(Commands)
         /\ <<>> \in Seq(Commands)
         /\ native # <<>> => SubSeq(native, 1, Len(native) - 1) \in Seq(Commands)
<1>1. native # <<>> => SubSeq(native, 1, Len(native) - 1) \in Seq(Commands)
  OBVIOUS
<1>2. QED
  BY <1>1

(* A queue step as the rest of the state sees it.                          *)
LEMMA QueueSurroundings ==
  ASSUME TypeOK, QueueStep
  PROVE  Surroundings'
<1> bridge \in Bridges /\ Surroundings /\ Occupied
  BY TypeParts
<1> USE DEF Surroundings
<1>1. "play" \in Commands /\ "pause" \in Commands /\ "seek" \in Commands
  BY DEF Commands
<1>2. CASE StartStale
  BY <1>2 DEF StartStale, Return, OutsideQueue, Places
<1>3. CASE StartPeer
  BY <1>1, <1>3, NativeType DEF StartPeer, Await, OutsideQueue, Places
<1>4. CASE StartPlay
  BY <1>1, <1>4, NativeType DEF StartPlay, Await, OutsideQueue, Places
<1>5. CASE StartLocalCommand
  BY <1>1, <1>5, NativeType DEF StartLocalCommand, Await, OutsideQueue, Places
<1>6. CASE StartReassert
  BY <1>1, <1>6, NativeType DEF StartReassert, Await, OutsideQueue, Places
<1>7. CASE StartRecover
  <2> DEFINE more == ghost.reloads + 1
  <2>1. more \in Nat
    BY DEF Histories
  <2>2. ghost' = [ghost EXCEPT !.reloads = more]
    BY <1>7 DEF StartRecover
  <2> HIDE DEF more
  <2>3. ghost' \in Histories
    BY <2>1, <2>2 DEF Histories
  <2>4. target' \in Snapshots
    BY <1>7 DEF StartRecover, Snapshots
  <2>5. QED
    BY <1>7, <2>3, <2>4, NativeType DEF StartRecover, Places
<1>8. CASE AuthorizeSuperseded
  BY <1>8 DEF AuthorizeSuperseded, Return, OutsideQueue, Places
<1>9. CASE PeerPaused
  BY <1>1, <1>9, NativeType DEF PeerPaused, Await, Return, OutsideQueue, Places
<1>10. CASE PeerSought
  BY <1>1, <1>10, NativeType DEF PeerSought, Await, Return, OutsideQueue, Places
<1>11. CASE Played
  BY <1>11 DEF Played, Return, OutsideQueue, Places
<1>12. CASE ExternalPlayHeld
  BY <1>12 DEF ExternalPlayHeld, Return, OutsideQueue, Places
<1>13. CASE PlaybackDenied
  BY <1>13 DEF PlaybackDenied, Return, OutsideQueue, Places
<1>14. CASE LocalCommandDone
  BY <1>14 DEF LocalCommandDone, Return, OutsideQueue, Places
<1>15. CASE ReassertDone
  BY <1>15 DEF ReassertDone, Return, OutsideQueue, Places
<1>16. CASE ErrorPaused
  BY <1>16 DEF ErrorPaused, Return, OutsideQueue, Places
<1>17. CASE RecoveryLoaded
  BY <1>17 DEF RecoveryLoaded, Snapshots, Places
<1>18. CASE RecoverySuperseded
  BY <1>18 DEF RecoverySuperseded, Return, OutsideQueue, Places
<1>19. QED
  BY <1>2, <1>3, <1>4, <1>5, <1>6, <1>7, <1>8, <1>9, <1>10, <1>11, <1>12, <1>13,
     <1>14, <1>15, <1>16, <1>17, <1>18 DEF QueueStep

LEMMA AuthorizationSurroundings ==
  ASSUME TypeOK, Authorization
  PROVE  Surroundings'
<1> bridge \in Bridges /\ Surroundings /\ bridge.intent \in Nat
  BY TypeParts DEF Bridges
<1> USE DEF Surroundings
<1>1. "play" \in Commands /\ "pause" \in Commands
  BY DEF Commands
<1>2. CASE AuthorizeGranted
  BY <1>1, <1>2, NativeType
  DEF AuthorizeGranted, Return, OutsideQueue, Places, Histories
<1>3. CASE AuthorizeDenied
  BY <1>1, <1>3, NativeType DEF AuthorizeDenied, Await, Return, OutsideQueue, Places
<1>4. CASE AuthorizeFailed
  BY <1>1, <1>4, NativeType DEF AuthorizeFailed, Await, Return, OutsideQueue, Places
<1>5. QED
  BY <1>2, <1>3, <1>4 DEF Authorization

LEMMA UserSurroundings ==
  ASSUME TypeOK, User
  PROVE  Surroundings'
<1> bridge \in Bridges /\ Surroundings
  BY TypeParts
<1> USE DEF Surroundings
<1>1. CASE UserPlay \/ UserPause \/ UserSeek \/ Dispose
  BY <1>1, SpendType DEF UserPlay, UserPause, UserSeek, Dispose, Histories
<1>2. CASE \E source \in Sources : UserLoads(source)
  <2>1. target' \in Snapshots
    BY <1>2 DEF UserLoads, Snapshots
  <2>3. ghost' \in Histories
    BY <1>2 DEF UserLoads, Histories
  <2>2. QED
    BY <1>2, <2>1, <2>3, SpendType, NativeType DEF UserLoads
<1>3. CASE UserLoadDone
  BY <1>3 DEF UserLoadDone, Histories, Snapshots
<1>4. CASE UserLoadFails
  BY <1>4, SpendType DEF UserLoadFails, Snapshots
<1>5. QED
  BY <1>1, <1>2, <1>3, <1>4 DEF User

LEMMA RoomSurroundings ==
  ASSUME TypeOK, Room
  PROVE  Surroundings'
<1> bridge \in Bridges /\ Surroundings
  BY TypeParts
<1> USE DEF Surroundings
<1>1. CASE \E mode \in Modes, follow \in BOOLEAN : RoomState(mode, follow)
  <2>1. PICK mode \in Modes, follow \in BOOLEAN : RoomState(mode, follow)
    BY <1>1
  <2> DEFINE agreed == ghost.consent \/ (bridge.connected /\ mode = "paused")
             want == IF follow THEN "no" ELSE ghost.want
  <2>2. agreed \in BOOLEAN /\ want \in {"no", "paused", "sought", "silent"}
    BY DEF Histories
  <2>3. ghost' = [ghost EXCEPT !.consent = agreed, !.want = want]
    BY <2>1 DEF RoomState
  <2> HIDE DEF agreed, want
  <2>4. ghost' \in Histories
    BY <2>2, <2>3 DEF Histories
  <2>5. QED
    BY <2>1, <2>4, SpendType, ModeTypes DEF RoomState
<1>2. CASE ConnectionLost
  <2> DEFINE more == ghost.outages + 1
             want == IF HasSource(bridge, target) THEN "paused" ELSE "no"
  <2>1. more \in Nat /\ want \in {"no", "paused", "sought", "silent"}
    BY DEF Histories
  <2>2. ghost' = [ghost EXCEPT !.consent = FALSE, !.outages = more, !.want = want]
    BY <1>2 DEF ConnectionLost
  <2> HIDE DEF more, want
  <2>3. ghost' \in Histories
    BY <2>1, <2>2 DEF Histories
  <2>4. QED
    BY <1>2, <2>3, SpendType DEF ConnectionLost
<1>3. CASE LoggedIn
  BY <1>3 DEF LoggedIn
<1>4. CASE ConnectionRestored
  BY <1>4 DEF ConnectionRestored
<1>5. CASE RecoveryWindowEnds
  BY <1>5 DEF RecoveryWindowEnds
<1>6. QED
  BY <1>1, <1>2, <1>3, <1>4, <1>5 DEF Room

LEMMA DecoderSurroundings ==
  ASSUME TypeOK, Decoder
  PROVE  Surroundings'
<1> bridge \in Bridges /\ Surroundings /\ bridge.intent \in Nat
  BY TypeParts DEF Bridges
<1> USE DEF Surroundings
<1>1. CASE NativeEffect
  <2>1. Head(native) \in Commands /\ Tail(native) \in Seq(Commands)
    BY <1>1 DEF NativeEffect
  <2>2. QED
    BY <1>1, <2>1 DEF NativeEffect, Snapshots
<1>2. ASSUME NEW t \in Snapshots, NativeChange(t) PROVE Surroundings'
  BY <1>2, SpendType DEF NativeChange, Histories
<1>3. CASE NativePlayingChanges
  BY <1>2, <1>3 DEF NativePlayingChanges, Snapshots
<1>4. CASE NativeFails
  BY <1>2, <1>4 DEF NativeFails, Snapshots
<1>5. CASE TransientLoss
  BY <1>2, <1>5 DEF TransientLoss, Snapshots
<1>6. CASE TransientReturn
  BY <1>6 DEF TransientReturn, Snapshots
<1>7. CASE PlayerEvent
  BY <1>7 DEF PlayerEvent, Histories
<1>8. CASE FocusInterruption
  BY <1>8, SpendType DEF FocusInterruption, Histories, Snapshots
<1>9. CASE EchoWindowEnds \/ DeferredPauseFires
  BY <1>9 DEF EchoWindowEnds, DeferredPauseFires
<1>10. CASE BufferTimerFires
  BY <1>10 DEF BufferTimerFires, Histories
<1>11. QED
  BY <1>1, <1>3, <1>4, <1>5, <1>6, <1>7, <1>8, <1>9, <1>10 DEF Decoder

LEMMA FaultsSurroundings ==
  ASSUME TypeOK, Faults
  PROVE  Surroundings'
<1> bridge \in Bridges /\ Surroundings
  BY TypeParts
<1> USE DEF Surroundings
<1>1. CASE RecoveryFailed
  BY <1>1, SpendType DEF RecoveryFailed, Snapshots, Places
<1>2. ASSUME NEW late \in BOOLEAN, CommandFails(late) PROVE Surroundings'
  <2> DEFINE left == IF late \/ native = <<>> THEN native
                     ELSE SubSeq(native, 1, Len(native) - 1)
  <2>1. left \in Seq(Commands) /\ Append(left, "pause") \in Seq(Commands)
    BY NativeType DEF Commands
  <2>2. /\ native' \in {left, Append(left, "pause")}
        /\ pc' \in {"idle", "errorPause"}
    BY <1>2 DEF CommandFails
  <2> HIDE DEF left
  <2> DEFINE want == IF LastPauseFails(late) THEN "no" ELSE ghost.want
  <2>3. /\ target' = target /\ event' = event /\ loader' = loader
        /\ link' = link /\ room' = room /\ Spend("fault")
        /\ ghost' = [ghost EXCEPT !.want = want]
    BY <1>2 DEF CommandFails
  <2>4. want \in {"no", "paused", "sought", "silent"}
    BY DEF Histories
  <2> HIDE DEF want
  <2>5. QED
    BY <2>1, <2>2, <2>3, <2>4, SpendType DEF Histories, Places
<1>3. QED
  BY <1>1, <1>2 DEF Faults

LEMMA TypeStep == ASSUME TypeOK, Next PROVE TypeOK'
<1>1. Surroundings'
  BY QueueSurroundings, AuthorizationSurroundings, UserSurroundings,
     RoomSurroundings, DecoderSurroundings, FaultsSurroundings DEF Next
<1>2. bridge' \in Bridges /\ Occupied'
  BY StepEffect, GrowsOccupied
<1>3. (TypeOK <=> Surroundings /\ bridge \in Bridges /\ Occupied)'
  BY DEF TypeOK, Surroundings, Bridges, Occupied, Snapshots, Recoveries,
         Histories, Commands, Places
<1>4. QED
  BY <1>1, <1>2, <1>3

LEMMA TypeInit == Init => TypeOK
<1> SUFFICES ASSUME Init PROVE TypeOK
  OBVIOUS
<1>1. Surroundings
  <2>1. target \in Snapshots /\ ghost \in Histories
    BY DEF Init, Snapshots, Histories
  <2>2. native \in Seq(Commands) /\ room \in MaybeMode /\ pc \in Places
    BY ModeTypes DEF Init, Places
  <2>3. QED
    <3>1. event = FALSE /\ link = TRUE /\ spent = 0 /\ loader = "none"
      BY DEF Init
    <3>2. 0 \in 0..MaxStimuli
      BY BridgeAssumption
    <3>3. QED
      BY <2>1, <2>2, <3>1, <3>2 DEF Surroundings
<1>2. bridge \in Bridges
  BY NoRecoveryType DEF Init, Bridges, MaybeMode, Modes
<1>3. Occupied
  BY DEF Init, Occupied
<1>4. QED
  BY <1>1, <1>2, <1>3, TypeParts

LEMMA TypeStutter == TypeOK /\ UNCHANGED vars => TypeOK'
BY DEF TypeOK, vars

(* Every field of the bridge, its queue and its surroundings stays in its  *)
(* range, and an await always belongs to an operation at the head of the   *)
(* queue: the finally blocks never pop an empty _tail.                     *)
THEOREM TypeCorrect == Spec => []TypeOK
<1>1. TypeOK /\ [Next]_vars => TypeOK'
  BY TypeStep, TypeStutter
<1>2. QED
  BY TypeInit, <1>1, PTL DEF Spec
-----------------------------------------------------------------------------
(* No queued operation is newer than the bridge's current intent.          *)
Sorted == \A n \in DOMAIN bridge.queue : bridge.queue[n].intent <= bridge.intent

(* An operation on its way to play(), and still the newest one, has its    *)
(* own intent granted.                                                     *)
OnTheWay ==
  pc = "play" \/ (pc \in {"pause", "seek"} /\ Running.mode = "playing")

GrantHolds ==
  OnTheWay /\ Running.intent = bridge.intent => ghost.granted = bridge.intent

(* The strengthening of PlayIsAuthorized that every step preserves.        *)
GrantInv == TypeOK /\ Sorted /\ GrantHolds

(* Ending an operation, or adding one, keeps the queue no newer than the   *)
(* bridge's intent.                                                        *)
LEMMA FinishSorted ==
  ASSUME NEW s \in Bridges, s.queue # <<>>,
         \A n \in DOMAIN s.queue : s.queue[n].intent <= s.intent
  PROVE  \A n \in DOMAIN Finish(s).queue :
           Finish(s).queue[n].intent <= Finish(s).intent
<1>1. Finish(s).queue = Tail(s.queue) /\ Finish(s).intent = s.intent
  BY FinishType
<1>2. s.queue \in Seq(Operations)
  BY DEF Bridges
<1>3. \A n \in DOMAIN Tail(s.queue) : n + 1 \in DOMAIN s.queue
                                      /\ Tail(s.queue)[n] = s.queue[n + 1]
  BY <1>2
<1>4. QED
  BY <1>1, <1>3

LEMMA GrowsSorted ==
  ASSUME NEW s \in Bridges, NEW r \in Bridges, Grows(s, r),
         \A n \in DOMAIN s.queue : s.queue[n].intent <= s.intent
  PROVE  \A n \in DOMAIN r.queue : r.queue[n].intent <= r.intent
<1>1. s.queue \in Seq(Operations) /\ s.intent \in Nat /\ r.intent \in Nat
      /\ r.intent >= s.intent
  BY DEF Bridges, Grows
<1>2. \A n \in DOMAIN s.queue : s.queue[n] \in Operations
  BY <1>1
<1>3. \A n \in DOMAIN s.queue : s.queue[n].intent <= r.intent
  BY <1>1, <1>2 DEF Operations
<1>4. CASE r.queue = s.queue
  BY <1>3, <1>4
<1>5. ASSUME NEW op \in Operations, op.intent <= r.intent, r.queue = Append(s.queue, op)
      PROVE  \A n \in DOMAIN r.queue : r.queue[n].intent <= r.intent
  <2> SUFFICES ASSUME NEW n \in DOMAIN r.queue PROVE r.queue[n].intent <= r.intent
    OBVIOUS
  <2>1. (n \in DOMAIN s.queue /\ r.queue[n] = s.queue[n]) \/ r.queue[n] = op
    BY <1>1, <1>5
  <2>2. QED
    BY <1>3, <1>5, <2>1
<1>6. QED
  BY <1>4, <1>5 DEF Grows

LEMMA SortedStep ==
  ASSUME TypeOK, Sorted, Keeps \/ Ends
  PROVE  Sorted'
<1> bridge \in Bridges
  BY TypeParts
<1>1. CASE Keeps
  BY <1>1, GrowsSorted DEF Keeps, Sorted
<1>2. CASE Ends
  <2>1. PICK r \in Bridges : Grows(bridge, r) /\ bridge' = Finish(r)
    BY <1>2 DEF Ends
  <2>2. r.queue # <<>>
    BY <1>2, <2>1, GrowsNonempty DEF Ends
  <2>3. \A n \in DOMAIN r.queue : r.queue[n].intent <= r.intent
    BY <2>1, GrowsSorted DEF Sorted
  <2>4. QED
    BY <2>1, <2>2, <2>3, FinishSorted DEF Sorted
<1>3. QED
  BY <1>1, <1>2

(* A kept operation stays at the head, and is the newest one afterwards    *)
(* only if it was before and no intent replaced it.                        *)
LEMMA KeptHead ==
  ASSUME TypeOK, Sorted, Keeps, bridge.queue # <<>>
  PROVE  /\ Running' = Running
         /\ Running'.intent = bridge'.intent => bridge'.intent = bridge.intent
<1> bridge \in Bridges
  BY TypeParts
<1>1. bridge.queue \in Seq(Operations) /\ bridge.intent \in Nat
      /\ bridge'.intent \in Nat /\ bridge'.intent >= bridge.intent
  BY DEF Bridges, Keeps, Grows
<1>2. Running' = Running
  BY <1>1 DEF Keeps, Grows, Running
<1>3. Running.intent <= bridge.intent /\ Running.intent \in Nat
  <2>1. 1 \in DOMAIN bridge.queue /\ Running = bridge.queue[1]
    BY <1>1 DEF Running
  <2>2. QED
    BY <2>1, RunningType DEF Sorted, Operations
<1>4. QED
  BY <1>1, <1>2, <1>3

(* What a step that keeps the operation does on its way to play().         *)
Advances ==
  \/ ~OnTheWay'
  \/ ghost'.granted = bridge.intent
  \/ OnTheWay /\ ghost'.granted = ghost.granted

LEMMA GrantStep ==
  ASSUME TypeOK, Sorted, GrantHolds, Keeps, Advances, bridge.queue # <<>>
  PROVE  GrantHolds'
<1>1. CASE ~OnTheWay'
  BY <1>1 DEF GrantHolds
<1>2. CASE ghost'.granted = bridge.intent
  BY <1>2, KeptHead DEF GrantHolds
<1>3. CASE OnTheWay /\ ghost'.granted = ghost.granted
  BY <1>3, KeptHead DEF GrantHolds
<1>4. QED
  BY <1>1, <1>2, <1>3 DEF Advances
(* A handler outside the queue leaves the grant and the await alone.       *)
LEMMA GrantSteady ==
  ASSUME TypeOK, Sorted, GrantHolds, Keeps, pc' = pc,
         ghost'.granted = ghost.granted
  PROVE  GrantHolds'
<1>1. CASE bridge.queue = <<>>
  BY <1>1 DEF GrantHolds, OnTheWay, TypeOK
<1>2. CASE bridge.queue # <<>>
  BY <1>2, KeptHead DEF GrantHolds, OnTheWay
<1>3. QED
  BY <1>1, <1>2

LEMMA GrantEnds == ASSUME pc' \in {"idle", "auth", "externalPause", "command", "deny",
                                   "errorPause", "load"}
                   PROVE  GrantHolds'
BY DEF GrantHolds, OnTheWay

LEMMA GrantQueue ==
  ASSUME TypeOK, Sorted, GrantHolds, QueueStep
  PROVE  GrantHolds'
<1> Occupied
  BY TypeParts
<1>1. CASE pc' \in {"idle", "auth", "externalPause", "command", "deny",
                    "errorPause", "load"}
  BY <1>1, GrantEnds
<1>2. CASE pc' \in {"pause", "seek", "play"}
  <2>1. Keeps
    BY <1>2, QueueEffect DEF Ends
  <2>2. StartPeer \/ PeerPaused \/ PeerSought
    BY <1>2 DEF QueueStep, StartStale, StartPlay, StartLocalCommand, StartReassert,
       StartRecover, AuthorizeSuperseded, Played, ExternalPlayHeld, PlaybackDenied,
       LocalCommandDone, ReassertDone, ErrorPaused, RecoveryLoaded,
       RecoverySuperseded, Await, Return
  <2>3. bridge.queue # <<>>
    BY <2>2 DEF StartPeer, PeerPaused, PeerSought, Awaiting, Occupied
  <2>4. Running' = Running
    BY <2>1, <2>3, KeptHead
  <2>5. CASE StartPeer
    <3>1. Running.mode # "playing" /\ pc' = "pause"
      BY <1>2, <2>5 DEF StartPeer, Await
    <3>2. QED
      BY <2>1, <2>3, <2>4, <3>1, GrantStep DEF Advances, OnTheWay
  <2>6. CASE PeerPaused
    <3>1. pc = "pause" /\ pc' = "seek" /\ ghost' = ghost
      BY <1>2, <2>6 DEF PeerPaused, Await, Awaiting, Return
    <3>2. QED
      BY <2>1, <2>3, <2>4, <3>1, GrantStep DEF Advances, OnTheWay
  <2>7. CASE PeerSought
    <3>1. pc = "seek" /\ pc' = "play" /\ Running.mode = "playing" /\ ghost' = ghost
      BY <1>2, <2>7 DEF PeerSought, Await, Awaiting, Return
    <3>2. QED
      BY <2>1, <2>3, <2>4, <3>1, GrantStep DEF Advances, OnTheWay
  <2>8. QED
    BY <2>2, <2>5, <2>6, <2>7
<1>3. pc' \in Places
  BY QueueSurroundings DEF Surroundings
<1>4. QED
  BY <1>1, <1>2, <1>3 DEF Places

LEMMA GrantAuthorization ==
  ASSUME TypeOK, Sorted, GrantHolds, Authorization
  PROVE  GrantHolds'
<1> Occupied /\ ghost \in Histories /\ bridge.intent \in Nat
  BY TypeParts DEF Surroundings, Bridges
<1>1. CASE pc' \in {"idle", "auth", "externalPause", "command", "deny",
                    "errorPause", "load"}
  BY <1>1, GrantEnds
<1>2. CASE pc' \in {"pause", "seek", "play"}
  <2>1. Keeps
    BY <1>2, AuthorizationEffect DEF Ends
  <2>2. AuthorizeGranted
    BY <1>2 DEF Authorization, AuthorizeDenied, AuthorizeFailed, Await, Return
  <2>3. bridge.queue # <<>> /\ ghost' = [ghost EXCEPT !.granted = bridge.intent]
    BY <1>2, <2>2 DEF AuthorizeGranted, Occupied, Return
  <2>4. ghost'.granted = bridge.intent
    BY <2>3 DEF Histories
  <2>5. QED
    BY <2>1, <2>3, <2>4, GrantStep DEF Advances
<1>3. pc' \in Places
  BY AuthorizationSurroundings DEF Surroundings
<1>4. QED
  BY <1>1, <1>2, <1>3 DEF Places

LEMMA GrantHandlers ==
  ASSUME TypeOK, Sorted, GrantHolds, User \/ Room \/ Decoder
  PROVE  GrantHolds'
<1> ghost \in Histories
  BY TypeParts DEF Surroundings
<1>1. Keeps
  BY UserEffect, RoomEffect, DecoderEffect
<1>2. pc' = pc /\ ghost'.granted = ghost.granted
  <2>1. CASE User
    BY <2>1 DEF User, UserPlay, UserPause, UserSeek, Dispose, UserLoads,
       UserLoadDone, UserLoadFails, Histories
  <2>2. CASE Room
    BY <2>2 DEF Room, RoomState, ConnectionLost, LoggedIn, ConnectionRestored,
       RecoveryWindowEnds, Histories
  <2>3. CASE Decoder
    BY <2>3 DEF Decoder, NativeEffect, NativePlayingChanges, NativeFails,
       NativeChange, TransientLoss, TransientReturn, PlayerEvent,
       FocusInterruption, EchoWindowEnds, DeferredPauseFires, BufferTimerFires,
       Histories
  <2>4. QED
    BY <2>1, <2>2, <2>3
<1>3. QED
  BY <1>1, <1>2, GrantSteady

LEMMA GrantFaults ==
  ASSUME TypeOK, Sorted, GrantHolds, Faults
  PROVE  GrantHolds'
<1>1. CASE RecoveryFailed
  BY <1>1, GrantEnds DEF RecoveryFailed
<1>2. CASE \E late \in BOOLEAN : CommandFails(late)
  <2>1. pc' \in {"idle", "errorPause"}
    BY <1>2 DEF CommandFails
  <2>2. QED
    BY <2>1, GrantEnds
<1>3. QED
  BY <1>1, <1>2 DEF Faults

LEMMA GrantInvStep == ASSUME GrantInv, Next PROVE GrantInv'
<1> USE DEF GrantInv
<1>1. TypeOK'
  BY TypeStep
<1>2. Sorted'
  BY StepEffect, SortedStep
<1>3. QueueStep \/ Authorization => GrantHolds'
  BY GrantQueue, GrantAuthorization
<1>5. User \/ Room \/ Decoder => GrantHolds'
  BY GrantHandlers
<1>6. Faults => GrantHolds'
  BY GrantFaults
<1>7. GrantHolds'
  BY <1>3, <1>5, <1>6 DEF Next
<1>8. QED
  BY <1>1, <1>2, <1>7

(* On every step, an operation on its way to play() that is still the      *)
(* newest one is the operation whose intent was granted.                   *)
THEOREM GrantStands == Spec => []GrantInv
<1>1. Init => GrantInv
  BY TypeInit DEF Init, GrantInv, Sorted, GrantHolds, OnTheWay
<1>2. GrantInv /\ [Next]_vars => GrantInv'
  <2>1. GrantInv /\ UNCHANGED vars => GrantInv'
    BY TypeStutter DEF GrantInv, Sorted, GrantHolds, OnTheWay, Running, vars
  <2>2. QED
    BY <2>1, GrantInvStep
<1>3. QED
  BY <1>1, <1>2, PTL DEF Spec

(* Only the answer that grants a play of the user's own and the end of a   *)
(* room Play's seek hand play() to the decoder.                            *)
LEMMA PlayComesFrom ==
  ASSUME TypeOK, Next, IssuesPlay
  PROVE  \/ AuthorizeGranted /\ RunningIsCurrent
         \/ PeerSought /\ RunningIsCurrent /\ Running.mode = "playing"
<1> native \in Seq(Commands)
  BY TypeParts DEF Surroundings
<1>1. /\ native' # native /\ native' # <<>> /\ native' # Append(native, "pause")
      /\ native' # Append(native, "seek")
      /\ native # <<>> => native' # Tail(native)
  BY DEF IssuesPlay
<1>2. CASE QueueStep
  <2>1. PeerSought
    BY <1>1, <1>2 DEF QueueStep, StartStale, StartPeer, StartPlay,
       StartLocalCommand, StartReassert, StartRecover, AuthorizeSuperseded,
       PeerPaused, Played, ExternalPlayHeld, PlaybackDenied, LocalCommandDone,
       ReassertDone, ErrorPaused, RecoveryLoaded, RecoverySuperseded, Await, Return,
       OutsideQueue
  <2>2. QED
    BY <1>1, <2>1 DEF PeerSought, Await, Return
<1>3. CASE Authorization
  BY <1>1, <1>3 DEF Authorization, AuthorizeGranted, AuthorizeDenied,
     AuthorizeFailed, Await, Return
<1>4. CASE User
  BY <1>1, <1>4 DEF User, UserPlay, UserPause, UserSeek, Dispose, UserLoads,
     UserLoadDone, UserLoadFails
<1>5. CASE Room
  BY <1>1, <1>5 DEF Room, RoomState, ConnectionLost, LoggedIn, ConnectionRestored,
     RecoveryWindowEnds
<1>6. CASE Decoder
  BY <1>1, <1>6 DEF Decoder, NativeEffect, NativePlayingChanges, NativeFails,
     NativeChange, TransientLoss, TransientReturn, PlayerEvent, FocusInterruption,
     EchoWindowEnds, DeferredPauseFires, BufferTimerFires
<1>7. CASE RecoveryFailed
  BY <1>1, <1>7 DEF RecoveryFailed
<1>8. CASE \E late \in BOOLEAN : CommandFails(late)
  <2> DEFINE fewer == SubSeq(native, 1, Len(native) - 1)
  <2>1. fewer \in Seq(Commands) /\ Len(fewer) <= Len(native)
    <3>1. CASE native = <<>>
      BY <3>1
    <3>2. CASE native # <<>>
      BY <3>2
    <3>3. QED
      BY <3>1, <3>2
  <2>2. native' \in {native, fewer, Append(native, "pause"), Append(fewer, "pause")}
    BY <1>8 DEF CommandFails
  <2> HIDE DEF fewer
  <2>3. QED
    BY <1>1, <2>1, <2>2 DEF IssuesPlay, Commands
<1>9. QED
  BY <1>2, <1>3, <1>4, <1>5, <1>6, <1>7, <1>8 DEF Next, Faults

(* Whatever happened while the operation waited for the allowance, for the *)
(* decoder's pause or for its seek, play() is called for the newest intent *)
(* only, and only once authorizePlayback granted that very intent.         *)
THEOREM PlayNeedsGrant == Spec => PlayIsAuthorized
<1>1. GrantInv /\ Next /\ IssuesPlay
        => RunningIsCurrent /\ ghost'.granted = bridge.intent
  <2> SUFFICES ASSUME GrantInv, Next, IssuesPlay
               PROVE  RunningIsCurrent /\ ghost'.granted = bridge.intent
    OBVIOUS
  <2> TypeOK /\ GrantHolds /\ ghost \in Histories
    BY TypeParts DEF GrantInv, Surroundings
  <2>1. CASE AuthorizeGranted /\ RunningIsCurrent
    BY <2>1 DEF AuthorizeGranted, Histories
  <2>2. CASE PeerSought /\ RunningIsCurrent /\ Running.mode = "playing"
    <3>1. Running.intent = bridge.intent /\ pc = "seek" /\ ghost' = ghost
      BY <2>2 DEF PeerSought, RunningIsCurrent, Current, Awaiting, Await
    <3>2. QED
      BY <2>2, <3>1 DEF GrantHolds, OnTheWay
  <2>3. QED
    BY <2>1, <2>2, PlayComesFrom
<1>2. GrantInv /\ [Next]_vars =>
        [IssuesPlay => RunningIsCurrent /\ ghost'.granted = bridge.intent]_vars
  BY <1>1
<1>3. QED
  BY GrantStands, <1>2, PTL DEF Spec, PlayIsAuthorized

-----------------------------------------------------------------------------
(* What the remaining properties tell apart in a change of the bridge.     *)

(* Operations that end in play() unless something stops them.              *)
Starts(op) == op.kind = "play" \/ (op.kind = "peer" /\ op.mode = "playing")

(* A recovery that may still reopen its source.                            *)
Armed(s) == s.recovery # NoRecovery /\ ~s.recovery.attempted

(* What the room was told last is what the bridge remembers having         *)
(* published, and there is such a thing whenever a source is open.         *)
Spoken(s) ==
  /\ s.disposed \/ s.published = "none" \/ s.told = s.published
  /\ s.confirmed # NoSource => s.published # "none"

(* Operation op joins the queue: a reload uses up the recovery and begins  *)
(* a new source; everything else is about the source that is open.         *)
Adds(s, r, op, asked) ==
  /\ r.queue = Append(s.queue, op)
  /\ op.intent = r.intent /\ op.gen = r.gen /\ ~r.disposed
  /\ op.kind = "recover" =>
       Armed(s) /\ ~Armed(r) /\ r.gen > s.gen /\ r.recovery # NoRecovery
  /\ op.kind # "recover" => r.confirmed # NoSource
  /\ Starts(op) => asked \/ s.recovery = NoRecovery \/ s.recovery.observedPause

(* A handler takes the bridge from s to r; asked says that the user, or a  *)
(* pause seen in the room, allows playing from here on.                    *)
Moves(s, r, asked) ==
  /\ r.gen >= s.gen /\ r.intent >= s.intent
  /\ s.disposed => r.disposed
  /\ r.gen = s.gen => r.confirmed = s.confirmed /\ r.disposed = s.disposed
  /\ r.gen # s.gen => r.confirmed = NoSource \/ r.disposed
  /\ Armed(r) => Armed(s)
  /\ r.recovery # NoRecovery =>
       s.recovery # NoRecovery /\ r.recovery.source = s.recovery.source
  /\ r.recovery = NoRecovery =>
       s.recovery = NoRecovery \/ r.gen # s.gen \/ (asked /\ s.confirmed # NoSource)
  /\ r.recovery.observedPause => s.recovery.observedPause \/ asked
  /\ Spoken(s) => Spoken(r)
  /\ r.queue = s.queue \/ \E op \in Operations : Adds(s, r, op, asked)

(* A change of this phone's own that it makes the room hear is a pause.    *)
Hushed(s, r) == r.pending => s.pending \/ r.told = "paused"

Handles(s, r, asked) == Moves(s, r, asked) /\ Hushed(s, r)

(* The fields these are about; intent and queue are named apart.           *)
Alike(s, r) ==
  /\ r.gen = s.gen /\ r.disposed = s.disposed /\ r.confirmed = s.confirmed
  /\ r.recovery = s.recovery /\ r.published = s.published /\ r.told = s.told
  /\ r.pending = s.pending

LEMMA AlikeHandles ==
  ASSUME NEW s \in Bridges, NEW r \in Bridges, Alike(s, r), r.queue = s.queue,
         r.intent >= s.intent, NEW asked \in BOOLEAN
  PROVE  Handles(s, r, asked)
BY DEF Alike, Handles, Moves, Hushed, Armed, Spoken, Bridges

LEMMA AlikeAdds ==
  ASSUME NEW s \in Bridges, NEW r \in Bridges, Alike(s, r),
         r.intent >= s.intent, NEW asked \in BOOLEAN, NEW op \in Operations,
         r.queue = Append(s.queue, op), op.intent = r.intent, op.gen = r.gen,
         ~s.disposed, s.confirmed # NoSource, op.kind # "recover",
         Starts(op) => asked \/ s.recovery = NoRecovery \/ s.recovery.observedPause
  PROVE  Handles(s, r, asked)
<1>1. Adds(s, r, op, asked)
  BY DEF Adds, Alike
<1>2. QED
  BY <1>1 DEF Alike, Handles, Moves, Hushed, Armed, Spoken, Bridges

(* Quiet changes before and after a handler do not matter.                 *)
LEMMA AlikeThen ==
  ASSUME NEW s \in Bridges, NEW o \in Bridges, NEW r \in Bridges,
         NEW asked \in BOOLEAN, Alike(s, o), o.queue = s.queue,
         o.intent >= s.intent, Handles(o, r, asked)
  PROVE  Handles(s, r, asked)
<1>1. s.intent \in Nat /\ o.intent \in Nat /\ r.intent \in Nat
  BY DEF Bridges
<1>2. \A op \in Operations : Adds(o, r, op, asked) => Adds(s, r, op, asked)
  BY DEF Adds, Alike, Armed
<1>3. Armed(o) = Armed(s) /\ Spoken(o) = Spoken(s)
  BY DEF Alike, Armed, Spoken
<1>4. r.queue = s.queue \/ \E op \in Operations : Adds(s, r, op, asked)
  BY <1>2 DEF Handles, Moves
<1>5. r.intent >= s.intent
  BY <1>1 DEF Handles, Moves
<1>6. QED
  BY <1>3, <1>4, <1>5 DEF Handles, Moves, Hushed, Alike

LEMMA AlikeChain ==
  ASSUME NEW s, NEW o, NEW r, Alike(s, o), Alike(o, r)
  PROVE  Alike(s, r)
BY DEF Alike

Quiet(s, o) ==
  o \in Bridges /\ Alike(s, o) /\ o.queue = s.queue /\ o.intent = s.intent

LEMMA QuietThen ==
  ASSUME NEW s \in Bridges, NEW o, Quiet(s, o), NEW r \in Bridges,
         NEW asked \in BOOLEAN, Handles(o, r, asked)
  PROVE  Handles(s, r, asked)
<1>1. o.intent >= s.intent
  BY DEF Quiet, Bridges
<1>2. QED
  BY <1>1, AlikeThen DEF Quiet

LEMMA QuietHandles ==
  ASSUME NEW s \in Bridges, NEW o, Quiet(s, o), NEW asked \in BOOLEAN
  PROVE  Handles(s, o, asked)
<1>1. o.intent >= s.intent
  BY DEF Quiet, Bridges
<1>2. QED
  BY <1>1, AlikeHandles DEF Quiet

LEMMA QuietChain ==
  ASSUME NEW s, NEW o, NEW r, Quiet(s, o), Quiet(o, r)
  PROVE  Quiet(s, r)
BY AlikeChain DEF Quiet

(* Recoveries alike in what a Move looks at.                               *)
SameRecovery(s, o) ==
  /\ o.recovery = NoRecovery <=> s.recovery = NoRecovery
  /\ o.recovery.attempted = s.recovery.attempted
  /\ o.recovery.source = s.recovery.source
  /\ o.recovery.observedPause = s.recovery.observedPause

(* Likewise for a change that leaves the queue, the recovery and the       *)
(* source alone.                                                           *)
LEMMA MovesThen ==
  ASSUME NEW s \in Bridges, NEW o \in Bridges, NEW r \in Bridges,
         NEW asked \in BOOLEAN, Moves(s, o, FALSE), o.queue = s.queue,
         SameRecovery(s, o), o.gen = s.gen, Moves(o, r, asked)
  PROVE  Moves(s, r, asked)
<1>1. s.intent \in Nat /\ o.intent \in Nat /\ r.intent \in Nat
  BY DEF Bridges
<1>2. /\ Armed(o) = Armed(s) /\ o.confirmed = s.confirmed
      /\ o.disposed = s.disposed /\ o.intent >= s.intent
  BY DEF Armed, Moves, SameRecovery
<1>3. \A op \in Operations : Adds(o, r, op, asked) => Adds(s, r, op, asked)
  BY <1>2 DEF Adds, SameRecovery
<1>4. r.queue = s.queue \/ \E op \in Operations : Adds(s, r, op, asked)
  BY <1>3 DEF Moves
<1>5. r.intent >= s.intent
  BY <1>1, <1>2 DEF Moves
<1>6. Spoken(s) => Spoken(r)
  BY DEF Moves
<1>7. /\ Armed(r) => Armed(s)
      /\ r.recovery # NoRecovery =>
           s.recovery # NoRecovery /\ r.recovery.source = s.recovery.source
      /\ r.recovery = NoRecovery =>
       s.recovery = NoRecovery \/ r.gen # s.gen \/ (asked /\ s.confirmed # NoSource)
      /\ r.recovery.observedPause => s.recovery.observedPause \/ asked
  BY <1>2 DEF Moves, SameRecovery
<1>8. /\ r.gen >= s.gen
      /\ s.disposed => r.disposed
      /\ r.gen = s.gen => r.confirmed = s.confirmed /\ r.disposed = s.disposed
      /\ r.gen # s.gen => r.confirmed = NoSource \/ r.disposed
  BY <1>2 DEF Moves
<1>9. QED
  BY <1>4, <1>5, <1>6, <1>7, <1>8 DEF Moves

LEMMA HandlesThen ==
  ASSUME NEW s \in Bridges, NEW o \in Bridges, NEW r \in Bridges,
         NEW asked \in BOOLEAN, Handles(s, o, FALSE), o.queue = s.queue,
         SameRecovery(s, o), o.gen = s.gen,
         o.pending = s.pending \/ r.told = o.told, Handles(o, r, asked)
  PROVE  Handles(s, r, asked)
<1>1. Moves(s, r, asked)
  BY MovesThen DEF Handles
<1>2. Hushed(s, r)
  BY DEF Handles, Hushed
<1>3. QED
  BY <1>1, <1>2 DEF Handles

LEMMA NextIntentAlike ==
  ASSUME NEW s \in Bridges
  PROVE  Alike(s, NextIntent(s))
BY DEF Bridges, NextIntent, Alike

LEMMA EnqueueAlike ==
  ASSUME NEW s \in Bridges, NEW op
  PROVE  Alike(s, Enqueue(s, op))
BY DEF Bridges, Enqueue, Alike

(* The helpers, one by one.                                                *)
LEMMA PublishHandles ==
  ASSUME NEW s \in Bridges, NEW t \in Snapshots, NEW mode \in Modes,
         NEW changed \in BOOLEAN
  PROVE  /\ Moves(s, Publish(s, t, mode, changed), FALSE)
         /\ (changed => mode = "paused") => Handles(s, Publish(s, t, mode, changed), FALSE)
<1> DEFINE r == [s EXCEPT !.buffering = @ \/ t.buffering, !.published = mode,
                          !.told = mode, !.pending = @ \/ changed]
<1>1. mode # "none" /\ s.intent \in Nat /\ s.gen \in Nat
  BY DEF Modes, Bridges
<1>2. Handles(s, s, FALSE)
  BY <1>1 DEF Handles, Moves, Hushed
<1>3. /\ r.gen = s.gen /\ r.intent = s.intent /\ r.disposed = s.disposed
      /\ r.confirmed = s.confirmed /\ r.recovery = s.recovery
      /\ r.queue = s.queue /\ r.told = mode /\ r.published = mode
      /\ r.pending = (s.pending \/ changed)
  BY DEF Bridges
<1> HIDE DEF r
<1>4. Moves(s, r, FALSE)
  BY <1>1, <1>3 DEF Moves, Armed, Spoken
<1>5. (changed => mode = "paused") => Handles(s, r, FALSE)
  BY <1>3, <1>4 DEF Handles, Hushed
<1>6. Publish(s, t, mode, changed) = s \/ Publish(s, t, mode, changed) = r
  BY DEF Publish, r
<1>7. QED
  BY <1>2, <1>4, <1>5, <1>6 DEF Handles

LEMMA AcknowledgeHandles ==
  ASSUME NEW s \in Bridges, NEW mode \in Modes
  PROVE  Handles(s, Acknowledge(s, mode), FALSE)
<1> DEFINE r == Acknowledge(s, mode)
<1>1. mode # "none" /\ s.intent \in Nat /\ s.gen \in Nat
  BY DEF Modes, Bridges
<1>2. /\ r.gen = s.gen /\ r.intent = s.intent /\ r.disposed = s.disposed
      /\ r.confirmed = s.confirmed /\ r.recovery = s.recovery
      /\ r.queue = s.queue /\ r.told = mode /\ r.published = mode
      /\ r.pending = s.pending
  BY DEF Bridges, Acknowledge
<1> HIDE DEF r
<1>3. Handles(s, r, FALSE)
  BY <1>1, <1>2 DEF Handles, Moves, Hushed, Armed, Spoken
<1>4. QED
  BY <1>3 DEF r

LEMMA ReassertPauseHandles ==
  ASSUME NEW s \in Bridges, NEW flag \in BOOLEAN, ~s.disposed,
         s.confirmed # NoSource, NEW asked \in BOOLEAN
  PROVE  /\ Handles(s, ReassertPause(s, flag), asked)
         /\ Alike(s, ReassertPause(s, flag))
<1> DEFINE r == [s EXCEPT !.correction = <<s.intent, s.gen>>]
           op == Op("reassert", "paused", flag, s)
           e == Enqueue(r, op)
<1>1. r \in Bridges /\ Alike(s, r) /\ r.intent = s.intent /\ r.queue = s.queue
  <2>1. <<s.intent, s.gen>> \in Nat \X Nat
    BY DEF Bridges
  <2>2. QED
    BY <2>1 DEF Bridges, Alike
<1>2. /\ op \in Operations /\ op.intent = s.intent /\ op.gen = s.gen
      /\ op.kind = "reassert"
  BY OpType, ModeTypes DEF Op
<1> HIDE DEF r, op
<1>3. /\ e \in Bridges /\ Alike(s, e) /\ e.intent = s.intent /\ s.intent \in Nat
      /\ e.queue = Append(s.queue, op)
  <2>1. e \in Bridges /\ Alike(r, e) /\ e.intent = r.intent /\ e.queue = Append(r.queue, op)
    BY <1>1, <1>2, EnqueueType, EnqueueGrows, EnqueueAlike
  <2>2. s.intent \in Nat
    BY DEF Bridges
  <2>3. QED
    BY <1>1, <2>1, <2>2, AlikeChain
<1> HIDE DEF e
<1>4. Handles(s, e, asked)
  <2>1. e.gen = s.gen /\ e.intent >= s.intent
    BY <1>3 DEF Alike
  <2>2. QED
    BY <1>2, <1>3, <2>1, AlikeAdds DEF Starts
<1>5. Handles(s, s, asked) /\ Alike(s, s)
  BY DEF Handles, Moves, Hushed, Alike, Bridges
<1>6. ReassertPause(s, flag) = s \/ ReassertPause(s, flag) = e
  BY DEF ReassertPause, r, op, e
<1>7. QED
  BY <1>3, <1>4, <1>5, <1>6

LEMMA LocalCommandHandles ==
  ASSUME NEW s \in Bridges, NEW t, NEW kind \in {"pause", "seek"},
         NEW asked \in BOOLEAN
  PROVE  /\ Handles(s, LocalCommand(s, t, kind), asked)
         /\ Alike(s, LocalCommand(s, t, kind))
<1> DEFINE n == NextIntent(s)
           op == Op(kind, "paused", FALSE, n)
           e == Enqueue(n, op)
<1>1. /\ n \in Bridges /\ Alike(s, n) /\ n.intent = s.intent + 1
      /\ n.queue = s.queue /\ s.intent \in Nat
  BY NextIntentType, NextIntentGrows, NextIntentAlike DEF Bridges
<1> HIDE DEF n
<1>2. op \in Operations /\ op.intent = n.intent /\ op.gen = n.gen /\ op.kind = kind
  BY <1>1, OpType, ModeTypes DEF Op
<1> HIDE DEF op
<1>3. /\ e \in Bridges /\ Alike(s, e) /\ e.intent = n.intent
      /\ e.queue = Append(s.queue, op)
  BY <1>1, <1>2, EnqueueType, EnqueueGrows, EnqueueAlike, AlikeChain
<1> HIDE DEF e
<1>4. ~s.disposed /\ s.confirmed # NoSource => Handles(s, e, asked)
  <2>1. e.gen = n.gen /\ e.intent >= s.intent
    BY <1>1, <1>3 DEF Alike
  <2>2. QED
    BY <1>2, <1>3, <2>1, AlikeAdds DEF Starts
<1>5. Handles(s, s, asked) /\ Alike(s, s)
  BY DEF Handles, Moves, Hushed, Alike, Bridges
<1>6. \/ LocalCommand(s, t, kind) = s
      \/ LocalCommand(s, t, kind) = e /\ ~s.disposed /\ s.confirmed # NoSource
  BY DEF LocalCommand, HasSource, n, op, e
<1>7. QED
  BY <1>3, <1>4, <1>5, <1>6

LEMMA LocalPlayHandles ==
  ASSUME NEW s \in Bridges, NEW t, NEW flag \in BOOLEAN
  PROVE  Handles(s, LocalPlay(s, t, flag), TRUE)
<1> DEFINE c == [s EXCEPT !.recovery = NoRecovery]
           n == NextIntent(c)
           started == n.intent
           r == [n EXCEPT !.localPlay = started]
           op == Op("play", "playing", flag, n)
           e == Enqueue(r, op)
<1>1. /\ c \in Bridges /\ c.intent = s.intent /\ c.queue = s.queue
      /\ s.intent \in Nat /\ s.gen \in Nat
      /\ c.gen = s.gen /\ c.disposed = s.disposed /\ c.confirmed = s.confirmed
      /\ c.recovery = NoRecovery /\ c.published = s.published /\ c.told = s.told
      /\ c.pending = s.pending
  BY NoRecoveryType DEF Bridges, Alike
<1> HIDE DEF c
<1>2. /\ n \in Bridges /\ n.intent = s.intent + 1 /\ n.queue = s.queue
      /\ Alike(c, n)
  BY <1>1, NextIntentType, NextIntentGrows, NextIntentAlike
<1> HIDE DEF n
<1>3. started \in Nat
  BY <1>1, <1>2
<1>4. /\ r \in Bridges /\ r.intent = n.intent /\ r.queue = n.queue /\ Alike(n, r)
      /\ r.gen = n.gen
  <2> HIDE DEF started
  <2> QED BY <1>2, <1>3 DEF Bridges, Alike
<1>5. op \in Operations /\ op.intent = n.intent /\ op.gen = n.gen /\ op.kind = "play"
  BY <1>2, OpType, ModeTypes DEF Op
<1> HIDE DEF r, op
<1>6. /\ e.intent = n.intent /\ e.queue = Append(s.queue, op) /\ Alike(c, e)
  BY <1>2, <1>4, <1>5, EnqueueGrows, EnqueueAlike, AlikeChain
<1> HIDE DEF e
<1>7. NoRecovery.observedPause = FALSE
  BY DEF NoRecovery
<1>8. ~s.disposed /\ s.confirmed # NoSource => Handles(s, e, TRUE)
  <2>1. /\ e.gen = s.gen /\ e.disposed = s.disposed /\ e.confirmed = s.confirmed
        /\ e.recovery = NoRecovery /\ e.published = s.published /\ e.told = s.told
        /\ e.pending = s.pending /\ op.gen = e.gen
    BY <1>1, <1>2, <1>4, <1>5, <1>6 DEF Alike
  <2>2. ~s.disposed /\ s.confirmed # NoSource => Adds(s, e, op, TRUE)
    BY <1>5, <1>6, <2>1 DEF Adds
  <2>3. ~s.disposed /\ s.confirmed # NoSource =>
          \E o \in Operations : Adds(s, e, o, TRUE)
    BY <1>5, <2>2
  <2>4. e.intent >= s.intent
    BY <1>1, <1>2, <1>6
  <2>5. ~Armed(e) /\ (Spoken(s) => Spoken(e))
    BY <2>1 DEF Armed, Spoken
  <2>6. e.gen >= s.gen /\ ~e.recovery.observedPause
    BY <1>1, <1>7, <2>1
  <2>7. QED
    BY <2>1, <2>3, <2>4, <2>5, <2>6 DEF Handles, Moves, Hushed
<1>9. Handles(s, s, TRUE)
  BY <1>1 DEF Handles, Moves, Hushed
<1>10. \/ LocalPlay(s, t, flag) = s
       \/ LocalPlay(s, t, flag) = e /\ ~s.disposed /\ s.confirmed # NoSource
  BY DEF LocalPlay, HasSource, c, n, r, op, e
<1>11. QED
  BY <1>8, <1>9, <1>10

LEMMA OnPeerHandles ==
  ASSUME NEW s \in Bridges, NEW t \in Snapshots, NEW mode \in Modes
  PROVE  /\ Handles(s, OnPeer(s, t, mode), FALSE)
         /\ ~s.disposed => Spoken(OnPeer(s, t, mode))
         /\ OnPeer(s, t, mode).pending = s.pending
<1> DEFINE play == s.connected /\ s.recovery.observedPause /\ mode = "playing"
           h == [s EXCEPT !.latestPeer = mode, !.expected = "none",
                 !.published = "paused", !.told = "paused",
                 !.recovery.pendingPlay = @ \/ play]
           b == [s EXCEPT !.latestPeer = mode]
           a == Acknowledge(b, mode)
           n == NextIntent(a)
           op == Op("peer", mode, FALSE, n)
           e == Enqueue(n, op)
<1>1. mode # "none" /\ s.intent \in Nat /\ s.gen \in Nat /\ Handles(s, s, FALSE)
  BY DEF Modes, Bridges, Handles, Moves, Hushed
<1>2. CASE HeldByRecovery(s, mode)
  <2>1. /\ h.gen = s.gen /\ h.intent = s.intent /\ h.disposed = s.disposed
        /\ h.confirmed = s.confirmed /\ h.queue = s.queue /\ h.told = "paused"
        /\ h.published = "paused" /\ h.pending = s.pending
        /\ h.recovery = [s.recovery EXCEPT !.pendingPlay = @ \/ play]
    BY DEF Bridges
  <2>2. /\ h.recovery.attempted = s.recovery.attempted
        /\ h.recovery.source = s.recovery.source
        /\ h.recovery.observedPause = s.recovery.observedPause
        /\ h.recovery.pendingPlay = (s.recovery.pendingPlay \/ play)
    BY <2>1 DEF Bridges, Recoveries
  <2>3. h.recovery # NoRecovery /\ s.recovery # NoRecovery
    <3>1. s.recovery # NoRecovery
      BY <1>2 DEF HeldByRecovery
    <3>2. CASE s.recovery.pendingPlay
      <4>1. h.recovery.pendingPlay
        BY <2>2, <3>2
      <4>2. QED
        BY <3>1, <4>1 DEF NoRecovery
    <3>3. CASE ~s.recovery.pendingPlay /\ ~play
      <4>1. h.recovery = s.recovery
        BY <2>1, <3>3 DEF Bridges, Recoveries
      <4>2. QED
        BY <3>1, <4>1
    <3>4. CASE play
      BY <2>2, <3>4 DEF NoRecovery
    <3>5. QED
      BY <3>1, <3>2, <3>3, <3>4
  <2> HIDE DEF h
  <2>4. Handles(s, h, FALSE) /\ Spoken(h) /\ h.pending = s.pending
    BY <1>1, <2>1, <2>2, <2>3 DEF Handles, Moves, Hushed, Armed, Spoken
  <2>5. OnPeer(s, t, mode) = IF s.disposed THEN s ELSE h
    BY <1>2 DEF OnPeer, h
  <2>6. QED
    BY <1>1, <2>4, <2>5
<1>3. CASE ~HeldByRecovery(s, mode)
  <2>1. b \in Bridges /\ Alike(s, b) /\ b.intent = s.intent /\ b.queue = s.queue
    BY ModeTypes DEF Bridges, Alike
  <2> HIDE DEF b
  <2>2. /\ a \in Bridges /\ a.intent = s.intent /\ a.queue = s.queue
        /\ Handles(b, a, FALSE)
    BY <2>1, AcknowledgeType, AcknowledgeGrows, AcknowledgeHandles
  <2>3. /\ a.gen = s.gen /\ a.disposed = s.disposed /\ a.confirmed = s.confirmed
        /\ a.recovery = s.recovery /\ a.published = mode /\ a.told = mode
        /\ a.pending = s.pending
    BY <2>1 DEF Acknowledge, Alike, Bridges
  <2> HIDE DEF a
  <2>4. /\ n \in Bridges /\ n.intent = s.intent + 1 /\ n.queue = s.queue
        /\ Alike(a, n)
    BY <2>2, NextIntentType, NextIntentGrows, NextIntentAlike
  <2> HIDE DEF n
  <2>5. /\ op \in Operations /\ op.intent = n.intent /\ op.gen = n.gen
        /\ op.kind = "peer" /\ op.mode = mode
    BY <2>4, OpType DEF Op
  <2> HIDE DEF op
  <2>6. e.intent = n.intent /\ e.queue = Append(s.queue, op) /\ Alike(a, e)
    BY <2>4, EnqueueGrows, EnqueueAlike, AlikeChain
  <2> HIDE DEF e
  <2>7. mode = "playing" => s.recovery = NoRecovery \/ s.recovery.observedPause
    BY <1>3 DEF HeldByRecovery
  <2>8. ~s.disposed /\ s.confirmed # NoSource =>
          Handles(s, e, FALSE) /\ Spoken(e) /\ e.pending = s.pending
    <3>1. /\ e.gen = s.gen /\ e.disposed = s.disposed /\ e.confirmed = s.confirmed
          /\ e.recovery = s.recovery /\ e.published = mode /\ e.told = mode
          /\ e.pending = s.pending /\ op.gen = e.gen
      BY <2>3, <2>4, <2>5, <2>6 DEF Alike
    <3>2. ~s.disposed /\ s.confirmed # NoSource => Adds(s, e, op, FALSE)
      BY <2>5, <2>6, <2>7, <3>1 DEF Adds, Starts
    <3>3. ~s.disposed /\ s.confirmed # NoSource =>
            \E o \in Operations : Adds(s, e, o, FALSE)
      BY <2>5, <3>2
    <3>4. e.intent >= s.intent
      BY <1>1, <2>4, <2>6
    <3>5. QED
      BY <1>1, <3>1, <3>3, <3>4 DEF Handles, Moves, Hushed, Armed, Spoken
  <2>9. Handles(s, a, FALSE) /\ Spoken(a)
    BY <1>1, <2>2, <2>3 DEF Handles, Moves, Hushed, Armed, Spoken
  <2>10. \/ OnPeer(s, t, mode) = s /\ s.disposed
         \/ OnPeer(s, t, mode) = a
         \/ OnPeer(s, t, mode) = e /\ ~s.disposed /\ s.confirmed # NoSource
    BY <1>3 DEF OnPeer, HasSource, b, a, n, op, e
  <2>11. QED
    BY <1>1, <2>3, <2>8, <2>9, <2>10
<1>4. QED
  BY <1>2, <1>3

LEMMA BeginSourceLoadFields ==
  ASSUME NEW s \in Bridges
  PROVE  LET n == BeginSourceLoad(s)
         IN /\ n.gen = s.gen + 1 /\ n.intent = s.intent + 1 /\ n.queue = s.queue
            /\ n.disposed = s.disposed /\ n.confirmed = NoSource
            /\ n.recovery = NoRecovery /\ n.published = "none" /\ n.told = s.told
            /\ n.pending = s.pending /\ s.gen \in Nat /\ s.intent \in Nat
BY DEF Bridges, BeginSourceLoad, NextIntent

LEMMA BeginSourceLoadHandles ==
  ASSUME NEW s \in Bridges
  PROVE  Handles(s, BeginSourceLoad(s), FALSE)
<1> DEFINE n == BeginSourceLoad(s)
<1>1. /\ n.gen = s.gen + 1 /\ n.intent = s.intent + 1 /\ n.queue = s.queue
      /\ n.disposed = s.disposed /\ n.confirmed = NoSource
      /\ n.recovery = NoRecovery /\ n.published = "none" /\ n.told = s.told
      /\ n.pending = s.pending /\ s.gen \in Nat /\ s.intent \in Nat
  BY BeginSourceLoadFields
<1> HIDE DEF n
<1>2. NoRecovery.observedPause = FALSE
  BY DEF NoRecovery
<1>3. Handles(s, n, FALSE)
  BY <1>1, <1>2 DEF Handles, Moves, Hushed, Armed, Spoken
<1>4. QED
  BY <1>3 DEF n

LEMMA RecoverHandles ==
  ASSUME NEW s \in Bridges, NEW t
  PROVE  Handles(s, RecoverNetworkSource(s, t), FALSE)
<1> DEFINE n == BeginSourceLoad(s)
           rec == [s.recovery EXCEPT !.attempted = TRUE, !.recovering = TRUE,
                                     !.gen = n.gen]
           r == [n EXCEPT !.recovery = rec]
           op == Op("recover", "paused", FALSE, n)
           e == Enqueue(r, op)
<1>1. /\ n.gen = s.gen + 1 /\ n.intent = s.intent + 1 /\ n.queue = s.queue
      /\ n.disposed = s.disposed /\ n.confirmed = NoSource
      /\ n.published = "none" /\ n.told = s.told /\ n \in Bridges
      /\ n.pending = s.pending /\ s.gen \in Nat /\ s.intent \in Nat
  BY BeginSourceLoadFields, BeginSourceLoadType
<1> HIDE DEF n
<1>2. /\ rec \in Recoveries /\ rec.attempted /\ rec.recovering
      /\ rec.source = s.recovery.source
      /\ rec.observedPause = s.recovery.observedPause
  BY <1>1 DEF Bridges, Recoveries
<1>3. rec # NoRecovery
  BY <1>2 DEF NoRecovery
<1> HIDE DEF rec
<1>4. /\ r \in Bridges /\ r.intent = n.intent /\ r.queue = n.queue
      /\ r.gen = n.gen /\ r.disposed = n.disposed /\ r.confirmed = n.confirmed
      /\ r.recovery = rec /\ r.published = n.published /\ r.told = n.told
      /\ r.pending = n.pending
  BY <1>1, <1>2 DEF Bridges
<1>5. op \in Operations /\ op.intent = n.intent /\ op.gen = n.gen /\ op.kind = "recover"
  BY <1>1, OpType, ModeTypes DEF Op
<1> HIDE DEF r, op
<1>6. e.intent = r.intent /\ e.queue = Append(r.queue, op) /\ Alike(r, e)
  BY <1>4, EnqueueGrows, EnqueueAlike
<1> HIDE DEF e
<1>7. ASSUME MayRecover(s, t) PROVE Handles(s, e, FALSE)
  <2>1. ~s.disposed /\ Armed(s)
    BY <1>7 DEF MayRecover, Armed
  <2>2. /\ e.gen = s.gen + 1 /\ e.disposed = s.disposed /\ e.confirmed = NoSource
        /\ e.recovery = rec /\ e.published = "none" /\ e.told = s.told
        /\ e.pending = s.pending /\ op.gen = e.gen
    BY <1>1, <1>4, <1>5, <1>6 DEF Alike
  <2>3. Adds(s, e, op, FALSE)
    BY <1>1, <1>2, <1>3, <1>4, <1>5, <1>6, <2>1, <2>2 DEF Adds, Starts, Armed
  <2>4. \E o \in Operations : Adds(s, e, o, FALSE)
    BY <1>5, <2>3
  <2>5. e.intent >= s.intent /\ s.recovery # NoRecovery
    BY <1>1, <1>4, <1>6, <2>1 DEF Armed
  <2>6. ~Armed(e) /\ Spoken(e)
    BY <1>2, <2>2 DEF Armed, Spoken
  <2>7. e.gen >= s.gen /\ e.gen # s.gen
    BY <1>1, <2>2
  <2>8. QED
    BY <1>2, <1>3, <2>1, <2>2, <2>4, <2>5, <2>6, <2>7 DEF Handles, Moves, Hushed
<1>8. Handles(s, s, FALSE)
  BY <1>1 DEF Handles, Moves, Hushed
<1>9. \/ RecoverNetworkSource(s, t) = s
      \/ RecoverNetworkSource(s, t) = e /\ MayRecover(s, t)
  BY DEF RecoverNetworkSource, e, r, rec, op, n
<1>10. QED
  BY <1>7, <1>8, <1>9

(* Opening a source, after the bridge has taken note of it.                *)
Opening(s, t) == [s EXCEPT !.deferred = NoKey, !.confirmed = t.media]

LEMMA OpeningFields ==
  ASSUME NEW s \in Bridges, NEW t \in Snapshots
  PROVE  LET o == Opening(s, t)
         IN /\ o \in Bridges /\ o.gen = s.gen /\ o.intent = s.intent
            /\ o.queue = s.queue /\ o.disposed = s.disposed
            /\ o.confirmed = t.media /\ o.recovery = s.recovery
            /\ o.published = s.published /\ o.told = s.told
            /\ o.pending = s.pending
BY NoRecoveryType DEF Opening, Bridges, Snapshots

(* The room hears of a source that is open.                                *)
LEMMA PublishSpoken ==
  ASSUME NEW s \in Bridges, NEW t \in Snapshots, NEW mode \in Modes,
         HasSource(s, t), NEW changed \in BOOLEAN
  PROVE  Spoken(Publish(s, t, mode, changed))
<1> DEFINE r == [s EXCEPT !.buffering = @ \/ t.buffering, !.published = mode,
                          !.told = mode, !.pending = @ \/ changed]
<1>1. r.told = mode /\ r.published = mode /\ mode # "none"
  BY DEF Bridges, Modes
<1>2. Publish(s, t, mode, changed) = r
  BY DEF Publish
<1> HIDE DEF r
<1>3. QED
  BY <1>1, <1>2 DEF Spoken

LEMMA MarkSourceOpenHandles ==
  ASSUME NEW s \in Bridges, NEW t \in Snapshots, room \in MaybeMode,
         t.conn = "ready", ~s.disposed, Spoken(s)
  PROVE  /\ Handles(Opening(s, t), MarkSourceOpen(s, t), FALSE)
         /\ Spoken(MarkSourceOpen(s, t))
         /\ MarkSourceOpen(s, t).pending = s.pending
<1> DEFINE open == Opening(s, t)
           peer == IF room # "none" THEN room ELSE s.latestPeer
           told == Publish(open, t, ModeOf(t), FALSE)
<1>1. /\ open \in Bridges /\ open.disposed = s.disposed /\ open.told = s.told
      /\ open.published = s.published /\ open.pending = s.pending
      /\ open.confirmed = t.media
  BY OpeningFields
<1>2. peer \in MaybeMode
  BY DEF Bridges
<1>3. MarkSourceOpen(s, t) = IF peer # "none" THEN OnPeer(open, t, peer) ELSE told
  BY DEF MarkSourceOpen, Opening
<1> HIDE DEF open, peer
<1>4. CASE peer # "none"
  <2>1. peer \in Modes
    BY <1>2, <1>4, ModeTypes
  <2>2. QED
    BY <1>1, <1>3, <1>4, <2>1, OnPeerHandles DEF open
<1>5. CASE peer = "none"
  <2>1. Handles(open, told, FALSE)
    BY <1>1, PublishHandles, ModeTypes
  <2>2. told.pending = open.pending
    BY <1>1 DEF Publish, Bridges
  <2>3. Spoken(told)
    <3>1. CASE HasSource(open, t)
      BY <1>1, <3>1, PublishSpoken, ModeTypes
    <3>2. CASE ~HasSource(open, t)
      <4>1. told = open /\ t.media = NoSource
        BY <1>1, <3>2 DEF Publish, HasSource
      <4>2. QED
        BY <1>1, <4>1 DEF Spoken
    <3>3. QED
      BY <3>1, <3>2
  <2>4. MarkSourceOpen(s, t) = told
    BY <1>3, <1>5
  <2> HIDE DEF told
  <2>5. QED
    BY <1>1, <2>1, <2>2, <2>3, <2>4 DEF open
<1>6. QED
  BY <1>4, <1>5

LEMMA OnReadyPlayerHandles ==
  ASSUME NEW s \in Bridges, NEW t \in Snapshots, NEW near \in BOOLEAN,
         HasSource(s, t)
  PROVE  LET r == OnReadyPlayer(s, t, near)
         IN /\ Handles(s, r, r.externalPlay /\ ~s.externalPlay)
            /\ ~t.playing => r.externalPlay = s.externalPlay
<1> DEFINE r == OnReadyPlayer(s, t, near)
           settled == [s EXCEPT !.deferred = NoKey]
           outside == [settled EXCEPT !.externalPlay = TRUE]
           nativePause == ~t.playing /\ s.published = "playing"
           told == Publish(settled, t, ModeOf(t), nativePause)
           later == [s EXCEPT !.deferred = <<s.intent, s.gen>>]
           heard == ReassertPause(told, TRUE)
           held == ReassertPause(s, FALSE)
           play == LocalPlay(outside, t, TRUE)
<1>0. ~s.disposed /\ s.confirmed # NoSource
  BY DEF HasSource
<1>1. Quiet(s, settled) /\ settled.externalPlay = s.externalPlay
  BY NoRecoveryType DEF Bridges, Alike, Quiet
<1>2. Quiet(s, outside) /\ outside.externalPlay
  <2> HIDE DEF settled
  <2>1. Quiet(settled, outside) /\ outside.externalPlay
    BY <1>1 DEF Bridges, Alike, Quiet
  <2> HIDE DEF outside
  <2>2. QED
    BY <1>1, <2>1, QuietChain
<1>3. Quiet(s, later) /\ later.externalPlay = s.externalPlay
  <2>1. <<s.intent, s.gen>> \in Nat \X Nat
    BY DEF Bridges
  <2>2. QED
    BY <2>1 DEF Bridges, Alike, Quiet
<1> HIDE DEF outside, later
<1>4. /\ told \in Bridges /\ Handles(settled, told, FALSE)
      /\ told.queue = settled.queue /\ told.recovery = settled.recovery
      /\ told.gen = settled.gen /\ told.disposed = settled.disposed
      /\ told.confirmed = settled.confirmed
      /\ told.externalPlay = settled.externalPlay
  <2> HIDE DEF settled
  <2>1. nativePause \in BOOLEAN /\ (nativePause => ModeOf(t) = "paused")
    BY DEF ModeOf, Bridges, Snapshots
  <2> HIDE DEF nativePause
  <2>2. told \in Bridges /\ Handles(settled, told, FALSE)
    BY <1>1, <2>1, PublishType, PublishHandles, ModeTypes DEF Quiet
  <2>3. /\ told.queue = settled.queue /\ told.recovery = settled.recovery
        /\ told.gen = settled.gen /\ told.disposed = settled.disposed
        /\ told.confirmed = settled.confirmed
        /\ told.externalPlay = settled.externalPlay
    BY <1>1 DEF Publish, Bridges, Quiet
  <2>4. QED
    BY <2>2, <2>3
<1> HIDE DEF settled, told
<1>5. Handles(s, told, FALSE)
  BY <1>1, <1>4, QuietThen
<1>6. heard \in Bridges /\ Handles(s, heard, FALSE)
  <2>1. told.gen = s.gen /\ told.queue = s.queue /\ SameRecovery(s, told)
        /\ ~told.disposed /\ told.confirmed # NoSource
    BY <1>0, <1>1, <1>4 DEF Alike, Quiet, SameRecovery
  <2>2. heard \in Bridges /\ heard.told = told.told /\ Handles(told, heard, FALSE)
    BY <1>4, <2>1, ReassertPauseType, ReassertPauseHandles DEF Alike
  <2> HIDE DEF heard
  <2>3. QED
    BY <1>4, <1>5, <2>1, <2>2, HandlesThen
<1>7. Quiet(s, s) /\ Handles(s, held, FALSE)
  BY <1>0, ReassertPauseHandles DEF Alike, Quiet
<1>8. heard.externalPlay = told.externalPlay /\ held.externalPlay = s.externalPlay
  BY <1>4 DEF ReassertPause, Enqueue, Bridges
<1>9. play.externalPlay /\ Handles(s, play, TRUE)
  <2>1. outside \in Bridges
    BY <1>2 DEF Quiet
  <2>2. play.externalPlay
    BY <1>2, <2>1 DEF LocalPlay, NextIntent, Enqueue, Bridges
  <2>3. play \in Bridges /\ Handles(outside, play, TRUE)
    BY <2>1, LocalPlayType, LocalPlayHandles
  <2> HIDE DEF play
  <2>4. QED
    BY <1>2, <2>2, <2>3, QuietThen
<1>10. \/ r \in {s, later, settled, told, held, heard}
       \/ r = play /\ ~s.externalPlay /\ t.playing
  BY DEF OnReadyPlayer, settled, outside, told, later
<1> HIDE DEF r, heard, held, play
<1>11. CASE r = play /\ ~s.externalPlay /\ t.playing
  <2>1. (r.externalPlay /\ ~s.externalPlay) = TRUE
    BY <1>9, <1>11
  <2>2. QED
    BY <1>9, <1>11, <2>1 DEF r
<1>12. CASE r \in {s, later, settled, told, held, heard}
  <2>1. Handles(s, r, FALSE) /\ r.externalPlay = s.externalPlay
    BY <1>1, <1>3, <1>4, <1>5, <1>6, <1>7, <1>8, <1>12, QuietHandles
  <2>2. (r.externalPlay /\ ~s.externalPlay) = FALSE
    BY <2>1
  <2>3. QED
    BY <2>1, <2>2 DEF r
<1>13. QED
  BY <1>10, <1>11, <1>12

LEMMA OnPlayerHandles ==
  ASSUME NEW s \in Bridges, NEW t \in Snapshots, NEW near \in BOOLEAN
  PROVE  LET r == OnPlayer(s, t, near)
         IN /\ Handles(s, r, r.externalPlay /\ ~s.externalPlay)
            /\ ~t.playing => r.externalPlay = s.externalPlay
<1> DEFINE r == OnPlayer(s, t, near)
           stalled == [s EXCEPT !.deferred = NoKey, !.buffering = TRUE,
                                !.bufferTimer = FALSE]
           p == [s EXCEPT !.deferred = IF t.playing THEN NoKey ELSE @]
           timed == [p EXCEPT !.bufferTimer = TRUE]
           q == [p EXCEPT !.buffering = FALSE, !.bufferTimer = FALSE]
           again == RecoverNetworkSource(s, t)
           ready == OnReadyPlayer(q, t, near)
<1>1. Quiet(s, p) /\ p.externalPlay = s.externalPlay
  BY NoRecoveryType DEF Bridges, Alike, Quiet
<1>2. Quiet(s, stalled) /\ stalled.externalPlay = s.externalPlay
  BY NoRecoveryType DEF Bridges, Alike, Quiet
<1>3. /\ Quiet(p, timed) /\ timed.externalPlay = p.externalPlay
      /\ Quiet(p, q) /\ q.externalPlay = p.externalPlay
  <2> HIDE DEF p
  <2> QED BY <1>1 DEF Bridges, Alike, Quiet
<1>4. \/ r \in {s, stalled, timed, again}
      \/ r = ready /\ HasSource(s, t)
  <2> DEFINE rest == IF t.buffering THEN stalled
                     ELSE IF Applying(s) THEN s
                     ELSE IF p.buffering /\ ~t.playing /\ p.published = "playing"
                     THEN timed ELSE ready
  <2>1. r = IF MayRecover(s, t) THEN again
            ELSE IF ~HasSource(s, t) THEN s ELSE rest
    BY DEF OnPlayer
  <2>2. rest \in {s, stalled, timed, ready}
    <3> HIDE DEF p, stalled, timed, ready
    <3> QED OBVIOUS
  <2> HIDE DEF rest, r, again, ready, stalled, timed
  <2>3. QED
    BY <2>1, <2>2
<1> HIDE DEF p, stalled, timed, q
<1>5. Quiet(s, timed) /\ Quiet(s, q)
  BY <1>1, <1>3, QuietChain
<1>6. again \in Bridges /\ Handles(s, again, FALSE) /\ again.externalPlay = s.externalPlay
  <2>1. again.externalPlay = s.externalPlay
    BY DEF RecoverNetworkSource, BeginSourceLoad, NextIntent, Enqueue, Bridges
  <2>2. QED
    BY <2>1, RecoverType, RecoverHandles
<1>7. ASSUME HasSource(s, t)
      PROVE  /\ Handles(s, ready, ready.externalPlay /\ ~s.externalPlay)
             /\ ~t.playing => ready.externalPlay = s.externalPlay
  <2>1. q \in Bridges /\ HasSource(q, t) /\ q.externalPlay = s.externalPlay
    BY <1>1, <1>3, <1>5, <1>7 DEF HasSource, Alike, Quiet
  <2>2. /\ ready \in Bridges
        /\ Handles(q, ready, ready.externalPlay /\ ~q.externalPlay)
        /\ ~t.playing => ready.externalPlay = q.externalPlay
    BY <2>1, OnReadyPlayerType, OnReadyPlayerHandles
  <2> HIDE DEF ready
  <2> DEFINE asked == ready.externalPlay /\ ~q.externalPlay
  <2>3. asked \in BOOLEAN
    OBVIOUS
  <2>4. Handles(q, ready, asked)
    BY <2>2
  <2>5. (ready.externalPlay /\ ~s.externalPlay) = asked
    BY <2>1
  <2> HIDE DEF asked
  <2>6. Handles(s, ready, asked)
    BY <1>5, <2>2, <2>3, <2>4, QuietThen
  <2>7. QED
    BY <2>1, <2>2, <2>5, <2>6
<1>8. Quiet(s, s)
  BY DEF Quiet, Alike
<1> HIDE DEF r, again, ready
<1>9. CASE r = ready /\ HasSource(s, t)
  BY <1>7, <1>9 DEF r
<1>10. CASE r \in {s, stalled, timed, again}
  <2>1. Handles(s, r, FALSE) /\ r.externalPlay = s.externalPlay
    BY <1>1, <1>2, <1>3, <1>5, <1>6, <1>8, <1>10, QuietHandles
  <2>2. (r.externalPlay /\ ~s.externalPlay) = FALSE
    BY <2>1
  <2>3. QED
    BY <2>1, <2>2 DEF r
<1>11. QED
  BY <1>4, <1>9, <1>10

-----------------------------------------------------------------------------
(* The steps that may report a start of this phone's own.                  *)
Reports == Played \/ LocalCommandDone \/ PlaybackDenied \/ pc = "errorPause"

(* A step takes the bridge from s on: a handler, or what an operation does *)
(* before the finally blocks take it off the queue.                        *)
Reached(s, asked) ==
  \/ /\ bridge' \in Bridges /\ Moves(s, bridge', asked)
     /\ Hushed(s, bridge') \/ Reports
     /\ pc = "load" => pc' = "load"
  \/ /\ pc' = "idle" /\ bridge.queue # <<>>
     /\ \E r \in Bridges : /\ Moves(s, r, asked) /\ bridge' = Finish(r)
                           /\ Hushed(s, r) \/ Reports

(* A recovery record is a copy of NoRecovery or names its source.          *)
Sourced(s) == s.recovery # NoRecovery => s.recovery.source # NoSource

LEMMA FinishAlike ==
  ASSUME NEW s \in Bridges
  PROVE  Alike(s, Finish(s))
<1> DEFINE op == Head(s.queue)
           rest == Tail(s.queue)
           local == IF op.kind = "play" /\ s.localPlay = op.intent THEN 0
                    ELSE s.localPlay
           outside == s.externalPlay /\ ~(op.kind = "play" /\ op.flag)
           key == IF op.kind = "reassert" /\ s.correction = <<op.intent, op.gen>>
                  THEN NoKey ELSE s.correction
           r == [s EXCEPT !.queue = rest, !.localPlay = local,
                          !.externalPlay = outside, !.correction = key]
<1>1. Finish(s) = r
  BY DEF Finish, Bridges
<1>2. Alike(s, r)
  <2> HIDE DEF rest, local, outside, key
  <2> QED BY DEF Bridges, Alike
<1> HIDE DEF r
<1>3. QED
  BY <1>1, <1>2

LEMMA SameHandles ==
  ASSUME NEW s \in Bridges, NEW asked \in BOOLEAN
  PROVE  Handles(s, s, asked)
BY QuietHandles DEF Quiet, Alike

LEMMA StayReached ==
  ASSUME TypeOK, bridge' = bridge, pc = "load" => pc' = "load", NEW asked \in BOOLEAN
  PROVE  Reached(bridge, asked)
BY TypeParts, SameHandles DEF Reached, Handles

LEMMA ReturnReached ==
  ASSUME TypeOK, bridge.queue # <<>>, NEW r \in Bridges, Return(r),
         Moves(bridge, r, FALSE), Hushed(bridge, r) \/ Reports
  PROVE  Reached(bridge, FALSE)
BY DEF Reached, Return

LEMMA GiveUpReached ==
  ASSUME TypeOK, bridge.queue # <<>>, Return(bridge)
  PROVE  Reached(bridge, FALSE)
BY TypeParts, SameHandles, ReturnReached DEF Handles

LEMMA ExpectingQuiet ==
  ASSUME NEW s \in Bridges
  PROVE  Quiet(s, [s EXCEPT !.expected = "none"])
BY ModeTypes DEF Bridges, Quiet, Alike

LEMMA ReportMoves ==
  ASSUME NEW s \in Bridges, target \in Snapshots
  PROVE  Moves(s, ReportError(s), FALSE)
<1> DEFINE e == [s EXCEPT !.expected = "none"]
           r == Publish(e, target, ModeOf(target), TRUE)
<1>1. Quiet(s, e)
  BY ExpectingQuiet
<1> HIDE DEF e
<1>2. r \in Bridges /\ Moves(e, r, FALSE) /\ e \in Bridges
  BY <1>1, PublishType, PublishHandles, ModeTypes DEF Quiet
<1>3. ReportError(s) = r
  BY DEF ReportError, e
<1> HIDE DEF r
<1>4. Moves(s, e, FALSE) /\ SameRecovery(s, e) /\ e.gen = s.gen /\ e.queue = s.queue
  BY <1>1, QuietHandles DEF Handles, Quiet, Alike, SameRecovery
<1>5. QED
  BY <1>2, <1>3, <1>4, MovesThen

LEMMA QueueReached ==
  ASSUME TypeOK, QueueStep
  PROVE  RecoveryLoaded \/ Reached(bridge, FALSE)
<1> bridge \in Bridges /\ target \in Snapshots /\ Occupied
  BY TypeParts DEF Surroundings
<1>1. CASE StartStale
  BY <1>1, GiveUpReached DEF StartStale
<1>2. CASE StartPeer \/ StartPlay \/ StartReassert \/ StartRecover
  BY <1>2, StayReached DEF StartPeer, StartPlay, StartReassert, StartRecover, Await
<1>3. CASE StartLocalCommand
  <2>1. pc # "load" /\ bridge' = [bridge EXCEPT !.expected = "none"]
    BY <1>3 DEF StartLocalCommand, Await
  <2>2. QED
    BY <2>1, ExpectingQuiet, QuietHandles DEF Reached, Handles, Quiet
<1>4. CASE AuthorizeSuperseded
  BY <1>4, GiveUpReached DEF AuthorizeSuperseded, Occupied
<1>5. CASE PeerPaused
  BY <1>5, GiveUpReached, StayReached DEF PeerPaused, Awaiting, Await, Occupied
<1>6. CASE PeerSought
  <2>1. bridge.queue # <<>> /\ pc # "load"
    BY <1>6 DEF PeerSought, Awaiting, Occupied
  <2>2. Running.mode \in Modes
    BY <2>1, RunningType DEF Operations
  <2>3. \/ bridge' = bridge \/ Return(bridge)
        \/ Return(Acknowledge(bridge, Running.mode))
    BY <1>6 DEF PeerSought, Await
  <2>4. /\ Acknowledge(bridge, Running.mode) \in Bridges
        /\ Handles(bridge, Acknowledge(bridge, Running.mode), FALSE)
    BY <2>2, AcknowledgeType, AcknowledgeHandles
  <2>5. QED
    BY <2>1, <2>3, <2>4, GiveUpReached, StayReached, ReturnReached DEF Handles
<1>7. CASE Played
  <2>1. bridge.queue # <<>> /\ Reports
    BY <1>7 DEF Played, Awaiting, Occupied, Reports
  <2> DEFINE a == Acknowledge(bridge, "playing")
             r == Publish(bridge, target, "playing", TRUE)
  <2>2. Return(bridge) \/ Return(a) \/ Return(r)
    BY <1>7 DEF Played
  <2>3. a \in Bridges /\ r \in Bridges
    BY AcknowledgeType, PublishType, ModeTypes
  <2>4. Moves(bridge, a, FALSE) /\ Moves(bridge, r, FALSE)
    BY AcknowledgeHandles, PublishHandles, ModeTypes DEF Handles
  <2> HIDE DEF a, r
  <2>5. QED
    BY <2>1, <2>2, <2>3, <2>4, GiveUpReached, ReturnReached
<1>8. CASE ExternalPlayHeld
  BY <1>8, GiveUpReached, StayReached DEF ExternalPlayHeld, Awaiting, Occupied
<1>9. CASE PlaybackDenied
  <2> DEFINE e == [bridge EXCEPT !.expected = "none"]
             r == Publish(e, target, "paused", TRUE)
  <2>1. Quiet(bridge, e)
    BY ExpectingQuiet
  <2> HIDE DEF e
  <2>2. r \in Bridges /\ Handles(e, r, FALSE)
    BY <2>1, PublishType, PublishHandles, ModeTypes DEF Quiet
  <2>3. Return(r) /\ bridge.queue # <<>>
    BY <1>9 DEF PlaybackDenied, Awaiting, Occupied, e
  <2> HIDE DEF r
  <2>4. QED
    BY <2>1, <2>2, <2>3, QuietThen, ReturnReached DEF Handles
<1>10. CASE LocalCommandDone
  <2> DEFINE kept == IF bridge.published = "none" THEN ModeOf(target)
                     ELSE bridge.published
             mode == IF Running.kind = "seek" THEN kept ELSE "paused"
             r == Publish(bridge, target, mode, TRUE)
  <2>1. mode \in Modes
    BY ModeTypes DEF Bridges
  <2> HIDE DEF mode
  <2>2. r \in Bridges /\ Moves(bridge, r, FALSE)
    BY <2>1, PublishType, PublishHandles
  <2>3. bridge.queue # <<>> /\ Reports /\ (Return(r) \/ Return(bridge))
    BY <1>10 DEF LocalCommandDone, Awaiting, Occupied, mode, Reports
  <2> HIDE DEF r
  <2>4. QED
    BY <2>2, <2>3, GiveUpReached, ReturnReached
<1>11. CASE ReassertDone
  <2> DEFINE a == Acknowledge(bridge, "paused")
             r == Publish(bridge, target, "paused", FALSE)
  <2>1. /\ a \in Bridges /\ Handles(bridge, a, FALSE)
        /\ r \in Bridges /\ Handles(bridge, r, FALSE)
    BY AcknowledgeType, AcknowledgeHandles, PublishType, PublishHandles, ModeTypes
  <2>2. bridge.queue # <<>> /\ (Return(bridge) \/ Return(a) \/ Return(r))
    BY <1>11 DEF ReassertDone, Awaiting, Occupied
  <2> HIDE DEF a, r
  <2>3. QED
    BY <2>1, <2>2, GiveUpReached, ReturnReached DEF Handles
<1>12. CASE ErrorPaused
  <2> DEFINE r == ReportError(bridge)
  <2>1. r \in Bridges /\ Moves(bridge, r, FALSE)
    BY Reporting, ReportMoves
  <2>2. Return(r) /\ bridge.queue # <<>> /\ Reports
    BY <1>12 DEF ErrorPaused, Awaiting, Occupied, Reports
  <2> HIDE DEF r
  <2>3. QED
    BY <2>1, <2>2, ReturnReached
<1>13. CASE RecoverySuperseded
  BY <1>13, GiveUpReached DEF RecoverySuperseded, Occupied
<1>14. QED
  BY <1>1, <1>2, <1>3, <1>4, <1>5, <1>6, <1>7, <1>8, <1>9, <1>10, <1>11, <1>12,
     <1>13 DEF QueueStep

LEMMA AuthorizationReached ==
  ASSUME TypeOK, Authorization
  PROVE  Reached(bridge, FALSE)
<1> bridge \in Bridges /\ Occupied
  BY TypeParts
<1>1. CASE AuthorizeGranted
  <2>1. /\ bridge.queue # <<>> /\ pc # "load"
        /\ \/ Return(bridge) \/ bridge' = bridge
           \/ bridge' = [bridge EXCEPT !.expected = "none"]
    BY <1>1 DEF AuthorizeGranted, Occupied
  <2>2. bridge' = [bridge EXCEPT !.expected = "none"] => Reached(bridge, FALSE)
    BY <2>1, ExpectingQuiet, QuietHandles DEF Reached, Handles, Quiet
  <2>3. QED
    BY <2>1, <2>2, GiveUpReached, StayReached
<1>2. CASE AuthorizeDenied
  BY <1>2, GiveUpReached, StayReached DEF AuthorizeDenied, Occupied, Await
<1>3. CASE AuthorizeFailed
  BY <1>3, GiveUpReached, StayReached DEF AuthorizeFailed, Occupied, Await
<1>4. QED
  BY <1>1, <1>2, <1>3 DEF Authorization

(* A handler with what allows it to let the decoder play.                  *)
Answers ==
  \E asked \in BOOLEAN : (asked => ghost'.consent) /\ Reached(bridge, asked)

LEMMA HandlerAnswers ==
  ASSUME bridge' \in Bridges, pc' = pc, NEW asked \in BOOLEAN,
         Handles(bridge, bridge', asked), asked => ghost'.consent
  PROVE  Answers
BY DEF Answers, Reached, Handles

LEMMA StayAnswers ==
  ASSUME TypeOK, bridge' = bridge, pc' = pc
  PROVE  Answers
BY StayReached DEF Answers

LEMMA DisposeHandles ==
  ASSUME NEW s \in Bridges
  PROVE  LET r == [NextIntent([s EXCEPT !.recovery = NoRecovery])
                     EXCEPT !.disposed = TRUE, !.gen = @ + 1]
         IN r \in Bridges /\ Handles(s, r, FALSE)
<1> DEFINE c == [s EXCEPT !.recovery = NoRecovery]
           n == NextIntent(c)
           gen == n.gen + 1
           r == [n EXCEPT !.disposed = TRUE, !.gen = gen]
<1>1. /\ c \in Bridges /\ c.intent = s.intent /\ c.queue = s.queue
      /\ c.gen = s.gen /\ c.recovery = NoRecovery /\ c.confirmed = s.confirmed
      /\ c.published = s.published /\ c.told = s.told /\ c.pending = s.pending
      /\ s.intent \in Nat /\ s.gen \in Nat
  BY NoRecoveryType DEF Bridges
<1> HIDE DEF c
<1>2. n \in Bridges /\ Alike(c, n) /\ n.intent = s.intent + 1 /\ n.queue = s.queue
  BY <1>1, NextIntentType, NextIntentAlike, NextIntentGrows
<1> HIDE DEF n
<1>3. gen \in Nat /\ gen = s.gen + 1
  BY <1>1, <1>2 DEF Alike
<1> HIDE DEF gen
<1>4. /\ r \in Bridges /\ r.disposed /\ r.gen = gen /\ r.intent = n.intent
      /\ r.queue = n.queue /\ r.confirmed = n.confirmed
      /\ r.recovery = n.recovery /\ r.published = n.published
      /\ r.told = n.told /\ r.pending = n.pending
  BY <1>2, <1>3 DEF Bridges
<1> HIDE DEF r
<1>5. ~NoRecovery.observedPause
  BY DEF NoRecovery
<1>6. /\ r.gen = s.gen + 1 /\ r.intent = s.intent + 1 /\ r.queue = s.queue
      /\ r.recovery = NoRecovery /\ r.confirmed = s.confirmed /\ r.disposed
      /\ r.published = s.published /\ r.told = s.told /\ r.pending = s.pending
  BY <1>1, <1>2, <1>3, <1>4 DEF Alike
<1>7. Handles(s, r, FALSE)
  <2>1. Spoken(s) => Spoken(r)
    BY <1>6 DEF Spoken
  <2>2. ~Armed(r) /\ Hushed(s, r)
    BY <1>6 DEF Armed, Hushed
  <2>3. r.gen >= s.gen /\ r.intent >= s.intent /\ r.gen # s.gen
    BY <1>1, <1>6
  <2>4. ~r.recovery.observedPause
    BY <1>5, <1>6
  <2>5. QED
    BY <1>6, <2>1, <2>2, <2>3, <2>4 DEF Handles, Moves
<1>8. QED
  BY <1>4, <1>7 DEF r, gen, n, c

LEMMA UserAnswers == ASSUME TypeOK, User PROVE UserLoadDone \/ Answers
<1> bridge \in Bridges /\ target \in Snapshots /\ ghost \in Histories
  BY TypeParts DEF Surroundings
<1>1. CASE UserPlay
  <2>1. /\ bridge' = LocalPlay(bridge, target, FALSE) /\ pc' = pc
        /\ ghost'.consent = TRUE
    BY <1>1 DEF UserPlay, Histories
  <2>2. QED
    BY <2>1, HandlerAnswers, LocalPlayType, LocalPlayHandles
<1>2. CASE UserPause
  BY <1>2, HandlerAnswers, LocalCommandType, LocalCommandHandles DEF UserPause
<1>3. CASE UserSeek
  BY <1>3, HandlerAnswers, LocalCommandType, LocalCommandHandles DEF UserSeek
<1>4. CASE Dispose
  <2>1. /\ pc' = pc
        /\ bridge' = [NextIntent([bridge EXCEPT !.recovery = NoRecovery])
                        EXCEPT !.disposed = TRUE, !.gen = @ + 1]
    BY <1>4 DEF Dispose
  <2>2. QED
    BY <2>1, HandlerAnswers, DisposeHandles
<1>5. CASE \E source \in Sources : UserLoads(source)
  BY <1>5, HandlerAnswers, BeginSourceLoadType, BeginSourceLoadHandles DEF UserLoads
<1>6. CASE UserLoadFails
  BY <1>6, StayAnswers DEF UserLoadFails
<1>7. QED
  BY <1>1, <1>2, <1>3, <1>4, <1>5, <1>6 DEF User

(* The user's load opens the source, and the room hears of it.             *)
UserOpens ==
  /\ loader = "user" /\ loader' = "none" /\ ghost'.consent
  /\ ~bridge.disposed /\ target'.media = target.media /\ target'.conn = "ready"
  /\ Reached(Opening(bridge, target'), FALSE)
  /\ Spoken(bridge') /\ bridge'.pending = bridge.pending

LEMMA UserLoadDoneAnswers ==
  ASSUME TypeOK, UserLoadDone, Spoken(bridge)
  PROVE  (bridge.disposed /\ bridge' = bridge) \/ UserOpens
<1> /\ bridge \in Bridges /\ target \in Snapshots /\ room \in MaybeMode
    /\ ghost \in Histories
  BY TypeParts DEF Surroundings
<1>1. /\ target' \in Snapshots /\ target'.media = target.media
      /\ target'.conn = "ready" /\ pc' = pc
      /\ bridge' = IF bridge.disposed THEN bridge ELSE MarkSourceOpen(bridge, target')
      /\ loader = "user" /\ loader' = "none" /\ ghost'.consent
  BY DEF UserLoadDone, Snapshots, Histories
<1>2. CASE ~bridge.disposed
  <2>1. bridge' \in Bridges
    BY <1>1, <1>2, MarkSourceOpenType
  <2>2. /\ Handles(Opening(bridge, target'), bridge', FALSE)
        /\ Spoken(bridge') /\ bridge'.pending = bridge.pending
    BY <1>1, <1>2, MarkSourceOpenHandles
  <2>3. QED
    BY <1>1, <1>2, <2>1, <2>2 DEF UserOpens, Reached, Handles
<1>3. QED
  BY <1>1, <1>2

(* A handler after the bridge took note of a pause in the room.            *)
LEMMA MovesAfter ==
  ASSUME NEW s \in Bridges, NEW o \in Bridges, NEW r \in Bridges,
         NEW asked \in BOOLEAN, o.queue = s.queue, o.gen = s.gen,
         o.intent = s.intent, o.confirmed = s.confirmed,
         o.disposed = s.disposed, Armed(o) = Armed(s),
         o.recovery = NoRecovery <=> s.recovery = NoRecovery,
         o.recovery.source = s.recovery.source,
         o.recovery.observedPause => s.recovery.observedPause \/ asked,
         Moves(o, r, FALSE), Spoken(s) => Spoken(r)
  PROVE  Moves(s, r, asked)
<1>1. \A op \in Operations : Adds(o, r, op, FALSE) => Adds(s, r, op, asked)
  BY DEF Adds
<1>2. r.queue = s.queue \/ \E op \in Operations : Adds(s, r, op, asked)
  BY <1>1 DEF Moves
<1>3. QED
  BY <1>2 DEF Moves

LEMMA SilencedMoves ==
  ASSUME NEW s \in Bridges, NEW r \in Bridges, NEW asked \in BOOLEAN,
         Moves(s, r, asked)
  PROVE  Moves(s, [r EXCEPT !.pending = FALSE], asked)
<1> DEFINE o == [r EXCEPT !.pending = FALSE]
<1>1. /\ o.queue = r.queue /\ o.gen = r.gen /\ o.intent = r.intent
      /\ o.confirmed = r.confirmed /\ o.disposed = r.disposed
      /\ o.recovery = r.recovery /\ o.published = r.published /\ o.told = r.told
  BY DEF Bridges
<1> HIDE DEF o
<1>2. \A op \in Operations : Adds(s, r, op, asked) => Adds(s, o, op, asked)
  BY <1>1 DEF Adds, Armed
<1>3. Armed(o) = Armed(r) /\ Spoken(o) = Spoken(r)
  BY <1>1 DEF Armed, Spoken
<1>4. o.queue = s.queue \/ \E op \in Operations : Adds(s, o, op, asked)
  BY <1>1, <1>2 DEF Moves
<1>5. Moves(s, o, asked)
  BY <1>1, <1>3, <1>4 DEF Moves
<1>6. QED
  BY <1>5 DEF o

LEMMA RoomStateAnswers ==
  ASSUME TypeOK, NEW mode \in Modes, NEW follow \in BOOLEAN, RoomState(mode, follow)
  PROVE  Answers /\ ~bridge'.pending
<1> bridge \in Bridges /\ target \in Snapshots /\ ghost \in Histories
  BY TypeParts DEF Surroundings
<1> DEFINE rec == [bridge.recovery EXCEPT !.observedPause = TRUE,
                                          !.pendingPlay = FALSE]
           noted == [bridge EXCEPT !.recovery = rec]
           seen == IF /\ ~bridge.disposed /\ bridge.connected
                      /\ bridge.recovery # NoRecovery /\ mode = "paused"
                   THEN [bridge EXCEPT !.recovery.observedPause = TRUE,
                                       !.recovery.pendingPlay = FALSE]
                   ELSE bridge
           heard == [seen EXCEPT !.told = mode]
           peer == OnPeer(heard, target, mode)
           told == IF follow THEN peer ELSE seen
           asked == bridge.connected /\ mode = "paused"
<1>1. /\ bridge' = [told EXCEPT !.pending = FALSE] /\ pc' = pc
      /\ asked => ghost'.consent
  BY DEF RoomState, Histories
<1>2. asked \in BOOLEAN
  BY DEF Bridges
<1>3. /\ rec \in Recoveries /\ rec # NoRecovery
      /\ rec.source = bridge.recovery.source
      /\ rec.attempted = bridge.recovery.attempted
  BY DEF Bridges, Recoveries, NoRecovery
<1>4. noted \in Bridges /\ noted.recovery = rec
      /\ noted.queue = bridge.queue /\ noted.gen = bridge.gen
      /\ noted.intent = bridge.intent /\ noted.confirmed = bridge.confirmed
      /\ noted.disposed = bridge.disposed /\ noted.published = bridge.published
      /\ noted.told = bridge.told
  <2> HIDE DEF rec
  <2> QED BY <1>3 DEF Bridges
<1>5. seen = bridge \/ (seen = noted /\ bridge.recovery # NoRecovery /\ asked)
  BY DEF Bridges
<1> HIDE DEF seen, noted, asked
<1>6. /\ seen \in Bridges
      /\ seen.queue = bridge.queue /\ seen.gen = bridge.gen
      /\ seen.intent = bridge.intent /\ seen.confirmed = bridge.confirmed
      /\ seen.disposed = bridge.disposed /\ seen.published = bridge.published
      /\ seen.told = bridge.told /\ Armed(seen) = Armed(bridge)
      /\ seen.recovery = NoRecovery <=> bridge.recovery = NoRecovery
      /\ seen.recovery.source = bridge.recovery.source
      /\ seen.recovery.observedPause => bridge.recovery.observedPause \/ asked
  <2>1. CASE seen = bridge
    BY <2>1
  <2>2. CASE seen = noted /\ bridge.recovery # NoRecovery /\ asked
    <3> HIDE DEF rec
    <3> QED BY <1>3, <1>4, <2>2 DEF Armed
  <2>3. QED
    BY <1>5, <2>1, <2>2
<1> HIDE DEF rec
<1>7. /\ heard \in Bridges /\ heard.queue = seen.queue /\ heard.gen = seen.gen
      /\ heard.intent = seen.intent /\ heard.confirmed = seen.confirmed
      /\ heard.disposed = seen.disposed /\ heard.published = seen.published
      /\ heard.recovery = seen.recovery
  BY <1>6 DEF Bridges
<1> HIDE DEF heard
<1>8. Armed(heard) = Armed(bridge)
  BY <1>6, <1>7 DEF Armed
<1>9. told \in Bridges /\ Moves(bridge, told, asked)
  <2>1. CASE follow
    <3>1. /\ peer \in Bridges /\ Moves(heard, peer, FALSE)
          /\ ~heard.disposed => Spoken(peer)
      BY <1>7, OnPeerType, OnPeerHandles DEF Handles
    <3>2. bridge.disposed => peer = heard
      BY <1>6, <1>7 DEF OnPeer
    <3> HIDE DEF peer
    <3>3. Spoken(bridge) => Spoken(peer)
      BY <1>6, <1>7, <3>1, <3>2 DEF Spoken
    <3>4. Moves(bridge, peer, asked)
      BY <1>2, <1>6, <1>7, <1>8, <3>1, <3>3, MovesAfter
    <3>5. QED
      BY <2>1, <3>1, <3>4
  <2>2. CASE ~follow
    <3>1. Moves(seen, seen, FALSE)
      BY <1>6, SameHandles DEF Handles
    <3>2. Spoken(bridge) => Spoken(seen)
      BY <1>6 DEF Spoken
    <3>3. Moves(bridge, seen, asked)
      BY <1>2, <1>6, <3>1, <3>2, MovesAfter
    <3>4. QED
      BY <1>6, <2>2, <3>3
  <2>3. QED
    BY <2>1, <2>2
<1> HIDE DEF told
<1>10. bridge' \in Bridges /\ ~bridge'.pending
  BY <1>1, <1>9 DEF Bridges
<1>11. Moves(bridge, bridge', asked)
  BY <1>1, <1>2, <1>9, SilencedMoves
<1>12. Handles(bridge, bridge', asked)
  BY <1>10, <1>11 DEF Handles, Hushed
<1>13. Answers
  BY <1>1, <1>2, <1>10, <1>12, HandlerAnswers
<1>14. QED
  BY <1>10, <1>13

LEMMA SameRecoveryHandles ==
  ASSUME NEW s \in Bridges, NEW o \in Bridges, SameRecovery(s, o),
         o.queue = s.queue, o.gen = s.gen, o.intent = s.intent,
         o.confirmed = s.confirmed, o.disposed = s.disposed,
         o.published = s.published, o.told = s.told, o.pending = s.pending
  PROVE  Handles(s, o, FALSE)
BY DEF Handles, Moves, Hushed, Armed, Spoken, SameRecovery, Bridges

(* What an outage does to the fields of the bridge.                        *)
LEMMA OutageFields ==
  ASSUME NEW s \in Bridges, NEW t \in Snapshots, Sourced(s)
  PROVE  LET o == Outage(s, t)
         IN /\ o.queue = s.queue /\ o.gen = s.gen /\ o.intent = s.intent
            /\ o.confirmed = s.confirmed /\ o.disposed = s.disposed
            /\ o.published = s.published /\ o.told = s.told
            /\ o.pending = s.pending /\ o \in Bridges
            /\ Sourced(o) /\ ~o.recovery.observedPause
            /\ s.recovery # NoRecovery => o.recovery # NoRecovery
            /\ (s.confirmed # NoSource /\ t.media = s.confirmed)
                 => o.recovery # NoRecovery
            /\ (s.confirmed = NoSource /\ s.recovery = NoRecovery)
                 => o.recovery = NoRecovery
<1> DEFINE fresh == [NoRecovery EXCEPT !.source = s.confirmed, !.gen = s.gen]
           again == [s.recovery EXCEPT !.attempted = FALSE, !.reconnected = "no",
                       !.observedPause = FALSE, !.pendingPlay = FALSE]
           forgot == [s.recovery EXCEPT !.observedPause = FALSE,
                                        !.pendingPlay = FALSE]
           Bare(rec) ==
             /\ rec \in Recoveries /\ ~rec.observedPause
             /\ rec # NoRecovery => rec.source # NoSource
             /\ s.recovery # NoRecovery => rec # NoRecovery
             /\ (s.confirmed # NoSource /\ t.media = s.confirmed) => rec # NoRecovery
             /\ (s.confirmed = NoSource /\ s.recovery = NoRecovery) => rec = NoRecovery
<1>1. NoRecovery.source = NoSource /\ ~NoRecovery.observedPause
      /\ NoRecovery \in Recoveries
  BY NoRecoveryType DEF NoRecovery
<1>2. s.recovery \in Recoveries /\ s.confirmed \in Sources \cup {NoSource}
      /\ s.gen \in Nat
  BY DEF Bridges
<1>3. fresh \in Recoveries /\ fresh.source = s.confirmed /\ ~fresh.observedPause
  BY <1>2 DEF Recoveries, NoRecovery
<1>4. again \in Recoveries /\ again.source = s.recovery.source /\ ~again.observedPause
  BY <1>2 DEF Recoveries
<1>5. forgot \in Recoveries /\ forgot.source = s.recovery.source
      /\ ~forgot.observedPause
  BY <1>2 DEF Recoveries
<1>6. Outage(s, t) =
        [(IF /\ s.confirmed # NoSource /\ t.media = s.confirmed
             /\ s.recovery = NoRecovery \/ t.conn = "ready"
          THEN [s EXCEPT !.recovery = fresh]
          ELSE IF /\ s.recovery # NoRecovery
                  /\ s.recovery.gen = s.gen /\ t.media = s.recovery.source
          THEN [s EXCEPT !.recovery = again]
          ELSE IF s.recovery # NoRecovery
          THEN [s EXCEPT !.recovery = forgot]
          ELSE s) EXCEPT !.connected = FALSE]
  BY DEF Outage, Bridges
<1> HIDE DEF fresh, again, forgot
<1>7. /\ (s.confirmed # NoSource /\ t.media = s.confirmed) => Bare(fresh)
      /\ (s.recovery # NoRecovery
            /\ ~(/\ s.confirmed # NoSource /\ t.media = s.confirmed
                 /\ s.recovery = NoRecovery)) => Bare(again) /\ Bare(forgot)
  BY <1>1, <1>3, <1>4, <1>5 DEF Sourced
<1>8. ~(s.confirmed # NoSource /\ t.media = s.confirmed)
        /\ s.recovery = NoRecovery => Bare(s.recovery)
  BY <1>1
<1>9. PICK rec : /\ Bare(rec)
                 /\ Outage(s, t) = [[s EXCEPT !.recovery = rec] EXCEPT !.connected = FALSE]
  <2>1. CASE /\ s.confirmed # NoSource /\ t.media = s.confirmed
             /\ s.recovery = NoRecovery \/ t.conn = "ready"
    BY <1>6, <1>7, <2>1
  <2>2. CASE ~(/\ s.confirmed # NoSource /\ t.media = s.confirmed
               /\ s.recovery = NoRecovery \/ t.conn = "ready")
    <3>1. CASE s.recovery # NoRecovery
      BY <1>6, <1>7, <2>2, <3>1
    <3>2. CASE s.recovery = NoRecovery
      <4>1. s = [s EXCEPT !.recovery = s.recovery]
        BY DEF Bridges
      <4>2. Outage(s, t) = [s EXCEPT !.connected = FALSE]
        BY <1>6, <2>2, <3>2
      <4>3. QED
        BY <1>8, <2>2, <3>2, <4>1, <4>2
    <3>3. QED
      BY <3>1, <3>2
  <2>3. QED
    BY <2>1, <2>2
<1> DEFINE o == [[s EXCEPT !.recovery = rec] EXCEPT !.connected = FALSE]
<1>10. /\ o.queue = s.queue /\ o.gen = s.gen /\ o.intent = s.intent
       /\ o.confirmed = s.confirmed /\ o.disposed = s.disposed
       /\ o.published = s.published /\ o.told = s.told
       /\ o.pending = s.pending /\ o \in Bridges /\ o.recovery = rec
  BY <1>9 DEF Bridges
<1> HIDE DEF o
<1>11. QED
  BY <1>9, <1>10 DEF Sourced, o

(* The link is gone: the recovery is set up, and the decoder is to stop.   *)
Drops ==
  /\ ~bridge.disposed /\ pc' = pc
  /\ bridge' = LocalCommand(Outage(bridge, target), target, "pause")
  /\ Reached(Outage(bridge, target), FALSE)
  /\ Alike(Outage(bridge, target), bridge')

LEMMA LostDrops ==
  ASSUME TypeOK, ConnectionLost, ~bridge.disposed, Sourced(bridge)
  PROVE  Drops
<1> bridge \in Bridges /\ target \in Snapshots
  BY TypeParts DEF Surroundings
<1> DEFINE o == Outage(bridge, target)
           r == LocalCommand(o, target, "pause")
<1>1. pc' = pc /\ bridge' = r
  BY DEF ConnectionLost
<1>2. o \in Bridges
  BY OutageFields
<1> HIDE DEF o
<1>3. r \in Bridges /\ Handles(o, r, FALSE) /\ Alike(o, r)
  BY <1>2, LocalCommandType, LocalCommandHandles
<1> HIDE DEF r
<1>4. QED
  BY <1>1, <1>3 DEF Drops, Reached, Handles, o, r

LEMMA RoomAnswers ==
  ASSUME TypeOK, Room, Sourced(bridge)
  PROVE  (ConnectionLost /\ Drops) \/ Answers
<1> bridge \in Bridges /\ target \in Snapshots
  BY TypeParts DEF Surroundings
<1>1. CASE \E mode \in Modes, follow \in BOOLEAN : RoomState(mode, follow)
  BY <1>1, RoomStateAnswers
<1>2. CASE ConnectionLost
  <2> DEFINE down == [bridge EXCEPT !.connected = FALSE]
  <2>1. CASE bridge.disposed
    <3>1. Quiet(bridge, down)
      BY DEF Bridges, Quiet, Alike
    <3>2. pc' = pc /\ bridge' = down
      BY <1>2, <2>1 DEF ConnectionLost
    <3> HIDE DEF down
    <3>3. QED
      BY <3>1, <3>2, QuietHandles, HandlerAnswers DEF Quiet
  <2>2. CASE ~bridge.disposed
    BY <1>2, <2>2, LostDrops
  <2>3. QED
    BY <2>1, <2>2
<1>3. CASE LoggedIn
  BY <1>3, StayAnswers DEF LoggedIn
<1>4. CASE ConnectionRestored
  <2> DEFINE seen == IF bridge.recovery # NoRecovery /\ bridge.recovery.reconnected = "no"
                     THEN "yes" ELSE bridge.recovery.reconnected
             rec == [bridge.recovery EXCEPT !.reconnected = seen]
             up == [bridge EXCEPT !.connected = TRUE, !.recovery = rec]
             on == [bridge EXCEPT !.connected = TRUE]
             r == RecoverNetworkSource(up, target)
  <2>1. /\ rec \in Recoveries
        /\ rec = NoRecovery <=> bridge.recovery = NoRecovery
        /\ rec.attempted = bridge.recovery.attempted
        /\ rec.source = bridge.recovery.source
        /\ rec.observedPause = bridge.recovery.observedPause
    BY DEF Bridges, Recoveries, NoRecovery
  <2>2. /\ up \in Bridges /\ up.queue = bridge.queue /\ up.gen = bridge.gen
        /\ up.intent = bridge.intent /\ up.confirmed = bridge.confirmed
        /\ up.disposed = bridge.disposed /\ up.published = bridge.published
        /\ up.told = bridge.told /\ up.pending = bridge.pending
        /\ up.recovery = rec
    <3> HIDE DEF rec
    <3> QED BY <2>1 DEF Bridges
  <2>3. Quiet(bridge, on)
    BY DEF Bridges, Quiet, Alike
  <2>4. pc' = pc /\ bridge' \in {on, r}
    BY <1>4 DEF ConnectionRestored, Bridges
  <2> HIDE DEF rec
  <2>5. SameRecovery(bridge, up)
    BY <2>1, <2>2 DEF SameRecovery
  <2> HIDE DEF up, on
  <2>6. Handles(bridge, up, FALSE)
    BY <2>2, <2>5, SameRecoveryHandles
  <2>7. r \in Bridges /\ Handles(up, r, FALSE)
    BY <2>2, RecoverType, RecoverHandles
  <2> HIDE DEF r
  <2>8. Handles(bridge, r, FALSE)
    BY <2>2, <2>5, <2>6, <2>7, HandlesThen
  <2>9. QED
    BY <2>3, <2>4, <2>7, <2>8, QuietHandles, HandlerAnswers DEF Quiet
<1>5. CASE RecoveryWindowEnds
  <2> DEFINE rec == [bridge.recovery EXCEPT !.reconnected = "expired"]
             r == [bridge EXCEPT !.recovery = rec]
  <2>1. pc' = pc /\ bridge' = r
    BY <1>5 DEF RecoveryWindowEnds
  <2>2. /\ rec \in Recoveries /\ rec # NoRecovery /\ bridge.recovery # NoRecovery
        /\ rec.attempted = bridge.recovery.attempted
        /\ rec.source = bridge.recovery.source
        /\ rec.observedPause = bridge.recovery.observedPause
    <3>1. bridge.recovery \in Recoveries /\ bridge.recovery.reconnected = "yes"
      BY <1>5 DEF RecoveryWindowEnds, Bridges
    <3>2. rec \in Recoveries /\ rec.reconnected = "expired"
      BY <3>1 DEF Recoveries
    <3>3. NoRecovery.reconnected = "no"
      BY DEF NoRecovery
    <3>4. QED
      BY <3>1, <3>2, <3>3 DEF Recoveries
  <2>3. /\ r \in Bridges /\ r.queue = bridge.queue /\ r.gen = bridge.gen
        /\ r.intent = bridge.intent /\ r.confirmed = bridge.confirmed
        /\ r.disposed = bridge.disposed /\ r.published = bridge.published
        /\ r.told = bridge.told /\ r.pending = bridge.pending
        /\ r.recovery = rec
    <3> HIDE DEF rec
    <3> QED BY <2>2 DEF Bridges
  <2> HIDE DEF rec
  <2>4. SameRecovery(bridge, r)
    BY <2>2, <2>3 DEF SameRecovery
  <2> HIDE DEF r
  <2>5. Handles(bridge, r, FALSE)
    BY <2>3, <2>4, SameRecoveryHandles
  <2>6. QED
    BY <2>1, <2>3, <2>5, HandlerAnswers
<1>6. QED
  BY <1>1, <1>2, <1>3, <1>4, <1>5 DEF Room

(* Losing audio focus supersedes the operation and tells the room "paused".*)
LEMMA FocusHandles ==
  ASSUME NEW s \in Bridges, NEW t \in Snapshots, HasSource(s, t),
         NEW changed \in BOOLEAN
  PROVE  LET n == [NextIntent(s) EXCEPT !.expected = "none", !.localPlay = 0]
             r == ReassertPause(Publish(n, t, "paused", changed), TRUE)
         IN r \in Bridges /\ Handles(s, r, FALSE)
<1> DEFINE i == NextIntent(s)
           n == [i EXCEPT !.expected = "none", !.localPlay = 0]
           told == Publish(n, t, "paused", changed)
           r == ReassertPause(told, TRUE)
<1>1. i \in Bridges /\ Alike(s, i) /\ i.intent = s.intent + 1 /\ i.queue = s.queue
      /\ s.intent \in Nat /\ ~s.disposed /\ s.confirmed # NoSource
  BY NextIntentType, NextIntentAlike, NextIntentGrows DEF Bridges, HasSource
<1> HIDE DEF i
<1>2. n \in Bridges /\ Alike(i, n) /\ n.intent = i.intent /\ n.queue = i.queue
  BY <1>1, ModeTypes DEF Bridges, Alike
<1> HIDE DEF n
<1>3. Alike(s, n) /\ n.intent >= s.intent /\ n.queue = s.queue
  BY <1>1, <1>2, AlikeChain
<1>4. /\ told \in Bridges /\ Handles(n, told, FALSE) /\ told.queue = n.queue
      /\ told.gen = n.gen /\ told.recovery = n.recovery
      /\ told.disposed = n.disposed /\ told.confirmed = n.confirmed
  <2>1. told \in Bridges /\ Handles(n, told, FALSE)
    BY <1>2, PublishType, PublishHandles, ModeTypes
  <2>2. QED
    BY <1>2, <2>1 DEF Publish, Bridges
<1> HIDE DEF told
<1>5. r \in Bridges /\ Handles(told, r, FALSE) /\ Alike(told, r)
  BY <1>1, <1>3, <1>4, ReassertPauseType, ReassertPauseHandles DEF Alike
<1> HIDE DEF r
<1>6. Handles(n, r, FALSE)
  BY <1>2, <1>4, <1>5, HandlesThen DEF SameRecovery, Alike
<1>7. Handles(s, r, FALSE)
  BY <1>2, <1>3, <1>5, <1>6, AlikeThen
<1>8. QED
  BY <1>5, <1>7 DEF r, told, n, i

LEMMA DecoderAnswers == ASSUME TypeOK, Decoder PROVE Answers
<1> bridge \in Bridges /\ target \in Snapshots /\ ghost \in Histories
  BY TypeParts DEF Surroundings
<1>1. CASE NativeEffect \/ NativePlayingChanges \/ NativeFails
           \/ TransientLoss \/ TransientReturn
  BY <1>1, StayAnswers DEF NativeEffect, NativePlayingChanges, NativeFails,
     NativeChange, TransientLoss, TransientReturn
<1> DEFINE outside == bridge'.externalPlay /\ ~bridge.externalPlay
<1>2. outside \in BOOLEAN
  BY DEF Bridges
<1>3. CASE PlayerEvent
  <2>1. PICK near \in BOOLEAN : bridge' = OnPlayer(bridge, target, near)
    BY <1>3 DEF PlayerEvent
  <2>2. pc' = pc /\ (outside => ghost'.consent)
    BY <1>3 DEF PlayerEvent, Histories
  <2>3. bridge' \in Bridges /\ Handles(bridge, bridge', outside)
    BY <2>1, OnPlayerType, OnPlayerHandles
  <2>4. QED
    BY <1>2, <2>2, <2>3, HandlerAnswers
<1>4. CASE FocusInterruption
  <2> DEFINE changed == bridge.published = "playing" /\ bridge.connected
             n == [NextIntent(bridge) EXCEPT !.expected = "none", !.localPlay = 0]
             r == ReassertPause(Publish(n, target, "paused", changed), TRUE)
  <2>1. pc' = pc /\ bridge' \in {bridge, r} /\ HasSource(bridge, target)
    BY <1>4 DEF FocusInterruption
  <2>2. changed \in BOOLEAN
    BY DEF Bridges
  <2>3. r \in Bridges /\ Handles(bridge, r, FALSE)
    <3> HIDE DEF changed
    <3> QED BY <2>1, <2>2, FocusHandles
  <2> HIDE DEF r
  <2>4. QED
    BY <2>1, <2>3, StayAnswers, HandlerAnswers
<1>5. CASE EchoWindowEnds
  <2>1. pc' = pc /\ bridge' = [bridge EXCEPT !.fresh = FALSE]
    BY <1>5 DEF EchoWindowEnds
  <2>2. Quiet(bridge, bridge')
    BY <2>1 DEF Quiet, Alike, Bridges
  <2>3. QED
    BY <2>1, <2>2, QuietHandles, HandlerAnswers DEF Quiet
<1>6. CASE DeferredPauseFires
  <2> DEFINE s == [bridge EXCEPT !.deferred = NoKey]
             e == [s EXCEPT !.expected = "none"]
             r == OnPlayer(e, target, FALSE)
  <2>1. Quiet(bridge, s)
    BY NoRecoveryType DEF Bridges, Quiet, Alike
  <2>2. /\ pc' = pc
        /\ bridge' = s \/ (bridge' = r /\ ~target.playing)
    BY <1>6 DEF DeferredPauseFires
  <2> HIDE DEF s
  <2>3. Quiet(s, e)
    BY <2>1, ExpectingQuiet DEF Quiet
  <2>4. Quiet(bridge, e) /\ e \in Bridges
    BY <2>1, <2>3, QuietChain DEF Quiet
  <2> HIDE DEF e
  <2>5. CASE bridge' = s
    BY <2>1, <2>2, <2>5, QuietHandles, HandlerAnswers DEF Quiet
  <2>6. CASE bridge' = r /\ ~target.playing
    <3>1. r \in Bridges /\ Handles(e, r, r.externalPlay /\ ~e.externalPlay)
          /\ r.externalPlay = e.externalPlay
      BY <2>4, <2>6, OnPlayerType, OnPlayerHandles
    <3> HIDE DEF r
    <3>2. (r.externalPlay /\ ~e.externalPlay) = FALSE
      BY <3>1
    <3>3. Handles(e, r, FALSE)
      BY <3>1, <3>2
    <3>4. Handles(bridge, r, FALSE)
      BY <2>4, <3>1, <3>3, QuietThen
    <3>5. QED
      BY <2>2, <2>6, <3>1, <3>4, HandlerAnswers
  <2>7. QED
    BY <2>2, <2>5, <2>6
<1>7. CASE BufferTimerFires
  <2> DEFINE s == [bridge EXCEPT !.buffering = FALSE, !.bufferTimer = FALSE]
  <2>1. Quiet(bridge, s) /\ s.externalPlay = bridge.externalPlay /\ s \in Bridges
    BY DEF Bridges, Quiet, Alike
  <2>2. PICK near \in BOOLEAN : bridge' = OnPlayer(s, target, near)
    BY <1>7 DEF BufferTimerFires
  <2>3. pc' = pc /\ (outside => ghost'.consent)
    BY <1>7 DEF BufferTimerFires, Histories
  <2> HIDE DEF s
  <2>4. bridge' \in Bridges /\ Handles(s, bridge', outside)
    BY <2>1, <2>2, OnPlayerType, OnPlayerHandles
  <2> HIDE DEF outside
  <2>5. Handles(bridge, bridge', outside)
    BY <1>2, <2>1, <2>4, QuietThen
  <2>6. QED
    BY <1>2, <2>3, <2>4, <2>5, HandlerAnswers DEF outside
<1>8. QED
  BY <1>1, <1>3, <1>4, <1>5, <1>6, <1>7 DEF Decoder

LEMMA NoRecoverySettles ==
  /\ [NoRecovery EXCEPT !.recovering = FALSE] = NoRecovery
  /\ [NoRecovery EXCEPT !.recovering = FALSE, !.pendingPlay = FALSE] = NoRecovery
<1>1. ASSUME NEW x \in Recoveries, x.recovering = FALSE, x.pendingPlay = FALSE
      PROVE  /\ [x EXCEPT !.recovering = FALSE] = x
             /\ [x EXCEPT !.recovering = FALSE, !.pendingPlay = FALSE] = x
  BY <1>1 DEF Recoveries
<1>2. NoRecovery.recovering = FALSE /\ NoRecovery.pendingPlay = FALSE
  BY DEF NoRecovery
<1>3. QED
  BY <1>1, <1>2, NoRecoveryType

(* A recovery whose load settled no longer counts as recovering.           *)
LEMMA SettledSame ==
  ASSUME NEW s \in Bridges, Sourced(s)
  PROVE  /\ RecoverySettled(s) \in Bridges
         /\ Handles(s, RecoverySettled(s), FALSE)
         /\ SameRecovery(s, RecoverySettled(s))
         /\ RecoverySettled(s).queue = s.queue
         /\ RecoverySettled(s).gen = s.gen
         /\ RecoverySettled(s).pending = s.pending
<1> DEFINE rec == [s.recovery EXCEPT !.recovering = FALSE]
           o == [s EXCEPT !.recovery = rec]
<1>1. NoRecovery.source = NoSource /\ s.recovery \in Recoveries
  BY DEF NoRecovery, Bridges
<1>2. /\ rec \in Recoveries
      /\ rec.attempted = s.recovery.attempted
      /\ rec.source = s.recovery.source
      /\ rec.observedPause = s.recovery.observedPause
  BY <1>1 DEF Recoveries
<1>3. rec = NoRecovery <=> s.recovery = NoRecovery
  <2>1. s.recovery = NoRecovery => rec = NoRecovery
    BY NoRecoverySettles
  <2>2. s.recovery # NoRecovery => rec # NoRecovery
    <3> HIDE DEF rec
    <3> QED BY <1>1, <1>2 DEF Sourced
  <2>3. QED
    BY <2>1, <2>2
<1>4. /\ o \in Bridges /\ o.queue = s.queue /\ o.gen = s.gen
      /\ o.intent = s.intent /\ o.confirmed = s.confirmed
      /\ o.disposed = s.disposed /\ o.published = s.published
      /\ o.told = s.told /\ o.pending = s.pending /\ o.recovery = rec
  <2> HIDE DEF rec
  <2> QED BY <1>2 DEF Bridges
<1>5. RecoverySettled(s) = o
  BY DEF RecoverySettled
<1> HIDE DEF rec
<1>6. SameRecovery(s, o)
  BY <1>2, <1>3, <1>4 DEF SameRecovery
<1> HIDE DEF o
<1>7. QED
  BY <1>4, <1>5, <1>6, SameRecoveryHandles

LEMMA FaultsAnswers ==
  ASSUME TypeOK, Faults, Sourced(bridge)
  PROVE  Answers
<1> bridge \in Bridges /\ target \in Snapshots /\ Occupied
  BY TypeParts DEF Surroundings
<1>0. Handles(bridge, bridge, FALSE)
  BY SameHandles
<1>1. CASE RecoveryFailed
  <2> DEFINE s == RecoverySettled(bridge)
             r == RecoverNetworkSource(s, target')
  <2>1. target' \in Snapshots
    BY <1>1 DEF RecoveryFailed, Snapshots
  <2>2. pc' = "idle" /\ bridge.queue # <<>>
        /\ (bridge' = Finish(bridge) \/ bridge' = Finish(r))
    BY <1>1 DEF RecoveryFailed, Occupied
  <2>3. /\ s \in Bridges /\ Handles(bridge, s, FALSE)
        /\ SameRecovery(bridge, s) /\ s.queue = bridge.queue
        /\ s.gen = bridge.gen /\ s.pending = bridge.pending
    BY SettledSame
  <2> HIDE DEF s
  <2>4. r \in Bridges /\ Handles(s, r, FALSE)
    BY <2>1, <2>3, RecoverType, RecoverHandles
  <2> HIDE DEF r
  <2>5. Handles(bridge, r, FALSE)
    BY <2>3, <2>4, HandlesThen
  <2>6. Reached(bridge, FALSE)
    BY <1>0, <2>2, <2>4, <2>5 DEF Reached, Handles
  <2>7. QED
    BY <2>6 DEF Answers
<1>2. CASE \E late \in BOOLEAN : CommandFails(late)
  <2> DEFINE r == ReportError(bridge)
  <2>1. /\ bridge.queue # <<>> /\ pc # "load"
        /\ \/ bridge' = bridge
           \/ pc' = "idle" /\ bridge' = Finish(bridge)
           \/ pc' = "idle" /\ bridge' = Finish(r) /\ Reports
    BY <1>2 DEF CommandFails, Occupied, Reports
  <2>2. r \in Bridges /\ Moves(bridge, r, FALSE)
    BY Reporting, ReportMoves
  <2> HIDE DEF r
  <2>3. Reached(bridge, FALSE)
    BY <1>0, <2>1, <2>2, StayReached DEF Reached, Handles
  <2>4. QED
    BY <2>3 DEF Answers
<1>3. QED
  BY <1>1, <1>2 DEF Faults

(* The reload has opened its source again.                                 *)
Reopening(s, t) ==
  [s EXCEPT !.confirmed = t.media, !.expected = "none",
            !.recovery.recovering = FALSE, !.recovery.pendingPlay = FALSE]

LEMMA ReopeningFields ==
  ASSUME NEW s \in Bridges, NEW t \in Snapshots, Sourced(s)
  PROVE  LET o == Reopening(s, t)
         IN /\ o \in Bridges /\ o.gen = s.gen /\ o.intent = s.intent
            /\ o.queue = s.queue /\ o.disposed = s.disposed
            /\ o.confirmed = t.media /\ SameRecovery(s, o)
            /\ o.published = s.published /\ o.told = s.told
            /\ o.pending = s.pending /\ o.connected = s.connected
<1> DEFINE rec == [s.recovery EXCEPT !.recovering = FALSE, !.pendingPlay = FALSE]
           o == [s EXCEPT !.confirmed = t.media, !.expected = "none",
                          !.recovery = rec]
<1>1. NoRecovery.source = NoSource /\ s.recovery \in Recoveries
  BY DEF NoRecovery, Bridges
<1>2. /\ rec \in Recoveries
      /\ rec.attempted = s.recovery.attempted
      /\ rec.source = s.recovery.source
      /\ rec.observedPause = s.recovery.observedPause
  BY <1>1 DEF Recoveries
<1>3. rec = NoRecovery <=> s.recovery = NoRecovery
  <2>1. s.recovery = NoRecovery => rec = NoRecovery
    BY NoRecoverySettles
  <2>2. s.recovery # NoRecovery => rec # NoRecovery
    <3> HIDE DEF rec
    <3> QED BY <1>1, <1>2 DEF Sourced
  <2>3. QED
    BY <2>1, <2>2
<1>4. /\ o \in Bridges /\ o.gen = s.gen /\ o.intent = s.intent
      /\ o.queue = s.queue /\ o.disposed = s.disposed
      /\ o.confirmed = t.media /\ o.recovery = rec
      /\ o.published = s.published /\ o.told = s.told
      /\ o.pending = s.pending /\ o.connected = s.connected
  <2> HIDE DEF rec
  <2> QED BY <1>2, ModeTypes DEF Bridges, Snapshots
<1>5. Reopening(s, t) = o
  BY DEF Reopening
<1> HIDE DEF rec, o
<1>6. QED
  BY <1>2, <1>3, <1>4, <1>5 DEF SameRecovery

(* A reload of an earlier source is dropped; one that is still wanted      *)
(* opens the source, which the room hears of as paused.                    *)
Reopens ==
  /\ pc = "load" /\ loader' = "none" /\ ghost' = ghost
  /\ ~bridge.disposed /\ bridge.gen = Running.gen
  /\ target'.media = target.media /\ target'.conn = "ready"
  /\ pc' = "idle" /\ bridge.queue # <<>>
  /\ \E r \in Bridges :
       /\ Moves(Reopening(bridge, target'), r, FALSE)
       /\ Hushed(Reopening(bridge, target'), r)
       /\ Spoken(r) /\ bridge' = Finish(r)

LEMMA RecoveryLoadedAnswers ==
  ASSUME TypeOK, RecoveryLoaded, Sourced(bridge), Spoken(bridge)
  PROVE  Reached(bridge, FALSE) \/ Reopens
<1> bridge \in Bridges /\ target \in Snapshots /\ Occupied
  BY TypeParts DEF Surroundings
<1> DEFINE open == Reopening(bridge, target')
           told == Publish(open, target', "paused", FALSE)
           peer == OnPeer(told, target', "playing")
           stale == bridge.gen # Running.gen \/ bridge.disposed
<1>1. /\ target' \in Snapshots /\ target'.media = target.media
      /\ target'.conn = "ready" /\ pc' = "idle" /\ bridge.queue # <<>>
      /\ pc = "load" /\ loader' = "none" /\ ghost' = ghost
  BY DEF RecoveryLoaded, Snapshots, Occupied
<1>2. /\ stale => bridge' = Finish(bridge)
      /\ ~stale => bridge' = Finish(told) \/ bridge' = Finish(peer)
  BY <1>1 DEF RecoveryLoaded, Reopening
<1>3. CASE stale
  BY <1>1, <1>2, <1>3, SameHandles DEF Reached, Handles
<1>4. CASE ~stale
  <2>1. /\ open \in Bridges /\ open.disposed = bridge.disposed
        /\ open.confirmed = target'.media /\ open.published = bridge.published
        /\ open.told = bridge.told
    BY <1>1, ReopeningFields
  <2> HIDE DEF open
  <2>2. /\ told \in Bridges /\ Handles(open, told, FALSE)
        /\ told.queue = open.queue /\ told.gen = open.gen
        /\ told.recovery = open.recovery /\ told.disposed = open.disposed
        /\ told.pending = open.pending
    <3>1. told \in Bridges /\ Handles(open, told, FALSE)
      BY <1>1, <2>1, PublishType, PublishHandles, ModeTypes
    <3>2. QED
      BY <1>1, <2>1, <3>1 DEF Publish, Bridges
  <2>3. Spoken(told)
    <3>1. CASE HasSource(open, target')
      BY <1>1, <2>1, <3>1, PublishSpoken, ModeTypes
    <3>2. CASE ~HasSource(open, target')
      <4>1. told = open /\ open.confirmed = NoSource
        BY <1>1, <1>4, <2>1, <3>2 DEF Publish, HasSource
      <4>2. QED
        BY <2>1, <4>1 DEF Spoken
    <3>3. QED
      BY <3>1, <3>2
  <2> HIDE DEF told
  <2>4. peer \in Bridges /\ Handles(told, peer, FALSE) /\ Spoken(peer)
    BY <1>1, <1>4, <2>1, <2>2, OnPeerType, OnPeerHandles, ModeTypes
  <2> HIDE DEF peer
  <2>5. Handles(open, peer, FALSE)
    BY <2>1, <2>2, <2>4, HandlesThen DEF SameRecovery
  <2>6. bridge' = Finish(told) \/ bridge' = Finish(peer)
    BY <1>2, <1>4
  <2>7. QED
    BY <1>1, <1>4, <2>2, <2>3, <2>4, <2>5, <2>6 DEF Reopens, Handles, open
<1>5. QED
  BY <1>3, <1>4

(* What a step of the bridge amounts to.                                   *)
LEMMA StepAnswers ==
  ASSUME TypeOK, Next, Sourced(bridge), Spoken(bridge)
  PROVE  Answers \/ UserOpens \/ Reopens \/ (ConnectionLost /\ Drops)
<1>1. Reached(bridge, FALSE) => Answers
  BY DEF Answers
<1>2. CASE QueueStep \/ Authorization
  BY <1>1, <1>2, QueueReached, RecoveryLoadedAnswers, AuthorizationReached
<1>3. CASE User
  <2>1. CASE UserLoadDone
    <3>1. pc' = pc
      BY <2>1 DEF UserLoadDone
    <3>2. QED
      BY <2>1, <3>1, UserLoadDoneAnswers, StayAnswers
  <2>2. QED
    BY <1>3, <2>1, UserAnswers
<1>4. CASE Room \/ Decoder \/ Faults
  BY <1>4, RoomAnswers, DecoderAnswers, FaultsAnswers
<1>5. QED
  BY <1>2, <1>3, <1>4 DEF Next

-----------------------------------------------------------------------------
(* A network source is reopened once for every outage.  The account: what  *)
(* has been reopened, the recovery that may still be used up, and the      *)
(* reload that is queued and has not begun, are paid for by the outages.   *)

(* The queued reloads that would still run.                                *)
Due(s) == {n \in DOMAIN s.queue : s.queue[n].kind = "recover" /\ s.queue[n].gen = s.gen}

(* No operation is of a source to come, and at most one reload is due.     *)
Dated(s) == \A n \in DOMAIN s.queue : s.queue[n].gen <= s.gen
Single(s) == \A m \in Due(s), n \in Due(s) : m = n

(* started: the operation at the head is a reload in progress.             *)
Waiting(s, started) == \E n \in Due(s) : ~(started /\ n = 1)

Owed(s, started) ==
  (IF Armed(s) THEN 1 ELSE 0) + (IF Waiting(s, started) THEN 1 ELSE 0)

Account ==
  /\ Dated(bridge) /\ Single(bridge)
  /\ ghost.reloads + Owed(bridge, pc = "load") <= ghost.outages

LEMMA OwedLess ==
  ASSUME NEW s, NEW a \in BOOLEAN, NEW o, NEW b \in BOOLEAN,
         Armed(o) => Armed(s), Waiting(o, b) => Waiting(s, a)
  PROVE  Owed(o, b) \in Nat /\ Owed(s, a) \in Nat /\ Owed(o, b) <= Owed(s, a)
BY DEF Owed

LEMMA SameLedger ==
  ASSUME NEW s, NEW o, o.queue = s.queue, o.gen = s.gen, NEW started \in BOOLEAN
  PROVE  /\ Dated(o) = Dated(s) /\ Single(o) = Single(s)
         /\ Waiting(o, started) = Waiting(s, started)
BY DEF Dated, Single, Waiting, Due

LEMMA QueueType ==
  ASSUME NEW s \in Bridges
  PROVE  /\ s.gen \in Nat /\ s.intent \in Nat /\ s.queue \in Seq(Operations)
         /\ \A n \in DOMAIN s.queue : /\ s.queue[n] \in Operations
                                     /\ s.queue[n].gen \in Nat
                                     /\ s.queue[n].intent \in Nat
<1>1. s.gen \in Nat /\ s.intent \in Nat /\ s.queue \in Seq(Operations)
  BY DEF Bridges
<1>2. \A n \in DOMAIN s.queue : s.queue[n] \in Operations
  BY <1>1
<1>3. QED
  BY <1>1, <1>2 DEF Operations

(* An operation that joins the queue.                                      *)
LEMMA AddsLedger ==
  ASSUME NEW s \in Bridges, NEW r \in Bridges, NEW started \in BOOLEAN,
         NEW asked \in BOOLEAN, NEW op \in Operations, Adds(s, r, op, asked),
         r.gen >= s.gen, Armed(r) => Armed(s), Dated(s), Single(s)
  PROVE  Dated(r) /\ Single(r) /\ Owed(r, started) <= Owed(s, started)
<1> DEFINE len == Len(s.queue)
<1>1. /\ s.queue \in Seq(Operations) /\ s.gen \in Nat /\ r.gen \in Nat
      /\ \A n \in 1..len : s.queue[n].gen \in Nat
  BY QueueType
<1>2. /\ len \in Nat /\ DOMAIN s.queue = 1..len /\ DOMAIN r.queue = 1..(len + 1)
      /\ \A n \in 1..len : r.queue[n] = s.queue[n]
      /\ r.queue[len + 1] = op
  BY <1>1 DEF Adds
<1> HIDE DEF len
<1>3. op.gen = r.gen
  BY DEF Adds
<1>4. Dated(r)
  <2>1. \A n \in 1..len : s.queue[n].gen <= r.gen
    BY <1>1, <1>2 DEF Dated
  <2>2. QED
    BY <1>1, <1>2, <1>3, <2>1 DEF Dated
<1>5. r.gen > s.gen => \A n \in 1..len : n \notin Due(r)
  <2> SUFFICES ASSUME r.gen > s.gen, NEW n \in 1..len, n \in Due(r) PROVE FALSE
    OBVIOUS
  <2>1. s.queue[n].gen <= s.gen /\ s.queue[n].gen \in Nat
    BY <1>1, <1>2 DEF Dated
  <2>2. s.queue[n].gen = r.gen
    <3>1. r.queue[n].gen = r.gen
      BY DEF Due
    <3>2. r.queue[n] = s.queue[n]
      BY <1>2
    <3>3. QED
      BY <3>1, <3>2
  <2>3. QED
    BY <1>1, <2>1, <2>2
<1>6. CASE op.kind = "recover"
  <2>1. r.gen > s.gen /\ Armed(s) /\ ~Armed(r)
    BY <1>6 DEF Adds
  <2>2. \A n \in Due(r) : n = len + 1
    BY <1>2, <1>5, <2>1 DEF Due
  <2>3. QED
    BY <1>4, <2>1, <2>2 DEF Single, Owed
<1>7. CASE op.kind # "recover"
  <2>1. len + 1 \notin Due(r)
    BY <1>2, <1>7 DEF Due
  <2>2. r.gen = s.gen => Due(r) = Due(s)
    BY <1>2, <2>1 DEF Due
  <2>3. r.gen > s.gen => Due(r) = {}
    BY <1>2, <1>5, <2>1 DEF Due
  <2>4. Due(r) = {} \/ Due(r) = Due(s)
    BY <1>1, <2>2, <2>3
  <2>5. Single(r) /\ (Waiting(r, started) => Waiting(s, started))
    BY <2>4 DEF Single, Waiting
  <2>6. QED
    BY <1>4, <2>5 DEF Owed
<1>8. QED
  BY <1>6, <1>7

LEMMA MovesLedger ==
  ASSUME NEW s \in Bridges, NEW r \in Bridges, NEW started \in BOOLEAN,
         NEW asked \in BOOLEAN, Moves(s, r, asked), Dated(s), Single(s)
  PROVE  Dated(r) /\ Single(r) /\ Owed(r, started) <= Owed(s, started)
<1>1. r.gen >= s.gen /\ (Armed(r) => Armed(s)) /\ r.gen \in Nat /\ s.gen \in Nat
  BY DEF Moves, Bridges
<1>2. CASE \E op \in Operations : Adds(s, r, op, asked)
  BY <1>1, <1>2, AddsLedger
<1>3. CASE r.queue = s.queue
  <2>1. \A n \in DOMAIN s.queue : s.queue[n].gen \in Nat
    BY QueueType
  <2>2. Dated(r)
    BY <1>1, <1>3, <2>1 DEF Dated
  <2>3. Due(r) = {} \/ Due(r) = Due(s)
    <3>1. CASE r.gen = s.gen
      BY <1>3, <3>1 DEF Due
    <3>2. CASE r.gen > s.gen
      BY <1>1, <1>3, <2>1, <3>2 DEF Dated, Due
    <3>3. QED
      BY <1>1, <3>1, <3>2
  <2>4. Single(r) /\ (Waiting(r, started) => Waiting(s, started))
    BY <2>3 DEF Single, Waiting
  <2>5. QED
    BY <1>1, <2>2, <2>4 DEF Owed
<1>4. QED
  BY <1>2, <1>3 DEF Moves

(* An operation that ends.                                                 *)
LEMMA FinishLedger ==
  ASSUME NEW s \in Bridges, s.queue # <<>>, NEW started \in BOOLEAN,
         Dated(s), Single(s)
  PROVE  /\ Dated(Finish(s)) /\ Single(Finish(s))
         /\ Waiting(Finish(s), FALSE) => Waiting(s, started)
         /\ Armed(Finish(s)) = Armed(s)
<1> DEFINE f == Finish(s)
<1>1. /\ f \in Bridges /\ f.queue = Tail(s.queue) /\ f.gen = s.gen
      /\ f.recovery = s.recovery /\ s.queue \in Seq(Operations)
  BY FinishType, FinishAlike, QueueType DEF Alike
<1> HIDE DEF f
<1>2. \A n \in DOMAIN f.queue : /\ n + 1 \in DOMAIN s.queue /\ n \in Nat \ {0}
                                /\ f.queue[n] = s.queue[n + 1]
  BY <1>1
<1>3. Dated(f)
  BY <1>1, <1>2 DEF Dated
<1>4. \A n \in Due(f) : n \in Nat \ {0} /\ n + 1 \in Due(s)
  BY <1>1, <1>2 DEF Due
<1>5. Single(f)
  <2> SUFFICES ASSUME NEW m \in Due(f), NEW n \in Due(f) PROVE m = n
    BY DEF Single
  <2>1. m \in Nat /\ n \in Nat /\ m + 1 = n + 1
    BY <1>4 DEF Single
  <2>2. QED
    BY <2>1
<1>6. Waiting(f, FALSE) => Waiting(s, started)
  <2> SUFFICES ASSUME NEW n \in Due(f) PROVE Waiting(s, started)
    BY DEF Waiting
  <2>1. n + 1 \in Due(s) /\ n + 1 # 1
    BY <1>4
  <2>2. QED
    BY <2>1 DEF Waiting
<1>7. Armed(f) = Armed(s)
  BY <1>1 DEF Armed
<1>8. QED
  BY <1>3, <1>5, <1>6, <1>7 DEF f

LEMMA MovesNonempty ==
  ASSUME NEW s \in Bridges, NEW r \in Bridges, NEW asked \in BOOLEAN,
         Moves(s, r, asked), s.queue # <<>>
  PROVE  r.queue # <<>>
<1>1. s.queue \in Seq(Operations)
  BY QueueType
<1>2. \A op \in Operations : Append(s.queue, op) # <<>>
  BY <1>1
<1>3. QED
  BY <1>2 DEF Moves, Adds

LEMMA ReachedLedger ==
  ASSUME TypeOK, NEW s \in Bridges, s.queue = bridge.queue, Dated(s), Single(s),
         NEW asked \in BOOLEAN, Reached(s, asked)
  PROVE  /\ Dated(bridge') /\ Single(bridge')
         /\ Owed(bridge', pc' = "load") <= Owed(s, pc = "load")
<1> DEFINE started == pc = "load"
<1>1. started \in BOOLEAN
  OBVIOUS
<1>2. CASE bridge' \in Bridges /\ Moves(s, bridge', asked) /\ (pc = "load" => pc' = "load")
  <2>1. /\ Dated(bridge') /\ Single(bridge')
        /\ Owed(bridge', started) <= Owed(s, started)
    BY <1>1, <1>2, MovesLedger
  <2>2. Waiting(bridge', pc' = "load") => Waiting(bridge', started)
    BY <1>2 DEF Waiting
  <2> DEFINE later == pc' = "load"
  <2>3. later \in BOOLEAN
    OBVIOUS
  <2>4. Waiting(bridge', later) => Waiting(bridge', started)
    BY <2>2
  <2> HIDE DEF started, later
  <2>5. /\ Owed(bridge', later) \in Nat /\ Owed(bridge', started) \in Nat
        /\ Owed(bridge', later) <= Owed(bridge', started)
        /\ Owed(s, started) \in Nat
    BY <1>1, <2>3, <2>4, OwedLess
  <2>6. Owed(bridge', later) <= Owed(s, started)
    BY <2>1, <2>5
  <2>7. QED
    BY <2>1, <2>6 DEF later, started
<1>3. CASE /\ pc' = "idle" /\ bridge.queue # <<>>
           /\ \E r \in Bridges : Moves(s, r, asked) /\ bridge' = Finish(r)
  <2>1. PICK r \in Bridges : Moves(s, r, asked) /\ bridge' = Finish(r)
    BY <1>3
  <2>2. Dated(r) /\ Single(r) /\ Owed(r, started) <= Owed(s, started)
    BY <1>1, <2>1, MovesLedger
  <2>3. r.queue # <<>>
    BY <1>3, <2>1, MovesNonempty
  <2>4. /\ Dated(bridge') /\ Single(bridge') /\ Armed(bridge') = Armed(r)
        /\ Waiting(bridge', FALSE) => Waiting(r, started)
    BY <1>1, <2>1, <2>2, <2>3, FinishLedger
  <2> DEFINE later == pc' = "load"
  <2>5. later = FALSE
    BY <1>3
  <2> HIDE DEF started, later
  <2>6. /\ Owed(bridge', later) \in Nat /\ Owed(r, started) \in Nat
        /\ Owed(bridge', later) <= Owed(r, started) /\ Owed(s, started) \in Nat
    BY <1>1, <2>4, <2>5, OwedLess
  <2>7. Owed(bridge', later) <= Owed(s, started)
    BY <2>2, <2>6
  <2>8. QED
    BY <2>4, <2>7 DEF started, later
<1>4. QED
  BY <1>2, <1>3 DEF Reached

(* A change of what the ledger and the notes look at, one at a time.       *)
LEMMA SourcedMoves ==
  ASSUME NEW s, NEW r, NEW asked, Moves(s, r, asked), Sourced(s)
  PROVE  Sourced(r)
BY DEF Moves, Sourced

LEMMA AlikeNotes ==
  ASSUME NEW s, NEW r, Alike(s, r)
  PROVE  Sourced(r) = Sourced(s) /\ Spoken(r) = Spoken(s) /\ Armed(r) = Armed(s)
BY DEF Alike, Sourced, Spoken, Armed

LEMMA ReachedNotes ==
  ASSUME NEW s \in Bridges, NEW asked \in BOOLEAN, Reached(s, asked), Sourced(s)
  PROVE  Sourced(bridge') /\ (Spoken(s) => Spoken(bridge'))
<1>1. CASE Moves(s, bridge', asked)
  BY <1>1, SourcedMoves DEF Moves
<1>2. CASE \E r \in Bridges : Moves(s, r, asked) /\ bridge' = Finish(r)
  <2>1. PICK r \in Bridges : Moves(s, r, asked) /\ bridge' = Finish(r)
    BY <1>2
  <2>2. Sourced(r) /\ (Spoken(s) => Spoken(r))
    BY <2>1, SourcedMoves DEF Moves
  <2>3. QED
    BY <2>1, <2>2, FinishAlike, AlikeNotes
<1>3. QED
  BY <1>1, <1>2 DEF Reached

(* What is remembered of a recovery and of the room stays consistent.      *)
Notes == Sourced(bridge) /\ Spoken(bridge)

LEMMA SnapshotStep ==
  ASSUME TypeOK, Next
  PROVE  bridge \in Bridges /\ target \in Snapshots /\ target' \in Snapshots
<1>1. bridge \in Bridges /\ target \in Snapshots
  BY TypeParts DEF Surroundings
<1>2. target' \in Snapshots
  BY TypeStep DEF TypeOK, Snapshots
<1>3. QED
  BY <1>1, <1>2

LEMMA NotesStep ==
  ASSUME TypeOK, Next, Notes
  PROVE  Notes'
<1> bridge \in Bridges /\ target \in Snapshots /\ target' \in Snapshots
  BY SnapshotStep
<1> USE DEF Notes
<1>1. CASE Answers
  BY <1>1, ReachedNotes DEF Answers
<1>2. CASE UserOpens
  <2> DEFINE o == Opening(bridge, target')
  <2>1. o \in Bridges /\ o.recovery = bridge.recovery
    BY OpeningFields
  <2>2. Reached(o, FALSE) /\ Spoken(bridge')
    BY <1>2 DEF UserOpens
  <2> HIDE DEF o
  <2>3. Sourced(o)
    BY <2>1 DEF Sourced
  <2>4. QED
    BY <2>1, <2>2, <2>3, ReachedNotes
<1>3. CASE Reopens
  <2> DEFINE o == Reopening(bridge, target')
  <2>1. o \in Bridges /\ SameRecovery(bridge, o)
    BY ReopeningFields
  <2>2. PICK r \in Bridges : Moves(o, r, FALSE) /\ Spoken(r) /\ bridge' = Finish(r)
    BY <1>3 DEF Reopens
  <2> HIDE DEF o
  <2>3. Sourced(o)
    BY <2>1 DEF Sourced, SameRecovery
  <2>4. Sourced(r)
    BY <2>2, <2>3, SourcedMoves
  <2>5. QED
    BY <2>2, <2>4, FinishAlike, AlikeNotes
<1>4. CASE Drops
  <2> DEFINE o == Outage(bridge, target)
  <2>1. o \in Bridges /\ Sourced(o) /\ o.published = bridge.published
        /\ o.told = bridge.told /\ o.disposed = bridge.disposed
        /\ o.confirmed = bridge.confirmed
    BY OutageFields
  <2>2. Reached(o, FALSE)
    BY <1>4 DEF Drops
  <2> HIDE DEF o
  <2>3. Spoken(o)
    BY <2>1 DEF Spoken
  <2>4. QED
    BY <2>1, <2>2, <2>3, ReachedNotes
<1>5. QED
  BY <1>1, <1>2, <1>3, <1>4, StepAnswers

(* Reloads begin one by one, and outages are counted as they happen.       *)
LEMMA LedgerHistory ==
  ASSUME TypeOK, Next
  PROVE  \/ StartRecover
         \/ /\ ghost'.reloads = ghost.reloads
            /\ \/ ghost'.outages = ghost.outages
               \/ ghost'.outages = ghost.outages + 1
            /\ ConnectionLost => ghost'.outages = ghost.outages + 1
<1> ghost \in Histories /\ ghost.outages \in Nat
  BY TypeParts DEF Surroundings, Histories
<1>1. CASE ConnectionLost
  BY <1>1 DEF ConnectionLost, Histories
<1>2. CASE ~ConnectionLost
  <2>1. CASE QueueStep
    BY <1>2, <2>1 DEF QueueStep, StartStale, StartPeer, StartPlay, StartLocalCommand,
       StartReassert, AuthorizeSuperseded, PeerPaused, PeerSought, Played,
       ExternalPlayHeld, PlaybackDenied, LocalCommandDone, ReassertDone,
       ErrorPaused, RecoveryLoaded, RecoverySuperseded, Return, Await
  <2>2. CASE Authorization
    BY <1>2, <2>2 DEF Authorization, AuthorizeGranted, AuthorizeDenied,
       AuthorizeFailed, Return, Await, Histories
  <2>3. CASE User
    BY <1>2, <2>3 DEF User, UserPlay, UserPause, UserSeek, Dispose, UserLoads,
       UserLoadDone, UserLoadFails, Histories
  <2>4. CASE Room
    BY <1>2, <2>4 DEF Room, RoomState, LoggedIn, ConnectionRestored,
       RecoveryWindowEnds, Histories
  <2>5. CASE Decoder
    BY <1>2, <2>5 DEF Decoder, NativeEffect, NativePlayingChanges, NativeFails,
       NativeChange, TransientLoss, TransientReturn, PlayerEvent,
       FocusInterruption, EchoWindowEnds, DeferredPauseFires, BufferTimerFires,
       Histories
  <2>6. CASE Faults
    BY <1>2, <2>6 DEF Faults, RecoveryFailed, CommandFails, Histories
  <2>7. QED
    BY <2>1, <2>2, <2>3, <2>4, <2>5, <2>6 DEF Next
<1>3. QED
  BY <1>1, <1>2

(* What the change does to the account, but for the counters.              *)
LEMMA LedgerStep ==
  ASSUME TypeOK, Next, Notes, Account
  PROVE  /\ Dated(bridge') /\ Single(bridge')
         /\ \/ Owed(bridge', pc' = "load") <= Owed(bridge, pc = "load")
            \/ /\ ConnectionLost
               /\ Owed(bridge', pc' = "load") <= Owed(bridge, pc = "load") + 1
<1> bridge \in Bridges /\ target \in Snapshots /\ target' \in Snapshots
  BY SnapshotStep
<1> USE DEF Account, Notes
<1> DEFINE started == pc = "load"
           later == pc' = "load"
<1>0. started \in BOOLEAN /\ later \in BOOLEAN
  OBVIOUS
<1>1. CASE Answers
  BY <1>1, ReachedLedger DEF Answers
<1>2. ASSUME NEW o \in Bridges, o.queue = bridge.queue, o.gen = bridge.gen,
             Armed(o) => Armed(bridge)
      PROVE  Dated(o) /\ Single(o) /\ Owed(o, started) <= Owed(bridge, started)
  BY <1>0, <1>2, SameLedger, OwedLess
<1>3. ASSUME NEW o \in Bridges, o.queue = bridge.queue, o.gen = bridge.gen,
             Armed(o) => Armed(bridge), Reached(o, FALSE)
      PROVE  /\ Dated(bridge') /\ Single(bridge')
             /\ Owed(bridge', later) <= Owed(bridge, started)
  <2>1. Dated(o) /\ Single(o) /\ Owed(o, started) <= Owed(bridge, started)
    BY <1>2, <1>3
  <2>2. /\ Dated(bridge') /\ Single(bridge')
        /\ Owed(bridge', later) <= Owed(o, started)
    BY <1>3, <2>1, ReachedLedger
  <2> HIDE DEF started, later
  <2>3. /\ Owed(bridge', later) \in Nat /\ Owed(o, started) \in Nat
        /\ Owed(bridge, started) \in Nat
    BY <1>0, OwedLess
  <2>4. QED
    BY <2>1, <2>2, <2>3
<1>4. CASE UserOpens
  <2> DEFINE o == Opening(bridge, target')
  <2>1. o \in Bridges /\ o.queue = bridge.queue /\ o.gen = bridge.gen
        /\ o.recovery = bridge.recovery
    BY OpeningFields
  <2>2. Reached(o, FALSE)
    BY <1>4 DEF UserOpens
  <2> HIDE DEF o
  <2>3. QED
    BY <1>3, <2>1, <2>2 DEF Armed
<1>5. CASE Reopens
  <2> DEFINE o == Reopening(bridge, target')
  <2>1. o \in Bridges /\ o.queue = bridge.queue /\ o.gen = bridge.gen
        /\ SameRecovery(bridge, o)
    BY ReopeningFields
  <2>2. Reached(o, FALSE)
    BY <1>5 DEF Reopens, Reached
  <2> HIDE DEF o
  <2>3. QED
    BY <1>3, <2>1, <2>2 DEF Armed, SameRecovery
<1>6. CASE ConnectionLost /\ Drops
  <2> DEFINE o == Outage(bridge, target)
  <2>1. o \in Bridges /\ o.queue = bridge.queue /\ o.gen = bridge.gen
    BY OutageFields
  <2>2. Reached(o, FALSE)
    BY <1>6 DEF Drops
  <2> HIDE DEF o
  <2>3. /\ Dated(o) /\ Single(o)
        /\ Waiting(o, started) = Waiting(bridge, started)
    BY <1>0, <2>1, SameLedger
  <2>4. /\ Dated(bridge') /\ Single(bridge')
        /\ Owed(bridge', later) <= Owed(o, started)
    BY <2>1, <2>2, <2>3, ReachedLedger
  <2> HIDE DEF started, later
  <2>5. Owed(o, started) <= Owed(bridge, started) + 1
    BY <2>3 DEF Owed
  <2>6. /\ Owed(bridge', later) \in Nat /\ Owed(o, started) \in Nat
        /\ Owed(bridge, started) \in Nat
    BY <1>0, OwedLess
  <2>7. Owed(bridge', later) <= Owed(bridge, started) + 1
    BY <2>4, <2>5, <2>6
  <2>8. QED
    BY <1>6, <2>4, <2>7 DEF started, later
<1>7. QED
  BY <1>1, <1>3, <1>4, <1>5, <1>6, StepAnswers

(* The reload that begins is the one that was due.                         *)
LEMMA StartRecoverLedger ==
  ASSUME TypeOK, Account, StartRecover
  PROVE  Account'
<1> bridge \in Bridges /\ ghost \in Histories
  BY TypeParts DEF Surroundings
<1>1. /\ bridge' = bridge /\ pc = "idle" /\ pc' = "load" /\ bridge.queue # <<>>
      /\ Running.kind = "recover" /\ bridge.gen = Running.gen
      /\ ghost'.reloads = ghost.reloads + 1 /\ ghost'.outages = ghost.outages
  BY DEF StartRecover, Histories
<1>2. 1 \in DOMAIN bridge.queue /\ Running = bridge.queue[1]
  BY <1>1, QueueType DEF Running
<1>3. 1 \in Due(bridge)
  BY <1>1, <1>2 DEF Due
<1>4. /\ \A n \in Due(bridge) : n = 1
      /\ Dated(bridge)
      /\ ghost.reloads + Owed(bridge, pc = "load") <= ghost.outages
      /\ Single(bridge)
  BY <1>3 DEF Account, Single
<1> DEFINE one == IF Armed(bridge) THEN 1 ELSE 0
<1>5. Owed(bridge, pc = "load") = one + 1
  <2>1. Waiting(bridge, pc = "load")
    BY <1>1, <1>3 DEF Waiting
  <2>2. QED
    BY <2>1 DEF Owed
<1>6. Owed(bridge', pc' = "load") = one
  <2>1. ~Waiting(bridge', pc' = "load")
    BY <1>1, <1>4 DEF Waiting
  <2>2. Armed(bridge') = Armed(bridge)
    BY <1>1
  <2>3. QED
    BY <2>1, <2>2 DEF Owed
<1>7. ghost.reloads \in Nat /\ ghost.outages \in Nat /\ one \in Nat
  BY DEF Histories
<1> HIDE DEF one
<1>8. ghost'.reloads + Owed(bridge', pc' = "load") <= ghost'.outages
  BY <1>1, <1>4, <1>5, <1>6, <1>7
<1>9. Dated(bridge') /\ Single(bridge')
  BY <1>1, <1>4
<1>10. QED
  BY <1>8, <1>9 DEF Account

AccountInv == TypeOK /\ Notes /\ Account

LEMMA AccountInit == Init => AccountInv
<1> SUFFICES ASSUME Init PROVE AccountInv
  OBVIOUS
<1>1. /\ bridge.queue = <<>> /\ bridge.recovery = NoRecovery
      /\ bridge.confirmed = NoSource /\ bridge.published = "none"
      /\ ghost.reloads = 0 /\ ghost.outages = 0
  BY DEF Init
<1>2. Notes
  BY <1>1 DEF Notes, Sourced, Spoken
<1>3. ~Armed(bridge) /\ Due(bridge) = {} /\ Dated(bridge)
  BY <1>1 DEF Armed, Due, Dated
<1>4. Single(bridge) /\ ~Waiting(bridge, pc = "load")
  BY <1>3 DEF Single, Waiting
<1>5. Owed(bridge, pc = "load") = 0
  BY <1>3, <1>4 DEF Owed
<1>6. QED
  BY <1>1, <1>2, <1>3, <1>4, <1>5, TypeInit DEF AccountInv, Account

LEMMA AccountStep == ASSUME AccountInv, Next PROVE AccountInv'
<1> USE DEF AccountInv
<1>1. TypeOK' /\ Notes'
  BY TypeStep, NotesStep
<1>2. CASE StartRecover
  BY <1>1, <1>2, StartRecoverLedger
<1>3. CASE ~StartRecover
  <2> DEFINE before == Owed(bridge, pc = "load")
             after == Owed(bridge', pc' = "load")
  <2>1. /\ Dated(bridge') /\ Single(bridge')
        /\ after <= before \/ (ConnectionLost /\ after <= before + 1)
    BY LedgerStep
  <2>2. /\ ghost'.reloads = ghost.reloads
        /\ \/ ghost'.outages = ghost.outages
           \/ ghost'.outages = ghost.outages + 1
        /\ ConnectionLost => ghost'.outages = ghost.outages + 1
    BY <1>3, LedgerHistory
  <2>3. ghost.reloads + before <= ghost.outages
    BY DEF Account
  <2>4. ghost.reloads \in Nat /\ ghost.outages \in Nat
    BY TypeParts DEF Surroundings, Histories
  <2>5. before \in Nat /\ after \in Nat
    BY DEF Owed
  <2> HIDE DEF before, after
  <2>6. ghost'.reloads + after <= ghost'.outages
    BY <2>1, <2>2, <2>3, <2>4, <2>5
  <2>7. QED
    BY <1>1, <2>1, <2>6 DEF Account, after
<1>4. QED
  BY <1>2, <1>3

(* On every step, what the recovery owes is covered by the outages, its    *)
(* record names its source, and the room was told what is published.       *)
THEOREM AccountStands == Spec => []AccountInv
<1>1. AccountInv /\ [Next]_vars => AccountInv'
  <2>1. ASSUME AccountInv, UNCHANGED vars PROVE AccountInv'
    <3>1. TypeOK'
      BY <2>1, TypeStutter DEF AccountInv
    <3>2. bridge' = bridge /\ pc' = pc /\ ghost' = ghost
      BY <2>1 DEF vars
    <3>3. QED
      BY <2>1, <3>1, <3>2 DEF AccountInv, Notes, Account
  <2>2. QED
    BY <2>1, AccountStep
<1>2. QED
  BY <1>1, AccountInit, PTL DEF Spec

(* Whatever the outages, the failures and the user do, the phone has not   *)
(* reopened its source more often than the link went down: reloads that    *)
(* were made, one that waits in the queue, and a recovery that still may   *)
(* queue one are each paid for by an outage of their own.                  *)
THEOREM ReloadsAreBounded == Spec => []OneReloadPerOutage
<1>1. AccountInv => OneReloadPerOutage
  <2> SUFFICES ASSUME AccountInv PROVE OneReloadPerOutage
    OBVIOUS
  <2> DEFINE owed == Owed(bridge, pc = "load")
  <2>1. owed \in Nat
    BY DEF Owed
  <2>2. ghost.reloads + owed <= ghost.outages
    BY DEF AccountInv, Account
  <2>3. ghost.reloads \in Nat /\ ghost.outages \in Nat
    BY TypeParts DEF AccountInv, Surroundings, Histories
  <2> HIDE DEF owed
  <2>4. QED
    BY <2>1, <2>2, <2>3 DEF OneReloadPerOutage
<1>2. QED
  BY <1>1, AccountStands, PTL

-----------------------------------------------------------------------------
(* A start of this phone's own.  Every handler that makes the room hear a  *)
(* change of this phone's own tells it "paused", but for a play that was   *)
(* granted; a seek repeats what the room was told.                         *)
Begins ==
  /\ pc # "errorPause" /\ ~bridge.pending /\ bridge'.pending
  /\ bridge.told = "paused" /\ bridge'.told = "playing"

LEMMA HushedNeverBegins ==
  ASSUME NEW s, s.pending = bridge.pending, NEW r,
         Hushed(s, r), bridge'.pending = r.pending, bridge'.told = r.told
  PROVE  ~Begins
BY DEF Hushed, Begins

LEMMA BeginsComesFrom ==
  ASSUME TypeOK, Next, Notes, Begins
  PROVE  Played \/ LocalCommandDone \/ PlaybackDenied
<1> bridge \in Bridges /\ target \in Snapshots /\ target' \in Snapshots
  BY SnapshotStep
<1> USE DEF Notes
<1>1. CASE Answers
  <2>1. PICK asked \in BOOLEAN : Reached(bridge, asked)
    BY <1>1 DEF Answers
  <2>2. CASE Hushed(bridge, bridge')
    BY <2>2, HushedNeverBegins
  <2>3. CASE \E r \in Bridges : Hushed(bridge, r) /\ bridge' = Finish(r)
    BY <2>3, FinishAlike, HushedNeverBegins DEF Alike
  <2>4. CASE Reports
    BY <2>4 DEF Reports, Begins
  <2>5. QED
    BY <2>1, <2>2, <2>3, <2>4 DEF Reached
<1>2. CASE UserOpens
  BY <1>2 DEF UserOpens, Begins
<1>3. CASE Reopens
  <2> DEFINE o == Reopening(bridge, target')
  <2>1. o.pending = bridge.pending
    BY ReopeningFields
  <2>2. PICK r \in Bridges : Hushed(o, r) /\ bridge' = Finish(r)
    BY <1>3 DEF Reopens
  <2> HIDE DEF o
  <2>3. QED
    BY <2>1, <2>2, FinishAlike, HushedNeverBegins DEF Alike
<1>4. CASE Drops
  <2>1. Outage(bridge, target).pending = bridge.pending
    BY OutageFields
  <2>2. QED
    BY <1>4, <2>1 DEF Drops, Alike, Begins
<1>5. QED
  BY <1>1, <1>2, <1>3, <1>4, StepAnswers

(* Publishing changes what the room was told only with a source open.      *)
LEMMA PublishBegins ==
  ASSUME NEW s \in Bridges, NEW t \in Snapshots, NEW mode \in Modes,
         NEW changed \in BOOLEAN
  PROVE  LET r == Publish(s, t, mode, changed)
         IN r = s \/ (HasSource(s, t) /\ r \in Bridges /\ r.told = mode)
<1>1. Publish(s, t, mode, changed) \in Bridges
  BY PublishType
<1>2. QED
  BY <1>1 DEF Publish, Bridges

LEMMA BeginsGranted ==
  ASSUME TypeOK, Next, Notes, GrantHolds, Begins
  PROVE  ghost.granted = bridge.intent
<1> bridge \in Bridges /\ target \in Snapshots
  BY SnapshotStep
<1>1. /\ bridge.told = "paused" /\ bridge'.told = "playing"
      /\ ~bridge.pending /\ bridge'.pending
  BY DEF Begins
<1>2. ASSUME NEW r \in Bridges, bridge' = Finish(r)
      PROVE  r.told = "playing" /\ r.pending
  BY <1>1, <1>2, FinishAlike DEF Alike
<1>3. CASE Played
  <2> DEFINE a == Acknowledge(bridge, "playing")
             r == Publish(bridge, target, "playing", TRUE)
  <2>1. a \in Bridges /\ r \in Bridges
    BY AcknowledgeType, PublishType, ModeTypes
  <2>2. a.pending = bridge.pending
    BY DEF Acknowledge, Bridges
  <2>3. /\ pc = "play"
        /\ \/ bridge' = Finish(bridge) \/ bridge' = Finish(a)
           \/ RunningIsCurrent /\ bridge' = Finish(r)
    BY <1>3 DEF Played, Return, Awaiting
  <2> HIDE DEF a, r
  <2>4. bridge' # Finish(bridge) /\ bridge' # Finish(a)
    BY <1>1, <1>2, <2>1, <2>2
  <2>5. QED
    BY <2>3, <2>4 DEF GrantHolds, OnTheWay, RunningIsCurrent, Current
<1>4. CASE LocalCommandDone
  <2> DEFINE kept == IF bridge.published = "none" THEN ModeOf(target)
                     ELSE bridge.published
             mode == IF Running.kind = "seek" THEN kept ELSE "paused"
             r == Publish(bridge, target, mode, TRUE)
  <2>1. bridge' = Finish(bridge) \/ (RunningIsCurrent /\ bridge' = Finish(r))
    BY <1>4 DEF LocalCommandDone, Return
  <2>2. bridge' # Finish(bridge)
    BY <1>1, <1>2
  <2>3. ~bridge.disposed /\ bridge.confirmed # NoSource
    BY <2>1, <2>2 DEF RunningIsCurrent, Current, HasSource
  <2>4. bridge.published = "paused"
    BY <1>1, <2>3 DEF Notes, Spoken
  <2>5. mode = "paused"
    BY <2>4
  <2> HIDE DEF mode
  <2>6. r \in Bridges /\ r.told = "paused"
    BY <1>1, <2>5, PublishBegins, ModeTypes
  <2> HIDE DEF r
  <2>7. QED
    BY <1>2, <2>1, <2>2, <2>6
<1>5. CASE PlaybackDenied
  <2> DEFINE e == [bridge EXCEPT !.expected = "none"]
             r == Publish(e, target, "paused", TRUE)
  <2>1. e \in Bridges /\ e.told = "paused"
    BY <1>1, ModeTypes DEF Bridges
  <2>2. bridge' = Finish(r)
    BY <1>5 DEF PlaybackDenied, Return
  <2> HIDE DEF e
  <2>3. r \in Bridges /\ r.told = "paused"
    BY <2>1, PublishBegins, ModeTypes
  <2> HIDE DEF r
  <2>4. QED
    BY <1>2, <2>2, <2>3
<1>6. QED
  BY <1>3, <1>4, <1>5, BeginsComesFrom

(* A change to "playing" that this phone reports as its own, other than    *)
(* the report of a failed command, follows a granted allowance of the      *)
(* bridge's present intent.                                                *)
THEOREM OwnStartNeedsGrant == Spec => OwnStartIsGranted
<1>1. GrantInv /\ AccountInv /\ [Next]_vars =>
        [Begins => ghost.granted = bridge.intent]_vars
  BY BeginsGranted DEF GrantInv, AccountInv
<1>2. QED
  BY <1>1, GrantStands, AccountStands, PTL DEF Spec, OwnStartIsGranted, Begins

-----------------------------------------------------------------------------
(* Reconnecting never resumes playback by itself.  The argument needs a    *)
(* target that opens nothing without a load, so that a source the bridge   *)
(* has confirmed is one the decoder has open or has seen fail: from here   *)
(* on, ~Transient.                                                         *)

(* A confirmed source is the one the decoder has, open or failed.          *)
Confirmed(s, t) ==
  /\ s.confirmed \in {NoSource, t.media}
  /\ s.confirmed # NoSource => t.conn \in {"ready", "failed"}

(* While no source is confirmed, nothing but a reload is queued for it.    *)
Unopened(s) ==
  s.confirmed = NoSource =>
    \A n \in DOMAIN s.queue : s.queue[n].gen = s.gen => s.queue[n].kind = "recover"

(* A reload that has not begun belongs to a recovery without a source.     *)
Reloading(s, started) ==
  Waiting(s, started) => s.recovery # NoRecovery /\ s.confirmed = NoSource

(* A load by the user ended whatever recovery there was.                   *)
Fresh(s, by) == by = "user" => s.recovery = NoRecovery

(* After an outage without consent, the recovery holds every Play back.    *)
Holding(s, consent) ==
  \/ consent
  \/ /\ s.recovery # NoRecovery \/ s.confirmed = NoSource
     /\ ~s.recovery.observedPause

(* Nothing queued would start a decoder that has the source open.          *)
Mute(s) ==
  \A n \in DOMAIN s.queue :
    ~(/\ Starts(s.queue[n]) /\ s.queue[n].intent = s.intent
      /\ s.queue[n].gen = s.gen)

Silent(s, t, by, consent, started) ==
  /\ Confirmed(s, t) /\ Unopened(s) /\ Reloading(s, started)
  /\ Fresh(s, by) /\ Holding(s, consent)
  /\ consent \/ t.conn = "failed" \/ Mute(s)

(* The queue is no newer than the bridge.                                  *)
Aged(s) ==
  /\ Dated(s)
  /\ \A n \in DOMAIN s.queue : s.queue[n].intent <= s.intent

LEMMA MovesElements ==
  ASSUME NEW s \in Bridges, NEW r \in Bridges, NEW asked \in BOOLEAN,
         Moves(s, r, asked), NEW n \in DOMAIN r.queue
  PROVE  \/ n \in DOMAIN s.queue /\ r.queue[n] = s.queue[n]
         \/ Adds(s, r, r.queue[n], asked)
<1>1. s.queue \in Seq(Operations)
  BY QueueType
<1>2. ASSUME NEW op \in Operations, Adds(s, r, op, asked)
      PROVE  (n \in DOMAIN s.queue /\ r.queue[n] = s.queue[n]) \/ r.queue[n] = op
  <2>1. r.queue = Append(s.queue, op)
    BY <1>2 DEF Adds
  <2>2. QED
    BY <1>1, <2>1
<1>3. QED
  BY <1>2 DEF Moves

(* An operation that is current after a handler was so before.             *)
LEMMA AgedElements ==
  ASSUME NEW s \in Bridges, NEW r \in Bridges, Aged(s),
         r.gen >= s.gen, r.intent >= s.intent, NEW n \in DOMAIN s.queue
  PROVE  /\ s.queue[n].gen = r.gen => r.gen = s.gen
         /\ s.queue[n].intent = r.intent => r.intent = s.intent
<1>1. /\ s.queue[n].gen \in Nat /\ s.queue[n].intent \in Nat
      /\ s.gen \in Nat /\ s.intent \in Nat /\ r.gen \in Nat /\ r.intent \in Nat
  BY QueueType
<1>2. s.queue[n].gen <= s.gen /\ s.queue[n].intent <= s.intent
  BY DEF Aged, Dated
<1>3. QED
  BY <1>1, <1>2

LEMMA SilentMoves ==
  ASSUME NEW s \in Bridges, NEW r \in Bridges, NEW t \in Snapshots, NEW by,
         NEW before \in BOOLEAN, NEW after \in BOOLEAN, NEW started \in BOOLEAN,
         NEW asked \in BOOLEAN, Silent(s, t, by, before, started), Aged(s),
         ~r.disposed, Moves(s, r, asked), asked => after, before => after
  PROVE  Silent(r, t, by, after, started)
<1>1. /\ r.gen >= s.gen /\ r.intent >= s.intent
      /\ r.gen = s.gen => r.confirmed = s.confirmed
      /\ r.gen # s.gen => r.confirmed = NoSource
      /\ r.recovery # NoRecovery => s.recovery # NoRecovery
      /\ r.recovery = NoRecovery =>
           s.recovery = NoRecovery \/ r.gen # s.gen \/ (asked /\ s.confirmed # NoSource)
      /\ r.recovery.observedPause => s.recovery.observedPause \/ asked
  BY DEF Moves
<1>2. ASSUME NEW n \in DOMAIN r.queue
      PROVE  \/ /\ n \in DOMAIN s.queue /\ r.queue[n] = s.queue[n]
                /\ s.queue[n].gen = r.gen => r.gen = s.gen
                /\ s.queue[n].intent = r.intent => r.intent = s.intent
             \/ Adds(s, r, r.queue[n], asked)
  <2>1. CASE n \in DOMAIN s.queue /\ r.queue[n] = s.queue[n]
    BY <1>1, <2>1, AgedElements
  <2>2. QED
    BY <2>1, MovesElements
<1>3. Confirmed(r, t) /\ Fresh(r, by)
  BY <1>1 DEF Silent, Confirmed, Fresh
<1>4. Unopened(r)
  <2> SUFFICES ASSUME r.confirmed = NoSource, NEW n \in DOMAIN r.queue,
                      r.queue[n].gen = r.gen
               PROVE  r.queue[n].kind = "recover"
    BY DEF Unopened
  <2>1. CASE Adds(s, r, r.queue[n], asked)
    BY <2>1 DEF Adds
  <2>2. CASE n \in DOMAIN s.queue /\ r.queue[n] = s.queue[n] /\ r.gen = s.gen
    BY <1>1, <2>2 DEF Silent, Unopened
  <2>3. QED
    BY <1>2, <2>1, <2>2
<1>5. Reloading(r, started)
  <2> SUFFICES ASSUME NEW n \in Due(r), ~(started /\ n = 1)
               PROVE  r.recovery # NoRecovery /\ r.confirmed = NoSource
    BY DEF Reloading, Waiting
  <2>1. n \in DOMAIN r.queue /\ r.queue[n].kind = "recover" /\ r.queue[n].gen = r.gen
    BY DEF Due
  <2>2. CASE Adds(s, r, r.queue[n], asked)
    <3>1. r.gen > s.gen /\ r.recovery # NoRecovery
      BY <2>1, <2>2 DEF Adds
    <3>2. r.gen \in Nat /\ s.gen \in Nat
      BY QueueType
    <3>3. QED
      BY <1>1, <3>1, <3>2
  <2>3. CASE n \in DOMAIN s.queue /\ r.queue[n] = s.queue[n] /\ r.gen = s.gen
    <3>1. n \in Due(s)
      BY <2>1, <2>3 DEF Due
    <3>2. s.recovery # NoRecovery /\ s.confirmed = NoSource
      BY <3>1 DEF Silent, Reloading, Waiting
    <3>3. QED
      BY <1>1, <2>3, <3>2
  <2>4. QED
    BY <1>2, <2>1, <2>2, <2>3
<1>6. Holding(r, after)
  BY <1>1 DEF Silent, Holding
<1>7. after \/ t.conn = "failed" \/ Mute(r)
  <2> SUFFICES ASSUME ~after, t.conn # "failed", NEW n \in DOMAIN r.queue,
                      Starts(r.queue[n]), r.queue[n].intent = r.intent,
                      r.queue[n].gen = r.gen
               PROVE  FALSE
    BY DEF Mute
  <2>1. /\ Mute(s) /\ ~asked /\ ~s.recovery.observedPause
        /\ s.recovery # NoRecovery \/ s.confirmed = NoSource
    BY DEF Silent, Holding
  <2>2. CASE Adds(s, r, r.queue[n], asked)
    <3>1. s.recovery = NoRecovery /\ r.queue[n].kind # "recover"
      BY <2>1, <2>2 DEF Adds, Starts
    <3>2. r.confirmed # NoSource
      BY <2>2, <3>1 DEF Adds
    <3>3. QED
      BY <1>1, <2>1, <3>1, <3>2
  <2>3. CASE /\ n \in DOMAIN s.queue /\ r.queue[n] = s.queue[n]
             /\ r.gen = s.gen /\ r.intent = s.intent
    BY <2>1, <2>3 DEF Mute
  <2>4. QED
    BY <1>2, <2>2, <2>3
<1>8. QED
  BY <1>3, <1>4, <1>5, <1>6, <1>7 DEF Silent

(* The end of an operation, which may be the reload that opened the source.*)
LEMMA SilentFinish ==
  ASSUME NEW s \in Bridges, NEW t, NEW by, NEW consent \in BOOLEAN,
         NEW started \in BOOLEAN, s.queue # <<>>, Dated(s), Single(s),
         Silent(s, t, by, consent, started)
  PROVE  Silent(Finish(s), t, by, consent, FALSE)
<1> DEFINE f == Finish(s)
<1>1. /\ f \in Bridges /\ f.queue = Tail(s.queue) /\ f.gen = s.gen
      /\ f.intent = s.intent /\ f.recovery = s.recovery
      /\ f.confirmed = s.confirmed /\ s.queue \in Seq(Operations)
      /\ Waiting(f, FALSE) => Waiting(s, started)
  BY FinishType, FinishAlike, FinishLedger, QueueType DEF Alike
<1> HIDE DEF f
<1>2. \A n \in DOMAIN f.queue : n + 1 \in DOMAIN s.queue /\ f.queue[n] = s.queue[n + 1]
  BY <1>1
<1>3. Confirmed(f, t) /\ Fresh(f, by) /\ Holding(f, consent)
  BY <1>1 DEF Silent, Confirmed, Fresh, Holding
<1>4. Unopened(f) /\ (Mute(s) => Mute(f))
  BY <1>1, <1>2 DEF Silent, Unopened, Mute
<1>5. Reloading(f, FALSE)
  BY <1>1 DEF Silent, Reloading
<1>6. Silent(f, t, by, consent, FALSE)
  BY <1>3, <1>4, <1>5 DEF Silent
<1>7. QED
  BY <1>6 DEF f

(* A handler, or what an operation does at its end.                        *)
LEMMA SilentReached ==
  ASSUME TypeOK, NEW s \in Bridges, NEW t \in Snapshots, NEW by,
         NEW before \in BOOLEAN, NEW after \in BOOLEAN, NEW asked \in BOOLEAN,
         s.queue = bridge.queue, Aged(s), Single(s),
         Silent(s, t, by, before, FALSE), Reached(s, asked),
         asked => after, before => after, ~bridge'.disposed
  PROVE  Silent(bridge', t, by, after, FALSE)
<1>1. CASE bridge' \in Bridges /\ Moves(s, bridge', asked)
  BY <1>1, SilentMoves
<1>2. CASE /\ bridge.queue # <<>>
           /\ \E r \in Bridges : Moves(s, r, asked) /\ bridge' = Finish(r)
  <2>1. PICK r \in Bridges : Moves(s, r, asked) /\ bridge' = Finish(r)
    BY <1>2
  <2>2. ~r.disposed
    BY <2>1, FinishAlike DEF Alike
  <2>3. Silent(r, t, by, after, FALSE)
    BY <2>1, <2>2, SilentMoves
  <2>4. Dated(r) /\ Single(r) /\ r.queue # <<>>
    BY <1>2, <2>1, MovesLedger, MovesNonempty DEF Aged
  <2>5. QED
    BY <2>1, <2>3, <2>4, SilentFinish
<1>3. QED
  BY <1>1, <1>2 DEF Reached

(* A load in progress keeps the decoder loading.                           *)
Loading == loader # "none" => target.conn = "loading"

(* Around the bridge: the decoder keeps its medium, and opens it only when *)
(* it was loading.                                                         *)
Elsewhere ==
  /\ target'.media = target.media
  /\ \/ target'.conn = target.conn \/ target'.conn = "failed"
     \/ target.conn = "loading" /\ target'.conn = "ready"
  /\ loader' = "user" => loader = "user"

LEMMA SilentElsewhere ==
  ASSUME NEW s, NEW consent, NEW started, Elsewhere,
         Silent(s, target, loader, consent, started)
  PROVE  Silent(s, target', loader', consent, started)
<1>1. Confirmed(s, target') /\ Fresh(s, loader')
  BY DEF Silent, Confirmed, Fresh, Elsewhere
<1>2. consent \/ target'.conn = "failed" \/ Mute(s)
  BY DEF Silent, Elsewhere
<1>3. QED
  BY <1>1, <1>2 DEF Silent

LEMMA WorldStep ==
  ASSUME TypeOK, Next, Loading, ~Transient
  PROVE  /\ Loading'
         /\ Elsewhere \/ StartRecover \/ \E source \in Sources : UserLoads(source)
<1> target \in Snapshots /\ loader \in {"none", "user", "recover"}
  BY TypeParts DEF Surroundings
<1> USE DEF Loading
<1>1. CASE target' = target /\ loader' = loader
  BY <1>1 DEF Elsewhere
<1>2. CASE StartRecover
  BY <1>2 DEF StartRecover, Snapshots
<1>3. CASE RecoveryLoaded
  BY <1>3 DEF RecoveryLoaded, Elsewhere, Snapshots
<1>4. CASE QueueStep
  <2>1. RecoveryLoaded \/ StartRecover \/ (target' = target /\ loader' = loader)
    BY <1>4 DEF QueueStep, StartStale, StartPeer, StartPlay, StartLocalCommand,
       StartReassert, AuthorizeSuperseded, PeerPaused, PeerSought, Played,
       ExternalPlayHeld, PlaybackDenied, LocalCommandDone, ReassertDone,
       ErrorPaused, RecoverySuperseded, OutsideQueue
  <2>2. QED
    BY <1>1, <1>2, <1>3, <2>1
<1>5. CASE Authorization
  BY <1>1, <1>5 DEF Authorization, AuthorizeGranted, AuthorizeDenied,
     AuthorizeFailed, OutsideQueue
<1>6. CASE User
  <2>1. CASE \E source \in Sources : UserLoads(source)
    <3>1. target'.conn = "loading"
      BY <2>1 DEF UserLoads
    <3>2. QED
      BY <2>1, <3>1
  <2>2. CASE UserLoadDone
    BY <2>2 DEF UserLoadDone, Elsewhere, Snapshots
  <2>3. CASE UserLoadFails
    BY <2>3 DEF UserLoadFails, Elsewhere, Snapshots
  <2>4. CASE UserPlay \/ UserPause \/ UserSeek \/ Dispose
    BY <1>1, <2>4 DEF UserPlay, UserPause, UserSeek, Dispose
  <2>5. QED
    BY <1>6, <2>1, <2>2, <2>3, <2>4 DEF User
<1>7. CASE Room
  BY <1>1, <1>7 DEF Room, RoomState, ConnectionLost, LoggedIn, ConnectionRestored,
     RecoveryWindowEnds
<1>8. CASE Decoder
  <2>1. CASE NativeEffect
    BY <2>1 DEF NativeEffect, Elsewhere, Snapshots
  <2>2. ASSUME NEW t \in Snapshots, NativeChange(t), t.media = target.media,
               t.conn = target.conn \/ t.conn = "failed"
        PROVE  Loading' /\ Elsewhere
    BY <2>2 DEF NativeChange, Elsewhere
  <2>3. CASE NativePlayingChanges
    BY <2>2, <2>3 DEF NativePlayingChanges, Snapshots
  <2>4. CASE NativeFails
    BY <2>2, <2>4 DEF NativeFails, Snapshots
  <2>5. CASE FocusInterruption
    BY <2>5 DEF FocusInterruption, Elsewhere, Snapshots
  <2>6. CASE PlayerEvent \/ EchoWindowEnds \/ DeferredPauseFires \/ BufferTimerFires
    BY <1>1, <2>6 DEF PlayerEvent, EchoWindowEnds, DeferredPauseFires, BufferTimerFires
  <2>7. QED
    BY <1>8, <2>1, <2>3, <2>4, <2>5, <2>6 DEF Decoder, TransientLoss, TransientReturn
<1>9. CASE Faults
  <2>1. CASE RecoveryFailed
    BY <2>1 DEF RecoveryFailed, Elsewhere, Snapshots
  <2>2. QED
    BY <1>1, <1>9, <2>1 DEF Faults, CommandFails
<1>10. QED
  BY <1>4, <1>5, <1>6, <1>7, <1>8, <1>9 DEF Next

(* Only an outage takes consent away.                                      *)
LEMMA ConsentStep ==
  ASSUME TypeOK, Next, ~ConnectionLost
  PROVE  ghost.consent => ghost'.consent
<1> ghost \in Histories
  BY TypeParts DEF Surroundings
<1>1. CASE QueueStep
  BY <1>1 DEF QueueStep, StartStale, StartPeer, StartPlay, StartLocalCommand,
     StartReassert, StartRecover, AuthorizeSuperseded, PeerPaused, PeerSought,
     Played, ExternalPlayHeld, PlaybackDenied, LocalCommandDone, ReassertDone,
     ErrorPaused, RecoveryLoaded, RecoverySuperseded, Return, Await, Histories
<1>2. CASE Authorization
  BY <1>2 DEF Authorization, AuthorizeGranted, AuthorizeDenied,
     AuthorizeFailed, Return, Await, Histories
<1>3. CASE User
  BY <1>3 DEF User, UserPlay, UserPause, UserSeek, Dispose, UserLoads,
     UserLoadDone, UserLoadFails, Histories
<1>4. CASE Room
  BY <1>4 DEF Room, RoomState, LoggedIn, ConnectionRestored,
     RecoveryWindowEnds, Histories
<1>5. CASE Decoder
  BY <1>5 DEF Decoder, NativeEffect, NativePlayingChanges, NativeFails,
     NativeChange, TransientLoss, TransientReturn, PlayerEvent,
     FocusInterruption, EchoWindowEnds, DeferredPauseFires, BufferTimerFires,
     Histories
<1>6. CASE Faults
  BY <1>6 DEF Faults, RecoveryFailed, CommandFails, Histories
<1>7. QED
  BY <1>1, <1>2, <1>3, <1>4, <1>5, <1>6 DEF Next

(* What kind of operation waits where.                                     *)
At ==
  /\ pc \in {"auth", "externalPause", "play", "deny"} => Starts(Running)
  /\ pc \in {"pause", "seek", "errorPause"} => Running.kind = "peer"
  /\ pc = "command" => Running.kind \in {"pause", "seek", "reassert"}
  /\ pc = "load" => Running.kind = "recover"

LEMMA AtStep ==
  ASSUME TypeOK, Sorted, Next, At
  PROVE  At'
<1> Occupied /\ bridge \in Bridges
  BY TypeParts
<1>1. CASE pc' = "idle"
  BY <1>1 DEF At
<1>2. CASE pc' \in {"auth", "externalPause", "pause", "seek", "play", "command", "deny",
                    "errorPause", "load"}
  <2>1. Keeps
    BY <1>2, StepEffect DEF Ends
  <2>2. bridge.queue # <<>>
    BY <1>2, <2>1 DEF Keeps, Occupied
  <2>3. Running' = Running
    BY <2>1, <2>2, KeptHead
  <2>4. CASE pc' = pc
    BY <2>3, <2>4 DEF At
  <2>5. CASE pc' # pc
    <3>1. ~(User \/ Room \/ Decoder)
      BY <2>5 DEF User, UserPlay, UserPause, UserSeek, Dispose, UserLoads,
         UserLoadDone, UserLoadFails, Room, RoomState, ConnectionLost, LoggedIn,
         ConnectionRestored, RecoveryWindowEnds, Decoder, NativeEffect,
         NativePlayingChanges, NativeFails, NativeChange, TransientLoss,
         TransientReturn, PlayerEvent, FocusInterruption, EchoWindowEnds,
         DeferredPauseFires, BufferTimerFires
    <3>2. CASE Faults
      <4>1. pc' = "errorPause" /\ Running.kind = "peer"
        BY <1>2, <2>5, <3>2 DEF Faults, RecoveryFailed, CommandFails
      <4>2. QED
        BY <2>3, <4>1 DEF At
    <3>3. CASE Authorization
      <4>1. /\ pc = "auth"
            /\ \/ pc' \in {"pause", "errorPause"} /\ Running.kind = "peer"
               \/ pc' \in {"play", "deny"}
        BY <1>2, <3>3 DEF Authorization, AuthorizeGranted, AuthorizeDenied,
           AuthorizeFailed, Return, Await
      <4>2. QED
        BY <2>3, <4>1 DEF At
    <3>4. CASE QueueStep
      <4>1. \/ StartPeer \/ StartPlay \/ StartRecover \/ PeerPaused
            \/ ExternalPlayHeld \/ StartLocalCommand \/ StartReassert \/ PeerSought
        BY <1>2, <2>5, <3>4 DEF QueueStep, StartStale, AuthorizeSuperseded, Played,
           PlaybackDenied, LocalCommandDone, ReassertDone, ErrorPaused, RecoveryLoaded,
           RecoverySuperseded, Return, Await
      <4>2. CASE StartPeer
        BY <2>3, <4>2 DEF StartPeer, Await, At, Starts
      <4>3. CASE StartPlay
        BY <2>3, <4>3 DEF StartPlay, Await, At, Starts
      <4>4. CASE StartRecover
        BY <2>3, <4>4 DEF StartRecover, At
      <4>5. CASE PeerPaused
        BY <1>2, <2>3, <4>5 DEF PeerPaused, Awaiting, Await, Return, At
      <4>6. CASE ExternalPlayHeld
        BY <1>2, <2>3, <4>6 DEF ExternalPlayHeld, Awaiting, Return, At
      <4>7. CASE StartLocalCommand \/ StartReassert
        BY <2>3, <4>7 DEF StartLocalCommand, StartReassert, Await, At
      <4>8. CASE PeerSought
        BY <1>2, <2>3, <4>8 DEF PeerSought, Awaiting, Await, Return, At, Starts
      <4>9. QED
        BY <4>1, <4>2, <4>3, <4>4, <4>5, <4>6, <4>7, <4>8
    <3>5. QED
      BY <3>1, <3>2, <3>3, <3>4 DEF Next
  <2>6. QED
    BY <2>4, <2>5
<1>3. pc' \in Places
  BY TypeStep DEF TypeOK, Places
<1>4. QED
  BY <1>1, <1>2, <1>3 DEF Places

-----------------------------------------------------------------------------
(* Everything the argument needs of one state.                             *)
Silence ==
  /\ Loading
  /\ \/ bridge.disposed
     \/ Silent(bridge, target, loader, ghost.consent, FALSE)

LEMMA AgedBridge ==
  ASSUME Sorted, Account
  PROVE  Aged(bridge) /\ Single(bridge)
BY DEF Sorted, Account, Aged

(* A bridge that is not disposed was not disposed before.                  *)
LEMMA AliveBefore ==
  ASSUME NEW s \in Bridges, NEW asked \in BOOLEAN, Reached(s, asked),
         ~bridge'.disposed
  PROVE  ~s.disposed
<1>1. CASE Moves(s, bridge', asked)
  BY <1>1 DEF Moves
<1>2. CASE \E r \in Bridges : Moves(s, r, asked) /\ bridge' = Finish(r)
  <2>1. PICK r \in Bridges : Moves(s, r, asked) /\ bridge' = Finish(r)
    BY <1>2
  <2>2. ~r.disposed
    BY <2>1, FinishAlike DEF Alike
  <2>3. QED
    BY <2>1, <2>2 DEF Moves
<1>3. QED
  BY <1>1, <1>2 DEF Reached

(* With no source confirmed, nothing queued would start the decoder.       *)
LEMMA UnopenedMute ==
  ASSUME NEW s, Unopened(s), s.confirmed = NoSource
  PROVE  Mute(s)
BY DEF Unopened, Mute, Starts

LEMMA SilentUserLoads ==
  ASSUME TypeOK, Account, NEW source \in Sources, UserLoads(source)
  PROVE  Silent(bridge', target', loader', ghost'.consent, FALSE)
<1> bridge \in Bridges /\ ghost \in Histories
  BY TypeParts DEF Surroundings
<1> DEFINE r == BeginSourceLoad(bridge)
<1>1. bridge' = r /\ ghost'.consent
  BY DEF UserLoads, Histories
<1>2. /\ r.gen = bridge.gen + 1 /\ r.queue = bridge.queue
      /\ r.confirmed = NoSource /\ r.recovery = NoRecovery /\ bridge.gen \in Nat
  BY BeginSourceLoadFields
<1> HIDE DEF r
<1>3. \A n \in DOMAIN r.queue : r.queue[n].gen # r.gen
  <2>1. \A n \in DOMAIN bridge.queue : /\ bridge.queue[n].gen <= bridge.gen
                                       /\ bridge.queue[n].gen \in Nat
    BY QueueType DEF Account, Dated
  <2>2. QED
    BY <1>2, <2>1
<1>4. Unopened(r) /\ ~Waiting(r, FALSE)
  BY <1>3 DEF Unopened, Waiting, Due
<1>5. Confirmed(r, target') /\ Fresh(r, loader') /\ Holding(r, ghost'.consent)
  BY <1>1, <1>2 DEF Confirmed, Fresh, Holding
<1>6. QED
  BY <1>1, <1>4, <1>5 DEF Silent, Reloading

LEMMA SilentStartRecover ==
  ASSUME TypeOK, StartRecover, Silent(bridge, target, loader, ghost.consent, FALSE)
  PROVE  Silent(bridge', target', loader', ghost'.consent, FALSE)
<1> bridge \in Bridges /\ target \in Snapshots /\ ghost \in Histories
  BY TypeParts DEF Surroundings
<1>1. /\ bridge' = bridge /\ bridge.queue # <<>> /\ Running.kind = "recover"
      /\ bridge.gen = Running.gen /\ loader' = "recover"
      /\ target'.media = target.media /\ target'.conn = "loading"
      /\ ghost'.consent = ghost.consent
  BY DEF StartRecover, Snapshots, Histories
<1>2. 1 \in Due(bridge)
  <2>1. 1 \in DOMAIN bridge.queue /\ Running = bridge.queue[1]
    BY <1>1, QueueType DEF Running
  <2>2. QED
    BY <1>1, <2>1 DEF Due
<1>3. bridge.confirmed = NoSource
  BY <1>2 DEF Silent, Reloading, Waiting
<1>4. Mute(bridge)
  BY <1>3, UnopenedMute DEF Silent
<1>5. Confirmed(bridge, target') /\ Fresh(bridge, loader')
  BY <1>1, <1>3 DEF Confirmed, Fresh
<1>6. QED
  BY <1>1, <1>4, <1>5 DEF Silent

(* The loads that open a source.  The user's ends no reload, for it ended  *)
(* the recovery when it began; the recovery's own is the only one due.     *)
LEMMA SilentUserOpens ==
  ASSUME TypeOK, UserOpens, Aged(bridge), Single(bridge), ~bridge'.disposed,
         target' \in Snapshots, ghost' \in Histories,
         Silent(bridge, target, loader, ghost.consent, FALSE)
  PROVE  Silent(bridge', target', loader', ghost'.consent, FALSE)
<1> bridge \in Bridges
  BY TypeParts
<1> DEFINE o == Opening(bridge, target')
           allowed == ghost'.consent
<1>1. /\ o \in Bridges /\ o.gen = bridge.gen /\ o.intent = bridge.intent
      /\ o.queue = bridge.queue /\ o.confirmed = target'.media
      /\ o.recovery = bridge.recovery
  BY OpeningFields
<1>2. /\ loader = "user" /\ loader' = "none" /\ allowed
      /\ target'.media = target.media /\ target'.conn = "ready"
      /\ Reached(o, FALSE)
  BY DEF UserOpens
<1>3. allowed = TRUE
  BY <1>2 DEF Histories, allowed
<1> HIDE DEF o, allowed
<1>4. ~Waiting(o, FALSE)
  <2>1. Waiting(o, FALSE) = Waiting(bridge, FALSE)
    BY <1>1, SameLedger
  <2>2. bridge.recovery = NoRecovery
    BY <1>2 DEF Silent, Fresh
  <2>3. QED
    BY <2>1, <2>2 DEF Silent, Reloading
<1>5. Unopened(o)
  BY <1>1, <1>2 DEF Silent, Unopened, Confirmed
<1>6. Silent(o, target', loader', TRUE, FALSE)
  BY <1>1, <1>2, <1>4, <1>5 DEF Silent, Confirmed, Reloading, Fresh, Holding
<1>7. Aged(o) /\ Single(o)
  BY <1>1, SameLedger DEF Aged
<1>8. Silent(bridge', target', loader', allowed, FALSE)
  BY <1>1, <1>2, <1>3, <1>6, <1>7, SilentReached
<1>9. QED
  BY <1>8 DEF allowed

LEMMA SilentReopens ==
  ASSUME TypeOK, Reopens, At, Sourced(bridge), Aged(bridge), Single(bridge),
         ~bridge'.disposed, target' \in Snapshots,
         Silent(bridge, target, loader, ghost.consent, FALSE)
  PROVE  Silent(bridge', target', loader', ghost'.consent, FALSE)
<1> bridge \in Bridges /\ ghost \in Histories
  BY TypeParts DEF Surroundings
<1> DEFINE o == Reopening(bridge, target')
           allowed == ghost.consent
<1>1. /\ o \in Bridges /\ o.gen = bridge.gen /\ o.intent = bridge.intent
      /\ o.queue = bridge.queue /\ o.confirmed = target'.media
      /\ SameRecovery(bridge, o)
  BY ReopeningFields
<1>2. /\ pc = "load" /\ loader' = "none" /\ ghost'.consent = allowed
      /\ bridge.gen = Running.gen /\ bridge.queue # <<>>
      /\ target'.media = target.media /\ target'.conn = "ready"
      /\ Running.kind = "recover"
  BY DEF Reopens, At
<1>3. PICK r \in Bridges : Moves(o, r, FALSE) /\ bridge' = Finish(r)
  BY DEF Reopens
<1>4. allowed \in BOOLEAN
  BY DEF Histories
<1>5. 1 \in Due(bridge)
  <2>1. 1 \in DOMAIN bridge.queue /\ Running = bridge.queue[1]
    BY <1>2, QueueType DEF Running
  <2>2. QED
    BY <1>2, <2>1 DEF Due
<1>6. bridge.recovery # NoRecovery /\ bridge.confirmed = NoSource
  BY <1>5 DEF Silent, Reloading, Waiting
<1>7. Mute(bridge)
  BY <1>6, UnopenedMute DEF Silent
<1>8. allowed \/ ~bridge.recovery.observedPause
  BY DEF Silent, Holding
<1> HIDE DEF o, allowed
<1>9. Aged(o) /\ Dated(o) /\ Single(o)
  BY <1>1, SameLedger DEF Aged
<1>10. ~Waiting(o, TRUE)
  <2>1. ~Waiting(bridge, TRUE)
    BY <1>5 DEF Single, Waiting
  <2>2. QED
    BY <1>1, <2>1, SameLedger
<1>11. Unopened(o) /\ Mute(o)
  BY <1>1, <1>2, <1>6, <1>7 DEF Silent, Unopened, Mute
<1>12. Silent(o, target', loader', allowed, TRUE)
  <2>1. Confirmed(o, target') /\ Fresh(o, loader') /\ Reloading(o, TRUE)
    BY <1>1, <1>2, <1>10 DEF Confirmed, Fresh, Reloading
  <2>2. Holding(o, allowed)
    BY <1>1, <1>6, <1>8 DEF Holding, SameRecovery
  <2>3. QED
    BY <1>11, <2>1, <2>2 DEF Silent
<1>13. ~r.disposed
  BY <1>3, FinishAlike DEF Alike
<1>14. Silent(r, target', loader', allowed, TRUE)
  BY <1>1, <1>3, <1>4, <1>9, <1>12, <1>13, SilentMoves
<1>15. Dated(r) /\ Single(r) /\ r.queue # <<>>
  BY <1>1, <1>2, <1>3, <1>9, MovesLedger, MovesNonempty
<1>16. QED
  BY <1>2, <1>3, <1>4, <1>14, <1>15, SilentFinish

(* The outage: its pause is newer than everything queued, and where it is  *)
(* not issued the decoder has failed or no source is confirmed.            *)
LEMMA SilentDrops ==
  ASSUME TypeOK, Loading, ConnectionLost, Drops, Sorted, Sourced(bridge), Aged(bridge),
         Single(bridge), ~bridge'.disposed, ghost' \in Histories,
         Silent(bridge, target, loader, ghost.consent, FALSE)
  PROVE  Silent(bridge', target', loader', ghost'.consent, FALSE)
<1> bridge \in Bridges /\ target \in Snapshots /\ ghost \in Histories
  BY TypeParts DEF Surroundings
<1> DEFINE o == Outage(bridge, target)
           lost == [target EXCEPT !.conn = "failed"]
           n == NextIntent(o)
           op == Op("pause", "paused", FALSE, n)
<1>1. /\ o \in Bridges /\ o.gen = bridge.gen /\ o.intent = bridge.intent
      /\ o.queue = bridge.queue /\ o.confirmed = bridge.confirmed
      /\ o.disposed = bridge.disposed /\ ~o.recovery.observedPause
      /\ bridge.recovery # NoRecovery => o.recovery # NoRecovery
      /\ (bridge.confirmed # NoSource /\ target.media = bridge.confirmed)
           => o.recovery # NoRecovery
      /\ (bridge.confirmed = NoSource /\ bridge.recovery = NoRecovery)
           => o.recovery = NoRecovery
  BY OutageFields
<1>2. /\ target' = target /\ loader' = loader /\ ghost'.consent = FALSE
      /\ Reached(o, FALSE) /\ Alike(o, bridge') /\ ~bridge.disposed
      /\ bridge' = LocalCommand(o, target, "pause")
  BY DEF ConnectionLost, Drops, Histories
<1>3. lost \in Snapshots /\ lost.media = target.media /\ lost.conn = "failed"
  BY DEF Snapshots
<1> HIDE DEF lost
<1>4. Aged(o) /\ Single(o)
  <2> HIDE DEF o
  <2> QED BY <1>1, SameLedger DEF Aged
<1>5. ASSUME HasSource(o, target) PROVE Mute(bridge')
  <2>1. bridge' = Enqueue(n, op)
    BY <1>2, <1>5 DEF LocalCommand
  <2> HIDE DEF o
  <2>2. /\ n \in Bridges /\ n.queue = o.queue /\ n.intent = o.intent + 1
        /\ op.kind = "pause"
    BY <1>1, NextIntentType, NextIntentGrows DEF Op
  <2> HIDE DEF n, op
  <2>3. bridge'.queue = Append(bridge.queue, op) /\ bridge'.intent = bridge.intent + 1
    BY <1>1, <2>1, <2>2 DEF Enqueue, Bridges
  <2>4. bridge.queue \in Seq(Operations) /\ bridge.intent \in Nat
        /\ \A k \in DOMAIN bridge.queue : /\ bridge.queue[k].intent <= bridge.intent
                                          /\ bridge.queue[k].intent \in Nat
    BY QueueType DEF Sorted
  <2>5. Mute(bridge')
    <3> SUFFICES ASSUME NEW k \in DOMAIN bridge'.queue, Starts(bridge'.queue[k]),
                        bridge'.queue[k].intent = bridge'.intent
                 PROVE  FALSE
      BY DEF Mute
    <3>1. /\ op.kind = "pause"
          /\ bridge'.queue[k] = op
               \/ (k \in DOMAIN bridge.queue /\ bridge'.queue[k] = bridge.queue[k])
      BY <2>2, <2>3, <2>4
    <3>2. CASE bridge'.queue[k] = op
      BY <2>2, <3>2 DEF Starts
    <3>3. CASE k \in DOMAIN bridge.queue /\ bridge'.queue[k] = bridge.queue[k]
      BY <2>3, <2>4, <3>3
    <3>4. QED
      BY <3>1, <3>2, <3>3
  <2>6. QED
    BY <2>5
<1>6. ASSUME ~HasSource(o, target)
      PROVE  Mute(bridge') \/ target.conn = "failed"
  <2>1. bridge' = o
    BY <1>2, <1>6 DEF LocalCommand
  <2> HIDE DEF o
  <2>2. target.conn = "failed" \/ bridge.confirmed = NoSource
    BY <1>1, <1>2, <1>6 DEF Silent, Confirmed, HasSource
  <2>3. bridge.confirmed = NoSource => Mute(bridge)
    BY UnopenedMute DEF Silent
  <2>4. Mute(bridge) => Mute(o)
    BY <1>1 DEF Mute
  <2>5. QED
    BY <2>1, <2>2, <2>3, <2>4
<1> HIDE DEF o, n, op
<1>7. Mute(bridge') \/ target.conn = "failed"
  BY <1>5, <1>6
<1>8. Silent(o, lost, loader, FALSE, FALSE)
  <2>1. Confirmed(o, lost) /\ Unopened(o)
    BY <1>1, <1>3 DEF Silent, Confirmed, Unopened
  <2>2. Waiting(o, FALSE) = Waiting(bridge, FALSE)
    BY <1>1, SameLedger
  <2>3. Reloading(o, FALSE)
    BY <1>1, <2>2 DEF Silent, Reloading
  <2>4. Holding(o, FALSE)
    BY <1>1 DEF Silent, Holding, Confirmed
  <2>5. Fresh(o, loader)
    <3>1. loader = "user" => bridge.confirmed = NoSource
      BY DEF Loading, Silent, Confirmed
    <3>2. QED
      BY <1>1, <3>1 DEF Silent, Fresh
  <2>6. QED
    BY <1>3, <2>1, <2>3, <2>4, <2>5 DEF Silent
<1>9. Silent(bridge', lost, loader, FALSE, FALSE)
  BY <1>1, <1>2, <1>3, <1>4, <1>8, SilentReached
<1>10. Confirmed(bridge', target)
  BY <1>1, <1>2 DEF Silent, Confirmed, Alike
<1>11. QED
  BY <1>2, <1>7, <1>9, <1>10 DEF Silent

LEMMA SilenceStep ==
  ASSUME GrantInv, AccountInv, At, Silence, Next, ~Transient
  PROVE  Silence'
<1> /\ TypeOK /\ Sorted /\ Account /\ Sourced(bridge) /\ Spoken(bridge)
    /\ Loading
  BY DEF GrantInv, AccountInv, Notes, Silence
<1> /\ bridge \in Bridges /\ target \in Snapshots /\ ghost \in Histories
  BY TypeParts DEF Surroundings
<1> DEFINE before == ghost.consent
           after == ghost'.consent
<1>1. /\ bridge' \in Bridges /\ target' \in Snapshots /\ ghost' \in Histories
      /\ before \in BOOLEAN /\ after \in BOOLEAN
  <2>1. ghost' \in Histories
    BY TypeStep DEF TypeOK, Histories
  <2>2. bridge' \in Bridges
    BY TypeStep DEF TypeOK, Bridges, Recoveries
  <2>3. before \in BOOLEAN /\ after \in BOOLEAN
    BY <2>1 DEF Histories
  <2>4. QED
    BY <2>1, <2>2, <2>3, SnapshotStep
<1>2. /\ Loading'
      /\ Elsewhere \/ StartRecover \/ \E source \in Sources : UserLoads(source)
  BY WorldStep
<1>3. Aged(bridge) /\ Single(bridge)
  BY AgedBridge
<1>4. Answers \/ UserOpens \/ Reopens \/ (ConnectionLost /\ Drops)
  BY StepAnswers
<1> SUFFICES ASSUME ~bridge'.disposed
             PROVE  Silent(bridge', target', loader', after, FALSE)
  BY <1>2 DEF Silence
<1>5. ~bridge.disposed
  <2>1. CASE Answers
    BY <2>1, AliveBefore DEF Answers
  <2>2. QED
    BY <1>4, <2>1 DEF UserOpens, Reopens, Drops
<1>6. Silent(bridge, target, loader, before, FALSE)
  BY <1>5 DEF Silence
<1>7. CASE \E source \in Sources : UserLoads(source)
  BY <1>7, SilentUserLoads
<1>8. CASE StartRecover
  BY <1>6, <1>8, SilentStartRecover
<1>9. CASE ConnectionLost
  BY <1>1, <1>3, <1>5, <1>6, <1>9, LostDrops, SilentDrops
<1>10. CASE UserOpens
  BY <1>1, <1>3, <1>6, <1>10, SilentUserOpens
<1>11. CASE Reopens
  BY <1>1, <1>3, <1>6, <1>11, SilentReopens
<1>12. CASE Answers /\ Elsewhere /\ ~ConnectionLost
  <2>1. PICK asked \in BOOLEAN : (asked => after) /\ Reached(bridge, asked)
    BY <1>12 DEF Answers
  <2>2. before => after
    BY <1>12, ConsentStep
  <2>3. Silent(bridge, target', loader', before, FALSE)
    BY <1>6, <1>12, SilentElsewhere
  <2> HIDE DEF before, after
  <2>4. QED
    BY <1>1, <1>3, <2>1, <2>2, <2>3, SilentReached
<1>13. QED
  BY <1>2, <1>4, <1>7, <1>8, <1>9, <1>10, <1>11, <1>12

SilenceInv == GrantInv /\ AccountInv /\ At /\ Silence

LEMMA SilenceInit == Init => At /\ Silence
<1> SUFFICES ASSUME Init PROVE At /\ Silence
  OBVIOUS
<1>1. /\ bridge.queue = <<>> /\ bridge.confirmed = NoSource
      /\ bridge.recovery = NoRecovery /\ ghost.consent
      /\ pc = "idle" /\ loader = "none"
  BY DEF Init
<1>2. Unopened(bridge) /\ ~Waiting(bridge, FALSE)
  BY <1>1 DEF Unopened, Waiting, Due
<1>3. QED
  BY <1>1, <1>2 DEF At, Silence, Loading, Silent, Confirmed, Reloading, Fresh, Holding

(* On a decoder that is open, what has no consent is not on its way to     *)
(* play().                                                                 *)
LEMMA PlayHasConsent ==
  ASSUME SilenceInv, Next, IssuesPlay
  PROVE  ghost.consent
<1> TypeOK /\ bridge \in Bridges
  BY TypeParts DEF SilenceInv, GrantInv
<1>1. RunningIsCurrent /\ bridge.queue # <<>> /\ Starts(Running)
  <2>1. CASE AuthorizeGranted /\ RunningIsCurrent
    BY <2>1, TypeParts DEF AuthorizeGranted, SilenceInv, At, Occupied
  <2>2. CASE PeerSought /\ RunningIsCurrent /\ Running.mode = "playing"
    BY <2>2, TypeParts DEF PeerSought, Awaiting, SilenceInv, At, Starts, Occupied
  <2>3. QED
    BY <2>1, <2>2, PlayComesFrom
<1>2. 1 \in DOMAIN bridge.queue /\ Running = bridge.queue[1]
  BY <1>1, QueueType DEF Running
<1>3. ~Mute(bridge) /\ target.conn = "ready" /\ ~bridge.disposed
  BY <1>1, <1>2 DEF Mute, RunningIsCurrent, Current, HasSource
<1>4. QED
  BY <1>3 DEF SilenceInv, Silence, Silent

(* Where the target opens nothing without a load, no play() after an       *)
(* outage comes before the user asked again or the room was seen paused.   *)
THEOREM ReconnectIsQuiet == ASSUME ~Transient PROVE Spec => ReconnectNeverResumes
<1>1. Init => At /\ Silence
  BY SilenceInit
<1>2. GrantInv /\ AccountInv /\ At /\ Silence /\ [Next]_vars => (At /\ Silence)'
  <2>1. ASSUME GrantInv, AccountInv, At, Silence, Next PROVE At' /\ Silence'
    BY <2>1, AtStep, SilenceStep DEF GrantInv
  <2>2. ASSUME At, Silence, UNCHANGED vars PROVE At' /\ Silence'
    BY <2>2 DEF At, Silence, Loading, Silent, Confirmed, Unopened, Reloading,
       Waiting, Due, Fresh, Holding, Mute, Running, vars
  <2>3. QED
    BY <2>1, <2>2
<1>3. SilenceInv /\ [Next]_vars => [IssuesPlay => ghost.consent]_vars
  BY PlayHasConsent
<1>4. QED
  BY <1>1, <1>2, <1>3, GrantStands, AccountStands, PTL
     DEF Spec, SilenceInv, ReconnectNeverResumes

-----------------------------------------------------------------------------
(* An operation of an earlier source ends without a trace, unless it waits *)
(* for the pause of a denied or of a failed Play: what follows those two   *)
(* awaits does not look at the source any more.                            *)
Unguarded == {"deny", "errorPause"}

LEMMA KeepsWhole ==
  ASSUME TypeOK, Keeps, bridge.queue # <<>>
  PROVE  bridge'.queue # Tail(bridge.queue)
<1>1. bridge.queue \in Seq(Operations)
  BY TypeParts, QueueType
<1>2. bridge.queue # Tail(bridge.queue)
  <2> DEFINE len == Len(bridge.queue)
  <2>1. Len(Tail(bridge.queue)) = len - 1 /\ len \in Nat
    BY <1>1
  <2>2. len - 1 # len
    <3> HIDE DEF len
    <3> QED BY <2>1
  <2>3. QED
    BY <2>1, <2>2
<1>3. \A op \in Operations : Append(bridge.queue, op) # Tail(bridge.queue)
  BY <1>1
<1>4. QED
  BY <1>2, <1>3 DEF Keeps, Grows

LEMMA StaleStep ==
  ASSUME TypeOK, QueueStep \/ Authorization \/ Faults, Running.gen # bridge.gen,
         pc \notin Unguarded
  PROVE  bridge' = bridge \/ bridge' = Finish(bridge)
<1>1. ~RunningIsCurrent
  BY DEF RunningIsCurrent, Current
<1>2. CASE QueueStep
  BY <1>1, <1>2 DEF QueueStep, StartStale, StartPeer, StartPlay,
     StartLocalCommand, StartReassert, StartRecover, AuthorizeSuperseded,
     PeerPaused, PeerSought, Played, ExternalPlayHeld, PlaybackDenied,
     LocalCommandDone, ReassertDone, ErrorPaused, RecoveryLoaded,
     RecoverySuperseded, Awaiting, Await, Return, Unguarded
<1>3. CASE Authorization
  BY <1>1, <1>3 DEF Authorization, AuthorizeGranted, AuthorizeDenied,
     AuthorizeFailed, Return
<1>4. CASE Faults
  BY <1>1, <1>4 DEF Faults, RecoveryFailed, CommandFails, Unguarded
<1>5. QED
  BY <1>2, <1>3, <1>4

LEMMA StaleEnd ==
  ASSUME TypeOK, Next, bridge.queue # <<>>, bridge'.queue = Tail(bridge.queue),
         Running.gen # bridge.gen, pc \notin Unguarded
  PROVE  /\ bridge'.told = bridge.told /\ bridge'.pending = bridge.pending
         /\ bridge'.published = bridge.published
<1>1. ~Keeps
  BY KeepsWhole
<1>2. QueueStep \/ Authorization \/ Faults
  BY <1>1, UserEffect, RoomEffect, DecoderEffect DEF Next
<1>3. bridge' = bridge \/ bridge' = Finish(bridge)
  BY <1>2, StaleStep
<1>4. QED
  BY <1>3, TypeParts, FinishAlike DEF Alike

(* Once the bridge has gone on to another source, what an operation of the *)
(* earlier one still has to say reaches nobody: not the room, not the      *)
(* change this phone is about to announce, not what the bridge remembers.  *)
THEOREM EarlierSourceIsSilent ==
  Spec => [][(/\ bridge.queue # <<>> /\ bridge'.queue = Tail(bridge.queue)
              /\ Running.gen # bridge.gen /\ pc \notin Unguarded)
               => /\ bridge'.told = bridge.told
                  /\ bridge'.pending = bridge.pending
                  /\ bridge'.published = bridge.published]_vars
<1>1. TypeOK /\ [Next]_vars =>
        [(/\ bridge.queue # <<>> /\ bridge'.queue = Tail(bridge.queue)
          /\ Running.gen # bridge.gen /\ pc \notin Unguarded)
           => /\ bridge'.told = bridge.told
              /\ bridge'.pending = bridge.pending
              /\ bridge'.published = bridge.published]_vars
  BY StaleEnd
<1>2. QED
  BY <1>1, TypeCorrect, PTL DEF Spec

(* Hence SourceChangeInvalidates wherever no operation comes to wait at    *)
(* those two places.                                                       *)
THEOREM SourceChangesInvalidate ==
  Spec /\ [](pc \notin Unguarded) => SourceChangeInvalidates
<1>1. TypeOK /\ pc \notin Unguarded /\ [Next]_vars =>
        [(bridge.queue # <<>> /\ bridge'.queue = Tail(bridge.queue)
            /\ Running.gen # bridge.gen)
           => /\ bridge'.told = bridge.told
              /\ bridge'.pending = bridge.pending
              /\ bridge'.published = bridge.published]_vars
  BY StaleEnd
<1>2. QED
  BY <1>1, TypeCorrect, PTL DEF Spec, SourceChangeInvalidates

-----------------------------------------------------------------------------
(* An operation that was the newest one when audio focus was lost never    *)
(* plays.  Focus is not compared with the operation: the bridge gives a    *)
(* room Play up because it has published "playing", and the user's own     *)
(* because it is the pending local Play.  So every command that is still   *)
(* the newest one has to show in one of the two (Ruled, Heard), and a      *)
(* command that was there when focus was lost is no Play (Over).           *)
Asking == {"peer", "play", "pause", "seek"}

Latest(s, op) == op.kind \in Asking /\ op.intent = s.intent
Newest(s, op) == Latest(s, op) /\ op.gen = s.gen

(* The queued commands nothing has replaced: at most one.                  *)
Asks(s) == {n \in DOMAIN s.queue : Newest(s, s.queue[n])}

Ruled(s) ==
  /\ \A m \in Asks(s), n \in Asks(s) : m = n
  /\ \A n \in Asks(s) : s.queue[n].kind = "play" => s.localPlay = s.intent
  /\ \A n \in DOMAIN s.queue : Latest(s, s.queue[n]) => s.queue[n].gen = s.gen

(* What the bridge says of itself while a room Play stands; unheard: it    *)
(* may hear of the decoder before it waits for something.                  *)
Playable(s, unheard) ==
  /\ s.published = "playing" /\ ~HeldByRecovery(s, "playing")
  /\ unheard => s.expected = "playing" /\ s.fresh

RoomPlay(op) == op.kind = "peer" /\ op.mode = "playing"

Heard(s, t, unheard) ==
  \A n \in Asks(s) : RoomPlay(s.queue[n]) /\ HasSource(s, t) => Playable(s, unheard)

Over(s, lost) ==
  /\ \A i \in lost : i <= s.intent
  /\ s.intent \in lost => \A n \in Asks(s) : ~Starts(s.queue[n])

Focused(s, t, unheard, lost) == Ruled(s) /\ Heard(s, t, unheard) /\ Over(s, lost)

(* A handler replaces the intent, maybe by a command that shows; or it     *)
(* leaves the newest command what it was.                                  *)
Shows(r, op) ==
  /\ op.kind \in Asking => op.gen = r.gen
  /\ op.kind = "play" => r.localPlay = r.intent
  /\ RoomPlay(op) => Playable(r, TRUE)

Renews(s, r) ==
  /\ r.intent > s.intent
  /\ \/ r.queue = s.queue
     \/ \E op \in Operations : r.queue = Append(s.queue, op) /\ Shows(r, op)

Stays(s, r) ==
  /\ r.intent = s.intent /\ r.gen = s.gen /\ r.localPlay = s.localPlay
  /\ \/ r.queue = s.queue
     \/ \E op \in Operations : r.queue = Append(s.queue, op) /\ op.kind \notin Asking

(* No operation is of an intent to come.                                   *)
Dues(s) == \A n \in DOMAIN s.queue : s.queue[n].intent <= s.intent

LEMMA AppendElements ==
  ASSUME NEW s \in Bridges, NEW r \in Bridges, NEW op \in Operations,
         r.queue = Append(s.queue, op), NEW n \in DOMAIN r.queue
  PROVE  \/ n \in DOMAIN s.queue /\ r.queue[n] = s.queue[n]
         \/ n = Len(s.queue) + 1 /\ r.queue[n] = op
<1>1. s.queue \in Seq(Operations)
  BY QueueType
<1>2. QED
  BY <1>1

LEMMA RenewsElements ==
  ASSUME NEW s \in Bridges, NEW r \in Bridges, Renews(s, r), Dues(s),
         NEW n \in DOMAIN r.queue, Latest(r, r.queue[n])
  PROVE  n = Len(s.queue) + 1 /\ Shows(r, r.queue[n])
<1>1. /\ s.intent \in Nat /\ r.intent \in Nat /\ r.intent > s.intent
      /\ r.queue[n].intent = r.intent
  BY QueueType DEF Renews, Latest
<1>2. n \in DOMAIN s.queue => s.queue[n].intent # r.intent
  <2>1. n \in DOMAIN s.queue => s.queue[n].intent \in Nat /\ s.queue[n].intent <= s.intent
    BY QueueType DEF Dues
  <2>2. QED
    BY <1>1, <2>1
<1>3. r.queue # s.queue
  BY <1>1, <1>2
<1>4. PICK op \in Operations : r.queue = Append(s.queue, op) /\ Shows(r, op)
  BY <1>3 DEF Renews
<1>5. n = Len(s.queue) + 1 /\ r.queue[n] = op
  BY <1>1, <1>2, <1>4, AppendElements
<1>6. QED
  BY <1>4, <1>5

(* A new intent makes good whatever the decoder and the loss of focus did. *)
LEMMA RenewsFocused ==
  ASSUME NEW s \in Bridges, NEW r \in Bridges, Renews(s, r), Dues(s), NEW t,
         NEW u \in BOOLEAN, NEW lost, \A i \in lost : i \in Nat /\ i <= s.intent
  PROVE  Focused(r, t, u, lost)
<1>1. \A n \in DOMAIN r.queue :
        Latest(r, r.queue[n]) => n = Len(s.queue) + 1 /\ Shows(r, r.queue[n])
  BY RenewsElements
<1>2. Ruled(r) /\ Heard(r, t, u)
  BY <1>1 DEF Ruled, Heard, Shows, Playable, Asks, Newest, Latest
<1>3. s.intent \in Nat /\ r.intent \in Nat /\ r.intent > s.intent
  BY QueueType DEF Renews
<1>4. \A i \in lost : i <= r.intent /\ i # r.intent
  BY <1>3
<1>5. QED
  BY <1>2, <1>4 DEF Focused, Over

LEMMA StaysAsks ==
  ASSUME NEW s \in Bridges, NEW r \in Bridges, Stays(s, r), NEW n \in DOMAIN r.queue,
         Latest(r, r.queue[n])
  PROVE  n \in DOMAIN s.queue /\ r.queue[n] = s.queue[n] /\ Latest(s, s.queue[n])
<1>1. n \in DOMAIN s.queue /\ r.queue[n] = s.queue[n]
  BY AppendElements DEF Stays, Latest
<1>2. QED
  BY <1>1 DEF Stays, Latest

LEMMA StaysFocused ==
  ASSUME NEW s \in Bridges, NEW r \in Bridges, Stays(s, r), NEW t, NEW v,
         NEW u \in BOOLEAN, NEW w \in BOOLEAN, NEW lost, Focused(s, t, u, lost),
         \/ Asks(s) = {}
         \/ HasSource(r, v) => HasSource(s, t) /\ (Playable(s, u) => Playable(r, w))
  PROVE  Focused(r, v, w, lost)
<1>0. \A n \in DOMAIN r.queue :
        Latest(r, r.queue[n]) =>
          n \in DOMAIN s.queue /\ r.queue[n] = s.queue[n] /\ Latest(s, s.queue[n])
  BY StaysAsks
<1>1. \A n \in Asks(r) : n \in Asks(s) /\ r.queue[n] = s.queue[n]
  BY <1>0 DEF Asks, Newest, Stays
<1>2. Ruled(r)
  BY <1>0, <1>1 DEF Focused, Ruled, Stays
<1>3. Heard(r, v, w)
  BY <1>1 DEF Focused, Heard
<1>4. Over(r, lost)
  BY <1>1 DEF Focused, Over, Stays
<1>5. QED
  BY <1>2, <1>3, <1>4 DEF Focused

LEMMA FinishFields ==
  ASSUME NEW s \in Bridges
  PROVE  LET f == Finish(s)
         IN /\ f.expected = s.expected /\ f.fresh = s.fresh
            /\ f.connected = s.connected
            /\ f.localPlay = IF Head(s.queue).kind = "play"
                                /\ s.localPlay = Head(s.queue).intent
                             THEN 0 ELSE s.localPlay
<1> DEFINE op == Head(s.queue)
           rest == Tail(s.queue)
           local == IF op.kind = "play" /\ s.localPlay = op.intent THEN 0
                    ELSE s.localPlay
           outside == s.externalPlay /\ ~(op.kind = "play" /\ op.flag)
           key == IF op.kind = "reassert" /\ s.correction = <<op.intent, op.gen>>
                  THEN NoKey ELSE s.correction
           r == [s EXCEPT !.queue = rest, !.localPlay = local,
                          !.externalPlay = outside, !.correction = key]
<1>1. Finish(s) = r
  BY DEF Finish, Bridges
<1>2. /\ r.expected = s.expected /\ r.fresh = s.fresh /\ r.connected = s.connected
      /\ r.localPlay = local
  <2> HIDE DEF rest, local, outside, key
  <2> QED BY DEF Bridges
<1> HIDE DEF r
<1>3. QED
  BY <1>1, <1>2

LEMMA FinishElements ==
  ASSUME NEW s \in Bridges, s.queue # <<>>, NEW n \in DOMAIN Finish(s).queue
  PROVE  /\ n + 1 \in DOMAIN s.queue /\ Finish(s).queue[n] = s.queue[n + 1]
         /\ n + 1 # 1 /\ n \in Nat
<1> DEFINE f == Finish(s)
<1>1. f.queue = Tail(s.queue) /\ s.queue \in Seq(Operations)
  BY FinishType, QueueType
<1> HIDE DEF f
<1>2. QED
  BY <1>1 DEF f

(* The finally blocks forget the local Play only of an operation that is   *)
(* no longer the newest, or that was it.                                   *)
LEMMA FinishFocused ==
  ASSUME NEW s \in Bridges, s.queue # <<>>, NEW t, NEW u \in BOOLEAN, NEW lost,
         Focused(s, t, u, lost)
  PROVE  Focused(Finish(s), t, u, lost)
<1> DEFINE f == Finish(s)
<1>0. \A n \in DOMAIN f.queue :
        /\ n + 1 \in DOMAIN s.queue /\ f.queue[n] = s.queue[n + 1]
        /\ n + 1 # 1 /\ n \in Nat
  BY FinishElements
<1>2. /\ f.intent = s.intent /\ f.gen = s.gen /\ f.disposed = s.disposed
      /\ f.confirmed = s.confirmed /\ f.recovery = s.recovery
      /\ f.published = s.published /\ f.expected = s.expected /\ f.fresh = s.fresh
      /\ f.connected = s.connected
      /\ f.localPlay = IF Head(s.queue).kind = "play"
                          /\ s.localPlay = Head(s.queue).intent
                       THEN 0 ELSE s.localPlay
  BY FinishType, FinishAlike, FinishFields DEF Alike
<1> HIDE DEF f
<1>1. \A n \in Asks(f) : n + 1 \in Asks(s) /\ f.queue[n] = s.queue[n + 1] /\ n + 1 # 1
  BY <1>0, <1>2 DEF Asks, Newest, Latest
<1>7. \A n \in DOMAIN f.queue : Latest(f, f.queue[n]) => f.queue[n].gen = f.gen
  BY <1>0, <1>2 DEF Latest, Focused, Ruled
<1>3. Heard(f, t, u) /\ Over(f, lost)
  BY <1>1, <1>2 DEF Focused, Heard, Over, HasSource, Playable, HeldByRecovery
<1>4. \A m \in Asks(f), n \in Asks(f) : m = n
  <2> SUFFICES ASSUME NEW m \in Asks(f), NEW n \in Asks(f) PROVE m = n
    OBVIOUS
  <2>1. m + 1 = n + 1
    BY <1>1 DEF Focused, Ruled
  <2>2. m \in Nat /\ n \in Nat
    BY <1>0 DEF Asks
  <2>3. QED
    BY <2>1, <2>2
<1>5. ASSUME NEW n \in Asks(f), f.queue[n].kind = "play"
      PROVE  f.localPlay = f.intent
  <2>1. s.localPlay = s.intent /\ 1 \notin Asks(s)
    BY <1>1, <1>5 DEF Focused, Ruled
  <2>2. Head(s.queue) = s.queue[1] /\ 1 \in DOMAIN s.queue
    BY QueueType
  <2>3. Head(s.queue).kind = "play" => Head(s.queue).intent # s.intent
    BY <2>1, <2>2 DEF Asks, Newest, Latest, Asking, Focused, Ruled
  <2>4. QED
    BY <1>2, <2>1, <2>3
<1>6. QED
  BY <1>3, <1>4, <1>5, <1>7 DEF Focused, Ruled, f

-----------------------------------------------------------------------------
(* The helpers, once more.                                                 *)

(* Nothing has changed that a standing room Play depends on.               *)
SameShow(s, r) ==
  /\ r.confirmed = s.confirmed /\ r.disposed = s.disposed
  /\ r.published = s.published /\ r.expected = s.expected /\ r.fresh = s.fresh
  /\ r.recovery = s.recovery /\ r.connected = s.connected

SameSource(s, r) == r.confirmed = s.confirmed /\ r.disposed = s.disposed

LEMMA SameShowPlayable ==
  ASSUME NEW s, NEW r, SameShow(s, r), NEW u \in BOOLEAN
  PROVE  Playable(s, u) => Playable(r, u)
BY DEF SameShow, Playable, HeldByRecovery

LEMMA SameSourceHas ==
  ASSUME NEW s, NEW r, SameSource(s, r), NEW t
  PROVE  HasSource(r, t) = HasSource(s, t)
BY DEF SameSource, HasSource

LEMMA StaysChain ==
  ASSUME NEW s, NEW o, NEW r, Stays(s, o), o.queue = s.queue, Stays(o, r)
  PROVE  Stays(s, r)
BY DEF Stays

LEMMA RenewsChain ==
  ASSUME NEW s, NEW o, NEW r, o.intent = s.intent, o.queue = s.queue, Renews(o, r)
  PROVE  Renews(s, r)
BY DEF Renews

LEMMA RenewsStays ==
  ASSUME NEW s, NEW o, NEW r, o.intent > s.intent, o.queue = s.queue, Stays(o, r)
  PROVE  Renews(s, r)
BY DEF Renews, Stays, Shows, RoomPlay, Asking

LEMMA PublishStays ==
  ASSUME NEW s \in Bridges, NEW t, NEW mode \in Modes, NEW changed \in BOOLEAN
  PROVE  LET r == Publish(s, t, mode, changed)
         IN /\ Stays(s, r) /\ SameSource(s, r) /\ r.queue = s.queue
            /\ r.expected = s.expected /\ r.fresh = s.fresh
            /\ r.recovery = s.recovery /\ r.connected = s.connected
            /\ HasSource(s, t) => r.published = mode
            /\ ~HasSource(s, t) => r = s
<1> DEFINE r == [s EXCEPT !.buffering = @ \/ t.buffering, !.published = mode,
                          !.told = mode, !.pending = @ \/ changed]
<1>1. /\ r.intent = s.intent /\ r.gen = s.gen /\ r.localPlay = s.localPlay
      /\ r.queue = s.queue /\ r.confirmed = s.confirmed /\ r.disposed = s.disposed
      /\ r.expected = s.expected /\ r.fresh = s.fresh
      /\ r.recovery = s.recovery /\ r.connected = s.connected
      /\ r.published = mode
  BY DEF Bridges
<1> HIDE DEF r
<1>2. Publish(s, t, mode, changed) = IF ~HasSource(s, t) THEN s ELSE r
  BY DEF Publish, r
<1>3. QED
  BY <1>1, <1>2 DEF Stays, SameSource

LEMMA AcknowledgeStays ==
  ASSUME NEW s \in Bridges, NEW mode \in Modes
  PROVE  LET r == Acknowledge(s, mode)
         IN /\ Stays(s, r) /\ SameSource(s, r) /\ r.queue = s.queue
            /\ r.published = mode /\ r.expected = mode /\ r.fresh
            /\ r.recovery = s.recovery /\ r.connected = s.connected
<1> DEFINE r == [s EXCEPT !.deferred = NoKey, !.expected = mode, !.fresh = TRUE,
                          !.published = mode, !.told = mode]
<1>1. /\ r.intent = s.intent /\ r.gen = s.gen /\ r.localPlay = s.localPlay
      /\ r.queue = s.queue /\ r.confirmed = s.confirmed /\ r.disposed = s.disposed
      /\ r.expected = mode /\ r.fresh = TRUE
      /\ r.recovery = s.recovery /\ r.connected = s.connected
      /\ r.published = mode
  BY DEF Bridges
<1>2. Acknowledge(s, mode) = r
  BY DEF Acknowledge
<1> HIDE DEF r
<1>3. QED
  BY <1>1, <1>2 DEF Stays, SameSource

LEMMA EnqueueFields ==
  ASSUME NEW s \in Bridges, NEW op
  PROVE  LET r == Enqueue(s, op)
         IN /\ r.queue = Append(s.queue, op) /\ r.intent = s.intent
            /\ r.gen = s.gen /\ r.localPlay = s.localPlay /\ SameShow(s, r)
<1> DEFINE queue == Append(s.queue, op)
           r == [s EXCEPT !.queue = queue]
<1>1. /\ r.queue = queue /\ r.intent = s.intent
      /\ r.gen = s.gen /\ r.localPlay = s.localPlay
      /\ r.confirmed = s.confirmed /\ r.disposed = s.disposed
      /\ r.published = s.published /\ r.expected = s.expected /\ r.fresh = s.fresh
      /\ r.recovery = s.recovery /\ r.connected = s.connected
  <2> HIDE DEF queue
  <2> QED BY DEF Bridges
<1>2. Enqueue(s, op) = r
  BY DEF Enqueue, Bridges
<1> HIDE DEF r
<1>3. QED
  BY <1>1, <1>2 DEF SameShow

LEMMA ReassertPauseStays ==
  ASSUME NEW s \in Bridges, NEW flag \in BOOLEAN
  PROVE  Stays(s, ReassertPause(s, flag)) /\ SameShow(s, ReassertPause(s, flag))
<1> DEFINE key == <<s.intent, s.gen>>
           c == [s EXCEPT !.correction = key]
           op == Op("reassert", "paused", flag, s)
           e == Enqueue(c, op)
<1>1. key \in Nat \X Nat
  BY DEF Bridges
<1>2. /\ c \in Bridges /\ c.queue = s.queue /\ c.intent = s.intent
      /\ c.gen = s.gen /\ c.localPlay = s.localPlay
      /\ c.confirmed = s.confirmed /\ c.disposed = s.disposed
      /\ c.published = s.published /\ c.expected = s.expected /\ c.fresh = s.fresh
      /\ c.recovery = s.recovery /\ c.connected = s.connected
  <2> HIDE DEF key
  <2> QED BY <1>1 DEF Bridges
<1> HIDE DEF c
<1>3. op \in Operations /\ op.kind = "reassert"
  BY OpType, ModeTypes DEF Op
<1> HIDE DEF op
<1>4. /\ e.queue = Append(s.queue, op) /\ e.intent = s.intent
      /\ e.gen = s.gen /\ e.localPlay = s.localPlay /\ SameShow(c, e)
  BY <1>2, EnqueueFields
<1> HIDE DEF e
<1>5. Stays(s, e) /\ SameShow(s, e)
  BY <1>2, <1>3, <1>4 DEF Stays, SameShow, Asking
<1>6. ReassertPause(s, flag) = IF s.correction = key THEN s ELSE e
  BY DEF ReassertPause, e, c, op
<1>7. Stays(s, s) /\ SameShow(s, s)
  BY DEF Stays, SameShow
<1>8. QED
  BY <1>5, <1>6, <1>7

LEMMA NextIntentFields ==
  ASSUME NEW s \in Bridges
  PROVE  LET n == NextIntent(s)
         IN /\ n \in Bridges /\ n.intent = s.intent + 1 /\ n.queue = s.queue
            /\ n.gen = s.gen /\ n.localPlay = s.localPlay /\ SameShow(s, n)
            /\ s.intent \in Nat /\ n.intent > s.intent
<1> DEFINE n == NextIntent(s)
<1>1. n \in Bridges
  BY NextIntentType
<1>2. /\ n.intent = s.intent + 1 /\ n.queue = s.queue
      /\ n.gen = s.gen /\ n.localPlay = s.localPlay
      /\ n.confirmed = s.confirmed /\ n.disposed = s.disposed
      /\ n.published = s.published /\ n.expected = s.expected /\ n.fresh = s.fresh
      /\ n.recovery = s.recovery /\ n.connected = s.connected
      /\ s.intent \in Nat
  BY DEF Bridges, NextIntent
<1> HIDE DEF n
<1>3. n.intent > s.intent
  BY <1>2
<1>4. QED
  BY <1>1, <1>2, <1>3 DEF SameShow, n

LEMMA LocalCommandRenews ==
  ASSUME NEW s \in Bridges, NEW t, NEW kind \in {"pause", "seek"}
  PROVE  LET r == LocalCommand(s, t, kind)
         IN IF HasSource(s, t) THEN Renews(s, r) ELSE r = s
<1> DEFINE n == NextIntent(s)
           op == Op(kind, "paused", FALSE, n)
           e == Enqueue(n, op)
<1>1. n \in Bridges /\ n.intent > s.intent /\ n.queue = s.queue
  BY NextIntentFields
<1> HIDE DEF n
<1>2. op \in Operations /\ op.kind = kind /\ op.gen = n.gen
  BY <1>1, OpType, ModeTypes DEF Op
<1> HIDE DEF op
<1>3. e.queue = Append(n.queue, op) /\ e.intent = n.intent /\ e.gen = n.gen
  BY <1>1, EnqueueFields
<1> HIDE DEF e
<1>4. Renews(s, e)
  BY <1>1, <1>2, <1>3 DEF Renews, Shows, RoomPlay
<1>5. LocalCommand(s, t, kind) = IF ~HasSource(s, t) THEN s ELSE e
  BY DEF LocalCommand, e, n, op
<1>6. QED
  BY <1>4, <1>5

LEMMA LocalPlayRenews ==
  ASSUME NEW s \in Bridges, NEW t, NEW flag \in BOOLEAN
  PROVE  LET r == LocalPlay(s, t, flag)
         IN IF HasSource(s, t) THEN Renews(s, r) ELSE r = s
<1> DEFINE c == [s EXCEPT !.recovery = NoRecovery]
           n == NextIntent(c)
           started == n.intent
           p == [n EXCEPT !.localPlay = started]
           op == Op("play", "playing", flag, n)
           e == Enqueue(p, op)
<1>1. c \in Bridges /\ c.intent = s.intent /\ c.queue = s.queue
  BY NoRecoveryType DEF Bridges
<1> HIDE DEF c
<1>2. n \in Bridges /\ n.intent > s.intent /\ n.queue = s.queue /\ started \in Nat
  BY <1>1, NextIntentFields DEF Bridges
<1> HIDE DEF n
<1>3. /\ p \in Bridges /\ p.intent = n.intent /\ p.gen = n.gen
      /\ p.queue = n.queue /\ p.localPlay = started
  <2> HIDE DEF started
  <2> QED BY <1>2 DEF Bridges
<1>4. op \in Operations /\ op.kind = "play" /\ op.gen = n.gen
  BY <1>2, OpType, ModeTypes DEF Op
<1> HIDE DEF p, op
<1>5. /\ e.queue = Append(p.queue, op) /\ e.intent = p.intent /\ e.gen = p.gen
      /\ e.localPlay = p.localPlay
  BY <1>3, EnqueueFields
<1> HIDE DEF e
<1>6. Renews(s, e)
  BY <1>2, <1>3, <1>4, <1>5 DEF Renews, Shows, RoomPlay
<1>7. LocalPlay(s, t, flag) = IF ~HasSource(s, t) THEN s ELSE e
  BY DEF LocalPlay, e, p, n, c, op
<1>8. QED
  BY <1>6, <1>7

LEMMA BeginSourceLoadRenews ==
  ASSUME NEW s \in Bridges
  PROVE  Renews(s, BeginSourceLoad(s))
<1> DEFINE n == BeginSourceLoad(s)
<1>1. n.intent = s.intent + 1 /\ n.queue = s.queue /\ s.intent \in Nat
  BY BeginSourceLoadFields
<1> HIDE DEF n
<1>2. Renews(s, n)
  BY <1>1 DEF Renews
<1>3. QED
  BY <1>2 DEF n

LEMMA RecoverRenews ==
  ASSUME NEW s \in Bridges, NEW t
  PROVE  LET r == RecoverNetworkSource(s, t)
         IN IF MayRecover(s, t) THEN Renews(s, r) ELSE r = s
<1> DEFINE n == BeginSourceLoad(s)
           rec == [s.recovery EXCEPT !.attempted = TRUE, !.recovering = TRUE,
                                     !.gen = n.gen]
           p == [n EXCEPT !.recovery = rec]
           op == Op("recover", "paused", FALSE, n)
           e == Enqueue(p, op)
<1>1. n \in Bridges /\ n.intent = s.intent + 1 /\ n.queue = s.queue /\ s.intent \in Nat
  BY BeginSourceLoadType, BeginSourceLoadFields
<1> HIDE DEF n
<1>2. rec \in Recoveries
  BY <1>1 DEF Bridges, Recoveries
<1>3. p \in Bridges /\ p.intent = n.intent /\ p.queue = n.queue /\ p.gen = n.gen
  <2> HIDE DEF rec
  <2> QED BY <1>1, <1>2 DEF Bridges
<1>4. op \in Operations /\ op.kind = "recover" /\ op.gen = n.gen
  BY <1>1, OpType, ModeTypes DEF Op
<1> HIDE DEF p, op
<1>5. e.queue = Append(p.queue, op) /\ e.intent = p.intent /\ e.gen = p.gen
  BY <1>3, EnqueueFields
<1> HIDE DEF e
<1>6. Renews(s, e)
  <2>1. e.intent > s.intent
    BY <1>1, <1>3, <1>5
  <2>2. QED
    BY <1>1, <1>3, <1>4, <1>5, <2>1 DEF Renews, Shows, RoomPlay
<1>7. RecoverNetworkSource(s, t) = IF ~MayRecover(s, t) THEN s ELSE e
  BY DEF RecoverNetworkSource, e, p, rec, op, n
<1>8. QED
  BY <1>6, <1>7

(* A Play of the room that is held back finds the recovery holding one.    *)
LEMMA OnPeerRenews ==
  ASSUME NEW s \in Bridges, NEW t, NEW mode \in Modes
  PROVE  LET r == OnPeer(s, t, mode)
         IN \/ Renews(s, r)
            \/ /\ Stays(s, r) /\ SameSource(s, r)
               /\ r.queue = s.queue
               /\ HasSource(s, t) => HeldByRecovery(s, "playing")
<1> DEFINE play == s.connected /\ s.recovery.observedPause /\ mode = "playing"
           h == [s EXCEPT !.latestPeer = mode, !.expected = "none",
                 !.published = "paused", !.told = "paused",
                 !.recovery.pendingPlay = @ \/ play]
           b == [s EXCEPT !.latestPeer = mode]
           a == Acknowledge(b, mode)
           n == NextIntent(a)
           op == Op("peer", mode, FALSE, n)
           e == Enqueue(n, op)
           r == OnPeer(s, t, mode)
<1>1. CASE s.disposed
  BY <1>1 DEF OnPeer, Stays, SameSource, HasSource
<1>2. CASE ~s.disposed /\ HeldByRecovery(s, mode)
  <2>1. /\ h.gen = s.gen /\ h.intent = s.intent /\ h.disposed = s.disposed
        /\ h.confirmed = s.confirmed /\ h.queue = s.queue
        /\ h.localPlay = s.localPlay
    BY DEF Bridges
  <2> HIDE DEF h
  <2>2. r = h
    BY <1>2 DEF OnPeer, h
  <2>3. HeldByRecovery(s, "playing")
    BY <1>2 DEF HeldByRecovery
  <2>4. QED
    BY <2>1, <2>2, <2>3 DEF Stays, SameSource
<1>3. CASE ~s.disposed /\ ~HeldByRecovery(s, mode)
  <2>1. b \in Bridges /\ b.intent = s.intent /\ b.queue = s.queue
        /\ b.gen = s.gen /\ b.localPlay = s.localPlay /\ SameShow(s, b)
    BY ModeTypes DEF Bridges, SameShow
  <2> HIDE DEF b
  <2>2. a \in Bridges
    BY <2>1, AcknowledgeType
  <2>3. /\ Stays(b, a) /\ SameSource(b, a) /\ a.queue = b.queue
        /\ a.published = mode /\ a.expected = mode /\ a.fresh
        /\ a.recovery = b.recovery /\ a.connected = b.connected
    BY <2>1, AcknowledgeStays
  <2> HIDE DEF a
  <2>4. /\ n \in Bridges /\ n.intent > a.intent /\ n.queue = a.queue
        /\ n.gen = a.gen /\ SameShow(a, n)
    BY <2>2, NextIntentFields
  <2> HIDE DEF n
  <2>5. op \in Operations /\ op.gen = n.gen /\ op.kind = "peer" /\ op.mode = mode
    BY <2>4, OpType DEF Op
  <2> HIDE DEF op
  <2>6. e.queue = Append(n.queue, op) /\ e.intent = n.intent /\ e.gen = n.gen
        /\ SameShow(n, e)
    BY <2>4, EnqueueFields
  <2> HIDE DEF e
  <2>7. Renews(s, e)
    <3>1. RoomPlay(op) => Playable(e, TRUE)
      <4>1. RoomPlay(op) => mode = "playing"
        BY <2>5 DEF RoomPlay
      <4>2. e.published = mode /\ e.expected = mode /\ e.fresh
        BY <2>3, <2>4, <2>6 DEF SameShow
      <4>3. HeldByRecovery(e, mode) = HeldByRecovery(s, mode)
        BY <2>1, <2>3, <2>4, <2>6 DEF SameShow, HeldByRecovery
      <4>4. QED
        BY <1>3, <4>1, <4>2, <4>3 DEF Playable
    <3>2. e.intent > s.intent /\ e.queue = Append(s.queue, op)
      BY <2>1, <2>3, <2>4, <2>6 DEF Stays
    <3>3. QED
      BY <2>5, <2>6, <3>1, <3>2 DEF Renews, Shows
  <2>8. Stays(s, a) /\ SameSource(s, a) /\ a.queue = s.queue
    BY <2>1, <2>3 DEF Stays, SameSource, SameShow
  <2>9. r = IF HasSource(s, t) THEN e ELSE a
    BY <1>3 DEF OnPeer, b, a, n, op, e
  <2>10. QED
    BY <2>7, <2>8, <2>9
<1>4. QED
  BY <1>1, <1>2, <1>3

(* What the decoder reports while a room Play stands does not unsay it.    *)
LEMMA OnReadyPlayerRenews ==
  ASSUME NEW s \in Bridges, NEW t \in Snapshots, NEW near \in BOOLEAN
  PROVE  LET r == OnReadyPlayer(s, t, near)
         IN \/ Renews(s, r)
            \/ /\ Stays(s, r) /\ SameSource(s, r)
               /\ Playable(s, TRUE) => Playable(r, FALSE)
<1> DEFINE r == OnReadyPlayer(s, t, near)
           settled == [s EXCEPT !.deferred = NoKey]
           outside == [settled EXCEPT !.externalPlay = TRUE]
           nativePause == ~t.playing /\ s.published = "playing"
           told == Publish(settled, t, ModeOf(t), nativePause)
           later == [s EXCEPT !.deferred = <<s.intent, s.gen>>]
           heard == ReassertPause(told, TRUE)
           held == ReassertPause(s, FALSE)
           play == LocalPlay(outside, t, TRUE)
           Fits(o) == /\ Stays(s, o) /\ SameSource(s, o)
                      /\ Playable(s, TRUE) => Playable(o, FALSE)
<1>1. /\ settled \in Bridges /\ Stays(s, settled) /\ settled.queue = s.queue
      /\ SameShow(s, settled) /\ settled.intent = s.intent
  BY NoRecoveryType DEF Bridges, Stays, SameShow
<1> HIDE DEF settled
<1>2. /\ outside \in Bridges /\ outside.queue = s.queue /\ outside.intent = s.intent
      /\ Stays(s, outside) /\ SameShow(s, outside)
  BY <1>1 DEF Bridges, Stays, SameShow
<1>3. Stays(s, later) /\ SameShow(s, later)
  BY DEF Bridges, Stays, SameShow
<1> HIDE DEF outside, later
<1>4. ModeOf(t) \in Modes /\ nativePause \in BOOLEAN
  BY ModeTypes DEF ModeOf
<1> HIDE DEF nativePause
<1>5. /\ told \in Bridges /\ Stays(settled, told) /\ SameSource(settled, told)
      /\ told.queue = settled.queue
      /\ told.recovery = settled.recovery /\ told.connected = settled.connected
      /\ HasSource(settled, t) => told.published = ModeOf(t)
      /\ ~HasSource(settled, t) => told = settled
  BY <1>1, <1>4, PublishType, PublishStays
<1> HIDE DEF told
<1>6. Stays(told, heard) /\ SameShow(told, heard)
  BY <1>5, ReassertPauseStays
<1>7. Stays(s, held) /\ SameShow(s, held)
  BY ReassertPauseStays
<1> HIDE DEF heard, held
<1>8. Renews(s, play) \/ play = outside
  BY <1>2, LocalPlayRenews, RenewsChain
<1>9. Stays(s, told) /\ SameSource(s, told) /\ (t.playing => Fits(told))
  <2>1. Stays(s, told) /\ SameSource(s, told)
    BY <1>1, <1>5, StaysChain DEF SameSource, SameShow
  <2>2. t.playing => (Playable(s, TRUE) => Playable(told, FALSE))
    BY <1>1, <1>5 DEF Playable, HeldByRecovery, SameShow, ModeOf
  <2>3. QED
    BY <2>1, <2>2
<1>10. Stays(s, heard) /\ SameSource(s, heard)
  <2>1. SameSource(s, heard)
    BY <1>6, <1>9 DEF SameSource, SameShow
  <2>2. Stays(s, heard)
    BY <1>1, <1>5, <1>6, <1>9, StaysChain
  <2>3. QED
    BY <2>1, <2>2
<1>11. Fits(s) /\ Fits(settled) /\ Fits(outside) /\ Fits(later) /\ Fits(held)
  <2>1. Stays(s, s) /\ SameShow(s, s)
    BY DEF Stays, SameShow
  <2>2. \A o : SameShow(s, o) => SameSource(s, o) /\ (Playable(s, TRUE) => Playable(o, FALSE))
    BY DEF SameShow, SameSource, Playable, HeldByRecovery
  <2>3. QED
    BY <1>1, <1>2, <1>3, <1>7, <2>1, <2>2
<1>12. \/ r \in {s, settled, later, held}
       \/ r = play /\ ~s.externalPlay /\ s.published = "paused"
       \/ r = told /\ (t.playing \/ ~Playable(s, TRUE))
       \/ r = heard /\ ~Playable(s, TRUE)
  <2>1. Playable(s, TRUE) =>
          s.published = "playing" /\ s.expected = "playing" /\ s.fresh
    BY DEF Playable
  <2>2. ModeOf(t) = IF t.playing THEN "playing" ELSE "paused"
    BY DEF ModeOf
  <2>3. QED
    BY <2>1, <2>2 DEF OnReadyPlayer, settled, outside, told, later, heard, held, nativePause
<1> HIDE DEF r, play
<1>13. Renews(s, r) \/ Fits(r)
  BY <1>8, <1>9, <1>10, <1>11, <1>12
<1>14. QED
  BY <1>13 DEF r

(* Nor does an event, even one that the bridge hears between two awaits.   *)
LEMMA OnPlayerRenews ==
  ASSUME NEW s \in Bridges, NEW t \in Snapshots, NEW near \in BOOLEAN
  PROVE  LET r == OnPlayer(s, t, near)
         IN \/ Renews(s, r)
            \/ Stays(s, r) /\ SameShow(s, r)
            \/ /\ ~Applying(s) /\ HasSource(s, t)
               /\ Stays(s, r) /\ SameSource(s, r)
               /\ Playable(s, TRUE) => Playable(r, FALSE)
<1> DEFINE r == OnPlayer(s, t, near)
           stalled == [s EXCEPT !.deferred = NoKey, !.buffering = TRUE,
                                !.bufferTimer = FALSE]
           p == [s EXCEPT !.deferred = IF t.playing THEN NoKey ELSE @]
           timed == [p EXCEPT !.bufferTimer = TRUE]
           q == [p EXCEPT !.buffering = FALSE, !.bufferTimer = FALSE]
           again == RecoverNetworkSource(s, t)
           ready == OnReadyPlayer(q, t, near)
           Quietly(o) == /\ o \in Bridges /\ Stays(s, o) /\ SameShow(s, o)
                         /\ o.queue = s.queue
<1>1. Quietly(p)
  BY NoRecoveryType DEF Bridges, Stays, SameShow
<1>2. Quietly(stalled) /\ Quietly(s)
  BY NoRecoveryType DEF Bridges, Stays, SameShow
<1>3. Quietly(timed) /\ Quietly(q)
  <2> HIDE DEF p
  <2> QED BY <1>1 DEF Bridges, Stays, SameShow
<1>4. \/ r \in {s, stalled, timed}
      \/ r = again /\ MayRecover(s, t)
      \/ r = ready /\ HasSource(s, t) /\ ~Applying(s)
  <2> DEFINE rest == IF t.buffering THEN stalled
                     ELSE IF Applying(s) THEN s
                     ELSE IF p.buffering /\ ~t.playing /\ p.published = "playing"
                     THEN timed ELSE ready
  <2>1. r = IF MayRecover(s, t) THEN again
            ELSE IF ~HasSource(s, t) THEN s ELSE rest
    BY DEF OnPlayer
  <2>2. rest \in {s, stalled, timed} \/ (rest = ready /\ ~Applying(s))
    <3> HIDE DEF p, stalled, timed, ready
    <3> QED OBVIOUS
  <2> HIDE DEF rest, r, again, ready, stalled, timed
  <2>3. CASE MayRecover(s, t)
    BY <2>1, <2>3
  <2>4. CASE ~MayRecover(s, t) /\ HasSource(s, t)
    <3>1. r = rest
      BY <2>1, <2>4
    <3>2. QED
      BY <2>2, <2>4, <3>1
  <2>5. CASE ~MayRecover(s, t) /\ ~HasSource(s, t)
    BY <2>1, <2>5
  <2>6. QED
    BY <2>3, <2>4, <2>5
<1> HIDE DEF p, stalled, timed, q
<1>5. MayRecover(s, t) => Renews(s, again)
  BY RecoverRenews
<1>6. \/ Renews(s, ready)
      \/ /\ Stays(s, ready) /\ SameSource(s, ready)
         /\ Playable(s, TRUE) => Playable(ready, FALSE)
  <2>1. \/ Renews(q, ready)
        \/ /\ Stays(q, ready) /\ SameSource(q, ready)
           /\ Playable(q, TRUE) => Playable(ready, FALSE)
    BY <1>3, OnReadyPlayerRenews
  <2> HIDE DEF ready
  <2>2. CASE Renews(q, ready)
    BY <1>3, <2>2, RenewsChain DEF Stays
  <2>3. CASE /\ Stays(q, ready) /\ SameSource(q, ready)
             /\ Playable(q, TRUE) => Playable(ready, FALSE)
    <3>1. Stays(s, ready) /\ SameSource(s, ready)
      BY <1>3, <2>3, StaysChain DEF SameSource, SameShow
    <3>2. Playable(s, TRUE) => Playable(q, TRUE)
      BY <1>3, SameShowPlayable
    <3>3. QED
      BY <2>3, <3>1, <3>2
  <2>4. QED
    BY <2>1, <2>2, <2>3
<1> HIDE DEF r, again, ready
<1>7. \/ Renews(s, r)
      \/ Stays(s, r) /\ SameShow(s, r)
      \/ /\ ~Applying(s) /\ HasSource(s, t)
         /\ Stays(s, r) /\ SameSource(s, r)
         /\ Playable(s, TRUE) => Playable(r, FALSE)
  BY <1>2, <1>3, <1>4, <1>5, <1>6
<1>8. QED
  BY <1>7 DEF r

-----------------------------------------------------------------------------
(* The steps.  Two situations are left out: a newer intent comes while the *)
(* bridge awaits the pause of a denied or of a failed Play, whose answer   *)
(* is applied without a look at the intent (Unguarded); and a reload       *)
(* outlives the load that took its place: meanwhile the bridge acts on     *)
(* what the decoder reports although an operation is awaited.              *)
Overtaken == pc \in Unguarded /\ bridge.intent # Running.intent
Outlived == pc = "load" /\ loader = "none"
Guarded == ~Overtaken /\ ~Outlived

(* The bridge may hear of the decoder before an operation waits again.     *)
Between == pc = "idle" \/ (pc = "auth" /\ bridge.intent # Running.intent)
Unheard == event /\ Between

FocusHolds == Focused(bridge, target, Unheard, ghost.focusLost)

FocusInv == SilenceInv /\ FocusHolds

(* What the earlier invariants say of one state.                           *)
LEMMA FocusParts ==
  ASSUME FocusInv
  PROVE  /\ TypeOK /\ bridge \in Bridges /\ target \in Snapshots
         /\ ghost \in Histories /\ Occupied /\ Dues(bridge) /\ Dated(bridge)
         /\ At /\ Loading /\ Unheard \in BOOLEAN /\ room \in MaybeMode
         /\ \A i \in ghost.focusLost : i \in Nat /\ i <= bridge.intent
         /\ \A t \in Snapshots : bridge.disposed => ~HasSource(bridge, t)
<1>1. TypeOK /\ Sorted /\ Dated(bridge) /\ At /\ Loading
  BY DEF FocusInv, SilenceInv, GrantInv, AccountInv, Account, Silence
<1>2. /\ bridge \in Bridges /\ target \in Snapshots /\ ghost \in Histories
      /\ Occupied /\ event \in BOOLEAN /\ room \in MaybeMode
  BY <1>1, TypeParts DEF Surroundings
<1>3. Unheard \in BOOLEAN
  BY DEF Unheard
<1>4. \A i \in ghost.focusLost : i \in Nat
  BY <1>2 DEF Histories
<1>5. \A i \in ghost.focusLost : i <= bridge.intent
  BY DEF FocusInv, FocusHolds, Focused, Over
<1>6. QED
  BY <1>1, <1>2, <1>3, <1>4, <1>5 DEF Dues, Sorted, HasSource

(* While a load is under way no source is open, and nothing asks for one.  *)
LEMMA LoadingAsksNothing ==
  ASSUME FocusInv, loader # "none"
  PROVE  /\ ~HasSource(bridge, target)
         /\ bridge.disposed \/ (bridge.confirmed = NoSource /\ Asks(bridge) = {})
<1>1. /\ Loading
      /\ \/ bridge.disposed
         \/ Silent(bridge, target, loader, ghost.consent, FALSE)
  BY DEF FocusInv, SilenceInv, Silence
<1>2. target.conn = "loading"
  BY <1>1 DEF Loading
<1>3. bridge.disposed \/ bridge.confirmed = NoSource
  BY <1>1, <1>2 DEF Silent, Confirmed
<1>4. bridge.disposed \/ Asks(bridge) = {}
  BY <1>1, <1>3 DEF Silent, Unopened, Asks, Newest, Latest, Asking
<1>5. QED
  BY <1>2, <1>3, <1>4 DEF HasSource

(* When everything is settled, the newest command is not about to be       *)
(* overtaken by an event.                                                  *)
LEMMA SettledHears ==
  ASSUME FocusInv, Settled
  PROVE  /\ Asks(bridge) = {} \/ ~Between
         /\ \A t : event => ~HasSource(bridge, t)
<1>1. bridge.queue = <<>> => Asks(bridge) = {}
  BY DEF Asks
<1>2. bridge.queue # <<>> => ~Between
  BY DEF Settled, Between
<1>3. \A t : event => ~HasSource(bridge, t)
  BY DEF Settled, HasSource
<1>4. QED
  BY <1>1, <1>2, <1>3

(* The operation that runs, while no intent has followed it, is the one    *)
(* newest command.                                                         *)
LEMMA RunningAsks ==
  ASSUME FocusInv, bridge.intent = Running.intent, bridge.queue # <<>>,
         Running.kind \in Asking
  PROVE  \A n \in Asks(bridge) : n = 1
<1>1. 1 \in DOMAIN bridge.queue /\ Running = bridge.queue[1]
  BY FocusParts, QueueType DEF Running
<1>2. Latest(bridge, bridge.queue[1])
  BY <1>1 DEF Latest
<1>3. 1 \in Asks(bridge)
  BY <1>1, <1>2 DEF Asks, Newest, FocusInv, FocusHolds, Focused, Ruled
<1>4. QED
  BY <1>3 DEF FocusInv, FocusHolds, Focused, Ruled

(* The four ways a step may go on: by a new intent, by leaving the newest  *)
(* command what it was, by the end of an operation, by the end of the      *)
(* newest command itself.                                                  *)
LEMMA FocusRenews ==
  ASSUME FocusInv, bridge' \in Bridges, Renews(bridge, bridge'),
         ghost'.focusLost \subseteq ghost.focusLost \cup {bridge.intent}
  PROVE  FocusHolds'
<1>1. \A i \in ghost'.focusLost : i \in Nat /\ i <= bridge.intent
  BY FocusParts, QueueType
<1>2. bridge \in Bridges /\ Dues(bridge)
  BY FocusParts
<1>3. \A t, lost : \A u \in BOOLEAN :
        (\A i \in lost : i \in Nat /\ i <= bridge.intent) => Focused(bridge', t, u, lost)
  BY <1>2, RenewsFocused
<1>4. Unheard' \in BOOLEAN
  BY DEF Unheard
<1>5. QED
  BY <1>1, <1>3, <1>4 DEF FocusHolds

LEMMA FocusStays ==
  ASSUME FocusInv, bridge' \in Bridges, Stays(bridge, bridge'),
         ghost'.focusLost = ghost.focusLost,
         \/ Asks(bridge) = {}
         \/ HasSource(bridge', target') =>
              /\ HasSource(bridge, target)
              /\ Playable(bridge, Unheard) => Playable(bridge', Unheard')
  PROVE  FocusHolds'
<1>1. Unheard \in BOOLEAN /\ Unheard' \in BOOLEAN
  BY DEF Unheard
<1>2. bridge \in Bridges /\ Focused(bridge, target, Unheard, ghost.focusLost)
  BY FocusParts DEF FocusInv, FocusHolds
<1> DEFINE u == Unheard
           w == Unheard'
           lost == ghost.focusLost
<1>3. Focused(bridge', target', w, lost)
  <2>1. u \in BOOLEAN /\ w \in BOOLEAN /\ Focused(bridge, target, u, lost)
    BY <1>1, <1>2
  <2>2. \/ Asks(bridge) = {}
        \/ HasSource(bridge', target') =>
             HasSource(bridge, target) /\ (Playable(bridge, u) => Playable(bridge', w))
    OBVIOUS
  <2> HIDE DEF u, w, lost
  <2>3. QED
    BY <1>2, <2>1, <2>2, StaysFocused
<1>4. QED
  BY <1>3 DEF FocusHolds

LEMMA FocusEnds ==
  ASSUME FocusInv, bridge.queue # <<>>, NEW r \in Bridges, bridge' = Finish(r),
         Stays(bridge, r) \/ Renews(bridge, r), ghost'.focusLost = ghost.focusLost,
         \/ Renews(bridge, r)
         \/ \A n \in Asks(bridge) : n = 1
         \/ HasSource(r, target') =>
              /\ HasSource(bridge, target)
              /\ Playable(bridge, Unheard) => Playable(r, Unheard')
  PROVE  FocusHolds'
<1> DEFINE u == Unheard
           w == Unheard'
           lost == ghost.focusLost
           f == Finish(r)
<1>1. u \in BOOLEAN /\ w \in BOOLEAN
  BY DEF Unheard
<1>2. /\ bridge \in Bridges /\ Dues(bridge) /\ Focused(bridge, target, u, lost)
      /\ \A i \in lost : i \in Nat /\ i <= bridge.intent
  BY FocusParts DEF FocusInv, FocusHolds
<1>3. bridge.queue # <<>> /\ r.queue # <<>>
  <2>1. \A op \in Operations : Append(bridge.queue, op) # <<>>
    BY <1>2, QueueType
  <2>2. QED
    BY <2>1 DEF Renews, Stays
<1>4. Focused(f, target', w, lost)
  <2> HIDE DEF u, w, lost
  <2>1. CASE Renews(bridge, r)
    <3>1. Focused(r, target', w, lost)
      BY <1>1, <1>2, <2>1, RenewsFocused
    <3>2. QED
      BY <1>1, <1>3, <3>1, FinishFocused
  <2>2. CASE /\ Stays(bridge, r)
             /\ HasSource(r, target') =>
                  HasSource(bridge, target) /\ (Playable(bridge, u) => Playable(r, w))
    <3>1. Focused(r, target', w, lost)
      BY <1>1, <1>2, <2>2, StaysFocused
    <3>2. QED
      BY <1>1, <1>3, <3>1, FinishFocused
  <2>3. CASE Stays(bridge, r) /\ \A n \in Asks(bridge) : n = 1
    <3>1. \A n \in DOMAIN f.queue : n + 1 # 1 /\ n + 1 \in DOMAIN r.queue
                                   /\ f.queue[n] = r.queue[n + 1]
      BY <1>3, FinishElements
    <3>2. f.intent = r.intent /\ f.gen = r.gen
      BY <1>3, FinishType, FinishAlike DEF Alike
    <3> HIDE DEF f
    <3>3. \A n \in DOMAIN f.queue : ~Latest(f, f.queue[n])
      <4> SUFFICES ASSUME NEW n \in DOMAIN f.queue, Latest(f, f.queue[n]) PROVE FALSE
        OBVIOUS
      <4>1. /\ n + 1 \in DOMAIN r.queue /\ Latest(r, r.queue[n + 1])
        BY <3>1, <3>2 DEF Latest
      <4>2. /\ n + 1 \in DOMAIN bridge.queue /\ Latest(bridge, bridge.queue[n + 1])
        BY <1>2, <2>3, <4>1, StaysAsks
      <4>3. n + 1 \in Asks(bridge)
        BY <1>2, <4>2 DEF Asks, Newest, Focused, Ruled
      <4>4. QED
        BY <2>3, <3>1, <4>3
    <3>4. Asks(f) = {}
      BY <3>3 DEF Asks, Newest
    <3>5. \A i \in lost : i <= f.intent
      BY <1>2, <2>3, <3>2 DEF Stays
    <3>6. QED
      BY <3>3, <3>4, <3>5 DEF Focused, Ruled, Heard, Over
  <2>4. QED
    BY <2>1, <2>2, <2>3 DEF u, w
<1>5. QED
  BY <1>4 DEF FocusHolds

(* Going on to the next await, and ending without a word.                  *)
LEMMA FocusStands ==
  ASSUME FocusInv, bridge' = bridge, target' = target,
         ghost'.focusLost = ghost.focusLost,
         Asks(bridge) = {} \/ ~HasSource(bridge, target) \/ (Unheard' => Unheard)
  PROVE  FocusHolds'
<1>1. bridge' \in Bridges /\ Stays(bridge, bridge')
  BY FocusParts DEF Stays
<1>2. (Unheard' => Unheard) => (Playable(bridge, Unheard) => Playable(bridge', Unheard'))
  BY DEF Playable, HeldByRecovery
<1>3. HasSource(bridge', target') = HasSource(bridge, target)
  OBVIOUS
<1>4. QED
  BY <1>1, <1>2, <1>3, FocusStays

LEMMA FocusGivesUp ==
  ASSUME FocusInv, bridge.queue # <<>>, bridge' = Finish(bridge), target' = target,
         ghost'.focusLost = ghost.focusLost,
         Asks(bridge) = {} \/ ~HasSource(bridge, target) \/ (Unheard' => Unheard)
  PROVE  FocusHolds'
<1>1. bridge \in Bridges /\ Stays(bridge, bridge)
  BY FocusParts DEF Stays
<1>2. (Unheard' => Unheard) => (Playable(bridge, Unheard) => Playable(bridge, Unheard'))
  BY DEF Playable, HeldByRecovery
<1>3. \/ \A n \in Asks(bridge) : n = 1
      \/ HasSource(bridge, target') =>
           HasSource(bridge, target) /\ (Playable(bridge, Unheard) => Playable(bridge, Unheard'))
  BY <1>2
<1>4. QED
  BY <1>1, <1>3, FocusEnds

(* No event is under way where something else happens, unless the bridge   *)
(* is disposed of.                                                         *)
LEMMA SettledUnheard ==
  ASSUME FocusInv, Settled, event' = event
  PROVE  ~HasSource(bridge, target) \/ ~Unheard'
BY SettledHears DEF Unheard

LEMMA IdleUnheard ==
  ASSUME pc = "idle" \/ (pc = "auth" /\ bridge.intent # Running.intent), event' = event
  PROVE  Unheard' => Unheard
BY DEF Unheard, Between

(* An operation reports only when it is the newest command, or when it     *)
(* pauses a decoder that the bridge has published as paused.               *)
LEMMA FocusReports ==
  ASSUME FocusInv, bridge.queue # <<>>, NEW r \in Bridges, bridge' = Finish(r),
         Stays(bridge, r), SameSource(bridge, r), target' = target,
         ghost'.focusLost = ghost.focusLost,
         \/ bridge.intent = Running.intent /\ Running.kind \in Asking
         \/ bridge.published = "paused"
  PROVE  FocusHolds'
<1>1. CASE bridge.intent = Running.intent /\ Running.kind \in Asking
  BY <1>1, RunningAsks, FocusEnds
<1>2. CASE bridge.published = "paused"
  <2>1. ~Playable(bridge, Unheard)
    BY <1>2 DEF Playable
  <2>2. HasSource(r, target') => HasSource(bridge, target)
    BY SameSourceHas
  <2>3. QED
    BY <2>1, <2>2, FocusEnds
<1>3. QED
  BY <1>1, <1>2

LEMMA ExpectingStays ==
  ASSUME NEW s \in Bridges
  PROVE  LET r == [s EXCEPT !.expected = "none"]
         IN /\ r \in Bridges /\ Stays(s, r) /\ SameSource(s, r) /\ r.queue = s.queue
            /\ Playable(s, TRUE) \/ Playable(s, FALSE) => Playable(r, FALSE)
BY ModeTypes DEF Bridges, Stays, SameSource, Playable, HeldByRecovery

(* What a denied or a failed Play reports.                                 *)
Reported(s, mode) ==
  Publish([s EXCEPT !.expected = "none"], target, mode, TRUE)

LEMMA ReportedStays ==
  ASSUME NEW s \in Bridges, target \in Snapshots, NEW mode \in Modes
  PROVE  LET r == Reported(s, mode)
         IN r \in Bridges /\ Stays(s, r) /\ SameSource(s, r)
<1> DEFINE o == [s EXCEPT !.expected = "none"]
           r == Publish(o, target, mode, TRUE)
<1>1. o \in Bridges /\ Stays(s, o) /\ SameSource(s, o) /\ o.queue = s.queue
  BY ExpectingStays
<1> HIDE DEF o
<1>2. r \in Bridges /\ Stays(o, r) /\ SameSource(o, r)
  BY <1>1, PublishType, PublishStays
<1> HIDE DEF r
<1>3. r \in Bridges /\ Stays(s, r) /\ SameSource(s, r)
  BY <1>1, <1>2, StaysChain DEF SameSource
<1>4. QED
  BY <1>3 DEF Reported, r, o

LEMMA FocusExpects ==
  ASSUME FocusInv, bridge' = [bridge EXCEPT !.expected = "none"], target' = target,
         ghost'.focusLost = ghost.focusLost, pc' \notin {"idle", "auth"}
  PROVE  FocusHolds'
<1>1. bridge \in Bridges /\ Unheard \in BOOLEAN
  BY FocusParts
<1>2. /\ bridge' \in Bridges /\ Stays(bridge, bridge') /\ SameSource(bridge, bridge')
      /\ Playable(bridge, TRUE) \/ Playable(bridge, FALSE) => Playable(bridge', FALSE)
  BY <1>1, ExpectingStays
<1>3. Unheard' = FALSE
  BY DEF Unheard, Between
<1>4. HasSource(bridge', target') = HasSource(bridge, target)
  BY <1>2, SameSourceHas
<1>5. Playable(bridge, Unheard) => Playable(bridge', Unheard')
  BY <1>1, <1>2, <1>3
<1>6. QED
  BY <1>2, <1>4, <1>5, FocusStays

-----------------------------------------------------------------------------
(* Every step keeps FocusHolds.  The queue first.                          *)
LEMMA FocusQueue ==
  ASSUME FocusInv, QueueStep, ~RecoveryLoaded, Guarded, bridge' \in Bridges
  PROVE  FocusHolds'
<1> /\ bridge \in Bridges /\ target \in Snapshots /\ ghost \in Histories
    /\ Occupied /\ At /\ TypeOK
  BY FocusParts
<1>1. CASE StartStale \/ AuthorizeSuperseded
  <2>1. bridge.queue # <<>>
    BY <1>1 DEF StartStale, AuthorizeSuperseded, Occupied
  <2>2. Return(bridge) /\ OutsideQueue
    BY <1>1 DEF StartStale, AuthorizeSuperseded
  <2>3. Unheard' => Unheard
    BY <1>1, <2>2, IdleUnheard DEF StartStale, AuthorizeSuperseded, OutsideQueue
  <2>4. QED
    BY <2>1, <2>2, <2>3, FocusGivesUp DEF Return, OutsideQueue
<1>2. CASE StartPeer \/ StartPlay \/ StartReassert
  <2>1. bridge' = bridge /\ ghost' = ghost /\ OutsideQueue
    BY <1>2 DEF StartPeer, StartPlay, StartReassert, Await
  <2>2. Unheard' => Unheard
    BY <1>2, <2>1, IdleUnheard DEF StartPeer, StartPlay, StartReassert, OutsideQueue
  <2>3. QED
    BY <2>1, <2>2, FocusStands DEF OutsideQueue
<1>3. CASE StartLocalCommand
  BY <1>3, FocusExpects DEF StartLocalCommand, Await, OutsideQueue
<1>4. CASE StartRecover
  <2>1. bridge' = bridge /\ target'.conn = "loading"
    BY <1>4 DEF StartRecover, Snapshots
  <2>2. Stays(bridge, bridge') /\ ~HasSource(bridge', target')
    BY <2>1 DEF Stays, HasSource
  <2>3. ghost'.focusLost = ghost.focusLost
    BY <1>4 DEF StartRecover, Histories
  <2>4. QED
    BY <2>2, <2>3, FocusStays
<1>5. CASE RecoverySuperseded
  <2>1. pc = "load" /\ Return(bridge) /\ OutsideQueue
    BY <1>5 DEF RecoverySuperseded
  <2>2. ~HasSource(bridge, target)
    BY <2>1, LoadingAsksNothing DEF Guarded, Outlived
  <2>3. QED
    BY <2>1, <2>2, FocusGivesUp DEF Return, OutsideQueue, Occupied
<1>6. CASE PeerPaused \/ ExternalPlayHeld
  <2>1. Settled /\ OutsideQueue /\ bridge.queue # <<>>
    BY <1>6 DEF PeerPaused, ExternalPlayHeld, Awaiting, Occupied
  <2>2. ~HasSource(bridge, target) \/ ~Unheard'
    BY <2>1, SettledUnheard DEF OutsideQueue
  <2>3. ghost' = ghost /\ (bridge' = bridge \/ bridge' = Finish(bridge))
    BY <1>6 DEF PeerPaused, ExternalPlayHeld, Await, Return
  <2>4. QED
    BY <2>1, <2>2, <2>3, FocusStands, FocusGivesUp DEF OutsideQueue
<1>7. CASE PeerSought \/ Played \/ LocalCommandDone \/ ReassertDone
           \/ PlaybackDenied \/ ErrorPaused
  <2>1. Settled /\ OutsideQueue /\ bridge.queue # <<>> /\ ghost' = ghost
    BY <1>7 DEF PeerSought, Played, LocalCommandDone, ReassertDone, PlaybackDenied,
       ErrorPaused, Awaiting, Occupied, Await, Return
  <2>2. ~HasSource(bridge, target) \/ ~Unheard'
    BY <2>1, SettledUnheard DEF OutsideQueue
  <2>3. CASE bridge' = bridge \/ bridge' = Finish(bridge)
    BY <2>1, <2>2, <2>3, FocusStands, FocusGivesUp DEF OutsideQueue
  <2> DEFINE Telling(r) == bridge' = Finish(r) /\ Stays(bridge, r)
                           /\ SameSource(bridge, r) /\ r \in Bridges
  <2>4. \A mode \in Modes, changed \in BOOLEAN :
          LET r == Publish(bridge, target, mode, changed)
          IN bridge' = Finish(r) => Telling(r)
    BY PublishType, PublishStays
  <2>5. \A mode \in Modes :
          LET r == Acknowledge(bridge, mode) IN bridge' = Finish(r) => Telling(r)
    BY AcknowledgeType, AcknowledgeStays
  <2>6. Running \in Operations /\ Running.mode \in Modes
    BY <2>1, RunningType DEF Operations
  <2>7. ASSUME PeerSought, ~(bridge' = bridge \/ bridge' = Finish(bridge))
        PROVE  /\ bridge.intent = Running.intent /\ Running.kind \in Asking
               /\ Telling(Acknowledge(bridge, Running.mode))
    <3> HIDE DEF Telling
    <3> QED
      BY <2>5, <2>6, <2>7 DEF PeerSought, Awaiting, Await, Return, At, Asking,
         RunningIsCurrent, Current
  <2>8. ASSUME Played, ~(bridge' = bridge \/ bridge' = Finish(bridge))
        PROVE  /\ bridge.intent = Running.intent /\ Running.kind \in Asking
               /\ \/ Telling(Acknowledge(bridge, "playing"))
                  \/ Telling(Publish(bridge, target, "playing", TRUE))
    <3> HIDE DEF Telling
    <3> QED
      BY <2>4, <2>5, <2>8, ModeTypes DEF Played, Awaiting, Return, At, Starts, Asking,
         RunningIsCurrent, Current
  <2>9. ASSUME LocalCommandDone, ~(bridge' = bridge \/ bridge' = Finish(bridge))
        PROVE  /\ bridge.intent = Running.intent /\ Running.kind \in Asking
               /\ \E mode \in Modes : Telling(Publish(bridge, target, mode, TRUE))
    <3> HIDE DEF Telling
    <3> DEFINE kept == IF bridge.published = "none" THEN ModeOf(target)
                       ELSE bridge.published
               mode == IF Running.kind = "seek" THEN kept ELSE "paused"
    <3>1. mode \in Modes
      BY ModeTypes DEF Bridges
    <3>2. RunningIsCurrent /\ Running.kind \in {"pause", "seek"}
          /\ bridge' = Finish(Publish(bridge, target, mode, TRUE))
      BY <2>9 DEF LocalCommandDone, Return
    <3> HIDE DEF mode
    <3>3. QED
      BY <2>4, <3>1, <3>2 DEF Asking, RunningIsCurrent, Current
  <2>10. ASSUME ReassertDone, ~(bridge' = bridge \/ bridge' = Finish(bridge))
         PROVE  /\ bridge.published = "paused"
                /\ \/ Telling(Acknowledge(bridge, "paused"))
                   \/ Telling(Publish(bridge, target, "paused", FALSE))
    <3> HIDE DEF Telling
    <3> QED
      BY <2>4, <2>5, <2>10, ModeTypes DEF ReassertDone, Return
  <2>11. ASSUME PlaybackDenied \/ ErrorPaused
         PROVE  /\ bridge.intent = Running.intent /\ Running.kind \in Asking
                /\ \E r : Telling(r)
    <3>1. /\ bridge.intent = Running.intent /\ Running.kind \in Asking
      BY <2>11 DEF PlaybackDenied, ErrorPaused, Awaiting, Guarded, Overtaken, Unguarded,
         At, Starts, Asking
    <3>2. \E mode \in Modes : bridge' = Finish(Reported(bridge, mode))
      BY <2>11, ModeTypes DEF PlaybackDenied, ErrorPaused, Return, ReportError, Reported
    <3>3. QED
      BY <3>1, <3>2, ReportedStays
  <2>12. ASSUME ~(bridge' = bridge \/ bridge' = Finish(bridge))
         PROVE  /\ \E r : Telling(r)
                /\ \/ bridge.intent = Running.intent /\ Running.kind \in Asking
                   \/ bridge.published = "paused"
    <3> HIDE DEF Telling
    <3> QED BY <1>7, <2>7, <2>8, <2>9, <2>10, <2>12, <2>11
  <2>13. CASE ~(bridge' = bridge \/ bridge' = Finish(bridge))
    <3>1. PICK r : Telling(r)
      BY <2>12, <2>13
    <3>2. QED
      BY <2>1, <2>12, <2>13, <3>1, FocusReports DEF OutsideQueue
  <2>14. QED
    BY <2>3, <2>13
<1>8. QED
  BY <1>1, <1>2, <1>3, <1>4, <1>5, <1>6, <1>7 DEF QueueStep

LEMMA FocusAnswered ==
  ASSUME FocusInv, Authorization \/ \E late \in BOOLEAN : CommandFails(late), Guarded
  PROVE  FocusHolds'
<1> bridge \in Bridges /\ target \in Snapshots /\ ghost \in Histories /\ Occupied /\ At
  BY FocusParts
<1>1. /\ Settled /\ bridge.queue # <<>> /\ target' = target /\ event' = event
      /\ ghost'.focusLost = ghost.focusLost
  BY DEF Authorization, AuthorizeGranted, AuthorizeDenied, AuthorizeFailed,
     CommandFails, OutsideQueue, Return, Await, Occupied, Histories
<1>2. ~HasSource(bridge, target) \/ ~Unheard'
  BY <1>1, SettledUnheard
<1>3. CASE bridge' = bridge \/ bridge' = Finish(bridge)
  BY <1>1, <1>2, <1>3, FocusStands, FocusGivesUp
<1>4. CASE bridge' = [bridge EXCEPT !.expected = "none"] /\ pc' = "play"
  BY <1>1, <1>4, FocusExpects
<1>5. CASE bridge' = Finish(ReportError(bridge)) /\ pc = "errorPause"
  <2>1. bridge.intent = Running.intent /\ Running.kind \in Asking
    BY <1>5 DEF Guarded, Overtaken, Unguarded, At, Asking
  <2>2. /\ ReportError(bridge) \in Bridges /\ Stays(bridge, ReportError(bridge))
        /\ SameSource(bridge, ReportError(bridge))
    BY ReportedStays, ModeTypes DEF ReportError, Reported
  <2>3. QED
    BY <1>1, <1>5, <2>1, <2>2, FocusReports
<1>6. \/ bridge' = bridge \/ bridge' = Finish(bridge)
      \/ bridge' = [bridge EXCEPT !.expected = "none"] /\ pc' = "play"
      \/ bridge' = Finish(ReportError(bridge)) /\ pc = "errorPause"
  BY DEF Authorization, AuthorizeGranted, AuthorizeDenied, AuthorizeFailed,
     CommandFails, Return, Await
<1>7. QED
  BY <1>3, <1>4, <1>5, <1>6

(* The reloads of a recovery: nothing asks for a Play before they settle.  *)
LEMMA ReopeningStays ==
  ASSUME NEW s \in Bridges, NEW t
  PROVE  Stays(s, Reopening(s, t)) /\ Reopening(s, t).queue = s.queue
<1> DEFINE rec == [s.recovery EXCEPT !.recovering = FALSE, !.pendingPlay = FALSE]
           o == [s EXCEPT !.confirmed = t.media, !.expected = "none",
                          !.recovery = rec]
<1>1. Stays(s, o) /\ o.queue = s.queue
  <2> HIDE DEF rec
  <2> QED BY DEF Bridges, Stays
<1>2. Reopening(s, t) = o
  BY DEF Reopening, Bridges
<1> HIDE DEF o
<1>3. QED
  BY <1>1, <1>2

(* After notes that leave the queue and the intent alone.                  *)
LEMMA OnPeerAfter ==
  ASSUME NEW s \in Bridges, NEW o \in Bridges, Stays(s, o), o.queue = s.queue,
         NEW t, NEW mode \in Modes
  PROVE  Renews(s, OnPeer(o, t, mode)) \/ Stays(s, OnPeer(o, t, mode))
<1> DEFINE r == OnPeer(o, t, mode)
<1>1. Renews(o, r) \/ Stays(o, r)
  BY OnPeerRenews
<1> HIDE DEF r
<1>2. Renews(s, r) \/ Stays(s, r)
  BY <1>1, RenewsChain, StaysChain DEF Stays
<1>3. QED
  BY <1>2 DEF r

LEMMA FocusReloads ==
  ASSUME FocusInv, NEW r \in Bridges, bridge.queue # <<>>, bridge' = Finish(r),
         Renews(bridge, r) \/ Stays(bridge, r), loader # "none",
         bridge.disposed => r = bridge, ghost'.focusLost = ghost.focusLost
  PROVE  FocusHolds'
<1>1. CASE bridge.disposed
  BY <1>1, FocusEnds DEF HasSource
<1>2. CASE ~bridge.disposed
  <2>1. Asks(bridge) = {}
    BY <1>2, LoadingAsksNothing
  <2>2. QED
    BY <2>1, FocusEnds
<1>3. QED
  BY <1>1, <1>2

LEMMA FocusLoaded ==
  ASSUME FocusInv, RecoveryLoaded
  PROVE  FocusHolds'
<1> bridge \in Bridges /\ target \in Snapshots /\ Occupied
  BY FocusParts
<1> DEFINE open == Reopening(bridge, target')
           told == Publish(open, target', "paused", FALSE)
           peer == OnPeer(told, target', "playing")
<1>1. target' \in Snapshots /\ target'.media = target.media
  BY DEF RecoveryLoaded, Snapshots
<1>2. Sourced(bridge)
  BY DEF FocusInv, SilenceInv, AccountInv, Notes
<1>3. open \in Bridges /\ Stays(bridge, open) /\ open.queue = bridge.queue
  BY <1>1, <1>2, ReopeningFields, ReopeningStays
<1>4. /\ bridge.queue # <<>> /\ loader # "none" /\ ghost' = ghost
      /\ \/ bridge' = Finish(bridge)
         \/ ~bridge.disposed /\ (bridge' = Finish(told) \/ bridge' = Finish(peer))
  BY <1>1 DEF RecoveryLoaded, Occupied, told, open, peer, Reopening
<1> HIDE DEF open
<1>5. told \in Bridges /\ Stays(bridge, told) /\ told.queue = bridge.queue
  BY <1>1, <1>3, PublishType, PublishStays, StaysChain, ModeTypes
<1> HIDE DEF told
<1>6. peer \in Bridges /\ (Renews(bridge, peer) \/ Stays(bridge, peer))
  BY <1>1, <1>5, OnPeerType, OnPeerAfter, ModeTypes
<1> HIDE DEF peer
<1>7. Stays(bridge, bridge)
  BY DEF Stays
<1>8. QED
  BY <1>4, <1>5, <1>6, <1>7, FocusReloads

LEMMA FocusReloadFails ==
  ASSUME FocusInv, RecoveryFailed
  PROVE  FocusHolds'
<1> bridge \in Bridges /\ target \in Snapshots /\ Occupied
  BY FocusParts
<1> DEFINE o == RecoverySettled(bridge)
           again == RecoverNetworkSource(o, target')
<1>1. target' \in Snapshots
  BY DEF RecoveryFailed, Snapshots
<1>2. o \in Bridges /\ Stays(bridge, o) /\ o.queue = bridge.queue
  BY RecoverySettledType DEF RecoverySettled, Bridges, Stays
<1>3. /\ bridge.queue # <<>> /\ loader # "none" /\ ghost' = ghost
      /\ \/ bridge' = Finish(bridge)
         \/ ~bridge.disposed /\ bridge' = Finish(again)
  BY DEF RecoveryFailed, Occupied
<1> HIDE DEF o
<1>4. again \in Bridges /\ (Renews(o, again) \/ again = o)
  BY <1>1, <1>2, RecoverType, RecoverRenews
<1> HIDE DEF again
<1>5. Renews(bridge, again) \/ Stays(bridge, again)
  BY <1>2, <1>4, RenewsChain DEF Stays
<1>6. Stays(bridge, bridge)
  BY DEF Stays
<1>7. QED
  BY <1>3, <1>4, <1>5, <1>6, FocusReloads

LEMMA DisposeRenews ==
  ASSUME NEW s \in Bridges
  PROVE  Renews(s, [NextIntent([s EXCEPT !.recovery = NoRecovery])
                      EXCEPT !.disposed = TRUE, !.gen = @ + 1])
<1> DEFINE c == [s EXCEPT !.recovery = NoRecovery]
           n == NextIntent(c)
           r == [n EXCEPT !.disposed = TRUE, !.gen = @ + 1]
<1>1. c \in Bridges /\ c.intent = s.intent /\ c.queue = s.queue
  BY NoRecoveryType DEF Bridges
<1> HIDE DEF c
<1>2. n \in Bridges /\ n.intent > s.intent /\ n.queue = s.queue
  BY <1>1, NextIntentFields
<1> HIDE DEF n
<1>3. Renews(s, r)
  BY <1>2 DEF Renews, Bridges
<1>4. QED
  BY <1>3 DEF r, n, c

LEMMA OpeningStays ==
  ASSUME NEW s \in Bridges, NEW t \in Snapshots
  PROVE  Stays(s, Opening(s, t))
BY DEF Opening, Stays, Bridges

LEMMA MarkSourceOpenRenews ==
  ASSUME NEW s \in Bridges, NEW t \in Snapshots, room \in MaybeMode
  PROVE  Renews(s, MarkSourceOpen(s, t)) \/ Stays(s, MarkSourceOpen(s, t))
<1> DEFINE o == Opening(s, t)
           peer == IF room # "none" THEN room ELSE s.latestPeer
           told == Publish(o, t, ModeOf(t), FALSE)
           heard == OnPeer(o, t, peer)
           r == MarkSourceOpen(s, t)
<1>1. o \in Bridges /\ Stays(s, o) /\ o.queue = s.queue
  BY OpeningFields, OpeningStays
<1>2. peer \in MaybeMode
  BY DEF Bridges
<1>3. r = IF peer # "none" THEN heard ELSE told
  BY DEF MarkSourceOpen, Opening
<1> HIDE DEF o, peer
<1>4. Stays(s, told)
  BY <1>1, PublishStays, StaysChain, ModeTypes
<1>5. peer # "none" => Renews(s, heard) \/ Stays(s, heard)
  BY <1>1, <1>2, OnPeerAfter, ModeTypes
<1> HIDE DEF told, heard, r
<1>6. Renews(s, r) \/ Stays(s, r)
  BY <1>3, <1>4, <1>5
<1>7. QED
  BY <1>6 DEF r

LEMMA FocusUser ==
  ASSUME FocusInv, User, bridge' \in Bridges
  PROVE  FocusHolds'
<1> /\ bridge \in Bridges /\ target \in Snapshots /\ ghost \in Histories
    /\ room \in MaybeMode
  BY FocusParts
<1>1. ghost'.focusLost = ghost.focusLost
  BY DEF User, UserPlay, UserPause, UserSeek, Dispose, UserLoads, UserLoadDone,
     UserLoadFails, Histories
<1>2. CASE UserPlay \/ UserPause \/ UserSeek
  <2>1. Renews(bridge, bridge')
    BY <1>2, LocalPlayRenews, LocalCommandRenews DEF UserPlay, UserPause, UserSeek
  <2>2. QED
    BY <1>1, <2>1, FocusRenews
<1>3. CASE Dispose \/ \E source \in Sources : UserLoads(source)
  <2>1. Renews(bridge, bridge')
    BY <1>3, DisposeRenews, BeginSourceLoadRenews DEF Dispose, UserLoads
  <2>2. QED
    BY <1>1, <2>1, FocusRenews
<1>4. CASE UserLoadDone
  <2>1. CASE bridge.disposed
    <3>1. bridge' = bridge
      BY <1>4, <2>1 DEF UserLoadDone
    <3>2. Stays(bridge, bridge') /\ ~HasSource(bridge', target')
      BY <2>1, <3>1 DEF Stays, HasSource
    <3>3. QED
      BY <1>1, <3>2, FocusStays
  <2>2. CASE ~bridge.disposed
    <3>1. Asks(bridge) = {}
      BY <1>4, <2>2, LoadingAsksNothing DEF UserLoadDone
    <3>2. target' \in Snapshots /\ bridge' = MarkSourceOpen(bridge, target')
      BY <1>4, <2>2 DEF UserLoadDone, Snapshots
    <3>3. Renews(bridge, bridge') \/ Stays(bridge, bridge')
      BY <3>2, MarkSourceOpenRenews
    <3>4. QED
      BY <1>1, <3>1, <3>3, FocusRenews, FocusStays
  <2>3. QED
    BY <2>1, <2>2
<1>5. CASE UserLoadFails
  <2>1. bridge' = bridge /\ target'.conn = "failed"
    BY <1>5 DEF UserLoadFails, Snapshots
  <2>2. Stays(bridge, bridge') /\ ~HasSource(bridge', target')
    BY <2>1 DEF Stays, HasSource
  <2>3. QED
    BY <1>1, <2>2, FocusStays
<1>6. QED
  BY <1>2, <1>3, <1>4, <1>5 DEF User

(* A handler that leaves the newest command what it was does not move the  *)
(* operation that is awaited either.                                       *)
LEMMA StaysUnheard ==
  ASSUME FocusInv, Next, pc' = pc, event' = event, Stays(bridge, bridge')
  PROVE  Unheard' => Unheard
<1>1. TypeOK /\ Sorted /\ bridge \in Bridges /\ Occupied
  BY FocusParts DEF FocusInv, SilenceInv, GrantInv
<1>2. CASE bridge.queue = <<>>
  BY <1>1, <1>2 DEF Unheard, Between, Occupied
<1>3. CASE bridge.queue # <<>>
  <2>1. Running' = Running
    <3>1. \A op \in Operations : Head(Append(bridge.queue, op)) = Head(bridge.queue)
      BY <1>1, <1>3, QueueType
    <3>2. QED
      BY <3>1 DEF Stays, Running
  <2>2. QED
    BY <2>1 DEF Unheard, Between, Stays
<1>4. QED
  BY <1>2, <1>3

LEMMA RenewsThen ==
  ASSUME NEW s, NEW r, NEW f, Renews(s, r), SameShow(r, f), f.queue = r.queue,
         f.intent = r.intent, f.gen = r.gen, f.localPlay = r.localPlay
  PROVE  Renews(s, f)
<1>1. Playable(r, TRUE) => Playable(f, TRUE)
  BY SameShowPlayable
<1>2. \A op : Shows(r, op) => Shows(f, op)
  BY <1>1 DEF Shows
<1>3. QED
  BY <1>2 DEF Renews

(* A paused room lifts the hold of a recovery, nothing else.               *)
LEMMA FocusRoomState ==
  ASSUME FocusInv, Next, NEW mode \in Modes, NEW follow \in BOOLEAN,
         RoomState(mode, follow), bridge' \in Bridges
  PROVE  FocusHolds'
<1> /\ bridge \in Bridges /\ target \in Snapshots /\ ghost \in Histories
    /\ Unheard \in BOOLEAN
  BY FocusParts
<1> DEFINE rec == [bridge.recovery EXCEPT !.observedPause = TRUE,
                                          !.pendingPlay = FALSE]
           noted == [bridge EXCEPT !.recovery = rec]
           seen == IF /\ ~bridge.disposed /\ bridge.connected
                      /\ bridge.recovery # NoRecovery /\ mode = "paused"
                   THEN [bridge EXCEPT !.recovery.observedPause = TRUE,
                                       !.recovery.pendingPlay = FALSE]
                   ELSE bridge
           heard == [seen EXCEPT !.told = mode]
           peer == OnPeer(heard, target, mode)
           told == IF follow THEN peer ELSE seen
           last == [told EXCEPT !.pending = FALSE]
           Fits(o) == /\ Stays(bridge, o) /\ SameSource(bridge, o)
                      /\ o.queue = bridge.queue
                      /\ HeldByRecovery(o, "playing") => HeldByRecovery(bridge, "playing")
                      /\ Playable(bridge, Unheard) => Playable(o, Unheard)
<1>1. /\ bridge' = last /\ pc' = pc /\ event' = event /\ target' = target
      /\ ghost'.focusLost = ghost.focusLost
  BY DEF RoomState, Histories
<1>2. seen \in Bridges /\ Fits(seen)
  <2>1. /\ rec \in Recoveries /\ rec.recovering = bridge.recovery.recovering
        /\ rec.observedPause
    BY DEF Bridges, Recoveries
  <2>2. noted \in Bridges /\ Stays(bridge, noted) /\ SameSource(bridge, noted)
        /\ noted.queue = bridge.queue /\ noted.recovery = rec
        /\ noted.published = bridge.published /\ noted.expected = bridge.expected
        /\ noted.fresh = bridge.fresh /\ noted.connected = bridge.connected
    <3> HIDE DEF rec
    <3> QED BY <2>1 DEF Bridges, Stays, SameSource
  <2>3. seen = bridge \/ (seen = noted /\ bridge.recovery # NoRecovery)
    BY DEF Bridges
  <2>4. Fits(bridge)
    BY DEF Stays, SameSource
  <2> HIDE DEF seen, noted, rec
  <2>5. HeldByRecovery(noted, "playing") /\ bridge.recovery # NoRecovery
          => HeldByRecovery(bridge, "playing")
    BY <2>1, <2>2 DEF HeldByRecovery
  <2>6. bridge.recovery # NoRecovery => Fits(noted)
    BY <2>2, <2>5 DEF Playable
  <2>7. QED
    BY <2>2, <2>3, <2>4, <2>6
<1> HIDE DEF seen
<1>3. heard \in Bridges /\ Stays(seen, heard) /\ SameShow(seen, heard)
      /\ heard.queue = seen.queue
  BY <1>2 DEF Bridges, Stays, SameShow
<1> HIDE DEF heard
<1>4. heard.queue = bridge.queue /\ Stays(bridge, heard) /\ SameSource(bridge, heard)
  BY <1>2, <1>3, StaysChain DEF SameShow, SameSource
<1>5. HeldByRecovery(heard, "playing") => HeldByRecovery(bridge, "playing")
  BY <1>2, <1>3 DEF SameShow, HeldByRecovery
<1>6. /\ peer \in Bridges
      /\ \/ Renews(heard, peer)
         \/ /\ Stays(heard, peer) /\ SameSource(heard, peer)
            /\ peer.queue = heard.queue
            /\ HasSource(heard, target) => HeldByRecovery(heard, "playing")
  BY <1>3, OnPeerType, OnPeerRenews
<1> HIDE DEF peer
<1>7. /\ told \in Bridges
      /\ \/ Renews(bridge, told)
         \/ /\ Stays(bridge, told) /\ SameSource(bridge, told)
            /\ HasSource(bridge, target) =>
                 (Playable(bridge, Unheard) => Playable(told, Unheard))
  <2>1. CASE ~follow
    BY <1>2, <2>1
  <2>2. CASE follow /\ Renews(heard, peer)
    BY <1>4, <1>6, <2>2, RenewsChain DEF Stays
  <2>3. CASE /\ follow /\ Stays(heard, peer) /\ SameSource(heard, peer)
             /\ peer.queue = heard.queue
             /\ HasSource(heard, target) => HeldByRecovery(heard, "playing")
    <3>1. Stays(bridge, peer) /\ SameSource(bridge, peer)
      BY <1>4, <2>3, StaysChain DEF SameSource
    <3>2. HasSource(bridge, target) => ~Playable(bridge, Unheard)
      BY <1>4, <1>5, <2>3, SameSourceHas DEF Playable
    <3>3. QED
      BY <1>6, <2>3, <3>1, <3>2
  <2>4. QED
    BY <1>6, <2>1, <2>2, <2>3
<1> HIDE DEF told
<1>8. /\ SameShow(told, last) /\ last.queue = told.queue /\ last.intent = told.intent
      /\ last.gen = told.gen /\ last.localPlay = told.localPlay
  BY <1>7 DEF Bridges, SameShow
<1> HIDE DEF last
<1>9. CASE Renews(bridge, told)
  <2>1. Renews(bridge, last)
    BY <1>8, <1>9, RenewsThen
  <2>2. QED
    BY <1>1, <2>1, FocusRenews
<1>10. CASE /\ Stays(bridge, told) /\ SameSource(bridge, told)
            /\ HasSource(bridge, target) =>
                 (Playable(bridge, Unheard) => Playable(told, Unheard))
  <2>1. Stays(bridge, bridge') /\ SameSource(bridge, bridge')
    BY <1>1, <1>8, <1>10 DEF Stays, SameSource, SameShow
  <2>2. Unheard' => Unheard
    BY <1>1, <2>1, StaysUnheard
  <2>3. HasSource(bridge', target') = HasSource(bridge, target)
    BY <1>1, <2>1, SameSourceHas
  <2>4. Playable(told, Unheard) => Playable(last, Unheard)
    BY <1>8, SameShowPlayable
  <2>5. Playable(last, Unheard) => Playable(bridge', Unheard')
    BY <1>1, <2>2 DEF Playable, HeldByRecovery
  <2>6. QED
    BY <1>1, <1>10, <2>1, <2>3, <2>4, <2>5, FocusStays
<1>11. QED
  BY <1>7, <1>9, <1>10

LEMMA OutageStays ==
  ASSUME NEW s \in Bridges, NEW t \in Snapshots
  PROVE  LET o == Outage(s, t)
         IN /\ o \in Bridges /\ Stays(s, o) /\ SameSource(s, o)
            /\ o.queue = s.queue /\ o.intent = s.intent
<1> DEFINE fresh == [NoRecovery EXCEPT !.source = s.confirmed, !.gen = s.gen]
           a == [s EXCEPT !.recovery = fresh]
           b == [s EXCEPT !.recovery.attempted = FALSE, !.recovery.reconnected = "no",
                   !.recovery.observedPause = FALSE,
                   !.recovery.pendingPlay = FALSE]
           c == [s EXCEPT !.recovery.observedPause = FALSE,
                   !.recovery.pendingPlay = FALSE]
           Fits(o) == Stays(s, o) /\ SameSource(s, o) /\ o.queue = s.queue
<1>1. Fits(a)
  <2> HIDE DEF fresh
  <2> QED BY DEF Bridges, Stays, SameSource
<1>2. Fits(b) /\ Fits(c) /\ Fits(s)
  BY DEF Bridges, Stays, SameSource
<1>3. PICK r \in {a, b, c, s} : Outage(s, t) = [r EXCEPT !.connected = FALSE]
  BY DEF Outage
<1> HIDE DEF a, b, c
<1>4. Fits(r)
  BY <1>1, <1>2
<1>5. PICK o : o = Outage(s, t)
  OBVIOUS
<1>6. o \in Bridges /\ o.queue = s.queue /\ o.intent = s.intent
  BY <1>5, OutageType
<1>7. o.gen = r.gen /\ o.localPlay = r.localPlay /\ o.confirmed = r.confirmed
      /\ o.disposed = r.disposed
  BY <1>3, <1>5
<1>8. Stays(s, o) /\ SameSource(s, o)
  BY <1>4, <1>6, <1>7 DEF Stays, SameSource
<1>9. QED
  BY <1>5, <1>6, <1>8

LEMMA FocusRoom ==
  ASSUME FocusInv, Next, Room, bridge' \in Bridges
  PROVE  FocusHolds'
<1> /\ bridge \in Bridges /\ target \in Snapshots /\ ghost \in Histories
    /\ Unheard \in BOOLEAN
  BY FocusParts
<1>1. CASE \E mode \in Modes, follow \in BOOLEAN : RoomState(mode, follow)
  BY <1>1, FocusRoomState
<1>2. ASSUME ConnectionLost \/ LoggedIn \/ ConnectionRestored \/ RecoveryWindowEnds
      PROVE  /\ pc' = pc /\ event' = event /\ target' = target
             /\ ghost'.focusLost = ghost.focusLost
  BY <1>2 DEF ConnectionLost, LoggedIn, ConnectionRestored, RecoveryWindowEnds, Histories
<1>3. ASSUME ConnectionLost \/ LoggedIn \/ ConnectionRestored \/ RecoveryWindowEnds,
             Stays(bridge, bridge'), SameSource(bridge, bridge'),
             HasSource(bridge, target) =>
               (Playable(bridge, Unheard) => Playable(bridge', Unheard))
      PROVE  FocusHolds'
  <2>1. Unheard' => Unheard
    BY <1>2, <1>3, StaysUnheard
  <2>2. HasSource(bridge', target') = HasSource(bridge, target)
    BY <1>2, <1>3, SameSourceHas
  <2>3. Playable(bridge', Unheard) => Playable(bridge', Unheard')
    BY <2>1 DEF Playable, HeldByRecovery
  <2>4. QED
    BY <1>2, <1>3, <2>2, <2>3, FocusStays
<1>4. CASE ConnectionLost
  <2>1. CASE bridge.disposed
    <3>1. Stays(bridge, bridge') /\ SameSource(bridge, bridge')
      BY <1>4, <2>1 DEF ConnectionLost, Bridges, Stays, SameSource
    <3>2. ~HasSource(bridge, target)
      BY <2>1 DEF HasSource
    <3>3. QED
      BY <1>3, <1>4, <3>1, <3>2
  <2>2. CASE ~bridge.disposed
    <3> DEFINE o == Outage(bridge, target)
    <3>1. /\ o \in Bridges /\ Stays(bridge, o) /\ SameSource(bridge, o)
          /\ o.queue = bridge.queue /\ o.intent = bridge.intent
      BY OutageStays
    <3>2. bridge' = LocalCommand(o, target, "pause")
      BY <1>4, <2>2 DEF ConnectionLost
    <3> HIDE DEF o
    <3>3. IF HasSource(o, target) THEN Renews(o, bridge') ELSE bridge' = o
      BY <3>1, <3>2, LocalCommandRenews
    <3>4. HasSource(o, target) = HasSource(bridge, target)
      BY <3>1, SameSourceHas
    <3>5. CASE HasSource(o, target)
      <4>1. Renews(bridge, bridge')
        BY <3>1, <3>3, <3>5, RenewsChain
      <4>2. QED
        BY <1>2, <1>4, <4>1, FocusRenews
    <3>6. CASE ~HasSource(o, target)
      BY <1>3, <1>4, <3>1, <3>3, <3>4, <3>6
    <3>7. QED
      BY <3>5, <3>6
  <2>3. QED
    BY <2>1, <2>2
<1>5. CASE LoggedIn
  <2>1. bridge' = bridge
    BY <1>5 DEF LoggedIn
  <2>2. Stays(bridge, bridge') /\ SameSource(bridge, bridge')
    BY <2>1 DEF Stays, SameSource
  <2>3. QED
    BY <1>3, <1>5, <2>1, <2>2
<1>6. CASE ConnectionRestored
  <2>1. CASE bridge.disposed
    <3>1. Stays(bridge, bridge') /\ SameSource(bridge, bridge')
      BY <1>6, <2>1 DEF ConnectionRestored, Bridges, Stays, SameSource
    <3>2. ~HasSource(bridge, target)
      BY <2>1 DEF HasSource
    <3>3. QED
      BY <1>3, <1>6, <3>1, <3>2
  <2>2. CASE ~bridge.disposed
    <3> DEFINE rec == [bridge.recovery EXCEPT !.reconnected =
                         IF bridge.recovery # NoRecovery /\ @ = "no" THEN "yes" ELSE @]
               up == [bridge EXCEPT !.connected = TRUE, !.recovery = rec]
    <3>1. rec \in Recoveries /\ (bridge.recovery = NoRecovery => rec = NoRecovery)
      <4>1. rec \in Recoveries
        BY DEF Bridges, Recoveries
      <4>2. bridge.recovery = NoRecovery => rec = NoRecovery
        BY DEF NoRecovery
      <4>3. QED
        BY <4>1, <4>2
    <3>2. bridge' = RecoverNetworkSource(up, target) /\ ~bridge.connected
      BY <1>6, <2>2 DEF ConnectionRestored, Bridges
    <3>3. /\ up \in Bridges /\ Stays(bridge, up) /\ SameSource(bridge, up)
          /\ up.queue = bridge.queue /\ up.intent = bridge.intent
          /\ up.recovery = rec /\ up.published = bridge.published
          /\ up.expected = bridge.expected /\ up.fresh = bridge.fresh
      <4> HIDE DEF rec
      <4> QED BY <3>1 DEF Bridges, Stays, SameSource
    <3> HIDE DEF up, rec
    <3>4. IF MayRecover(up, target) THEN Renews(up, bridge') ELSE bridge' = up
      BY <3>2, <3>3, RecoverRenews
    <3>5. Playable(bridge, Unheard) => Playable(up, Unheard)
      BY <3>1, <3>2, <3>3 DEF Playable, HeldByRecovery
    <3>6. CASE MayRecover(up, target)
      <4>1. Renews(bridge, bridge')
        BY <3>3, <3>4, <3>6, RenewsChain
      <4>2. QED
        BY <1>2, <1>6, <4>1, FocusRenews
    <3>7. CASE ~MayRecover(up, target)
      BY <1>3, <1>6, <3>3, <3>4, <3>5, <3>7
    <3>8. QED
      BY <3>6, <3>7
  <2>3. QED
    BY <2>1, <2>2
<1>7. CASE RecoveryWindowEnds
  <2> DEFINE rec == [bridge.recovery EXCEPT !.reconnected = "expired"]
  <2>1. rec.recovering = bridge.recovery.recovering
        /\ rec.observedPause = bridge.recovery.observedPause
    BY DEF Bridges, Recoveries
  <2>2. bridge' = [bridge EXCEPT !.recovery = rec] /\ bridge.recovery # NoRecovery
    BY <1>7 DEF RecoveryWindowEnds, NoRecovery, Bridges
  <2>3. /\ Stays(bridge, bridge') /\ SameSource(bridge, bridge')
        /\ bridge'.recovery = rec /\ bridge'.published = bridge.published
        /\ bridge'.expected = bridge.expected /\ bridge'.fresh = bridge.fresh
        /\ bridge'.connected = bridge.connected
    <3> HIDE DEF rec
    <3> QED BY <2>2 DEF Bridges, Stays, SameSource
  <2> HIDE DEF rec
  <2>4. Playable(bridge, Unheard) => Playable(bridge', Unheard)
    BY <2>1, <2>2, <2>3 DEF Playable, HeldByRecovery
  <2>5. QED
    BY <1>3, <1>7, <2>3, <2>4
<1>8. QED
  BY <1>1, <1>4, <1>5, <1>6, <1>7 DEF Room

(* The decoder.  Where the bridge acts on what it reports, no operation is *)
(* awaited.                                                                *)
LEMMA NothingAwaited ==
  ASSUME FocusInv, Guarded, HasSource(bridge, target), ~Applying(bridge)
  PROVE  pc = "idle"
<1>1. CASE pc # "idle"
  <2>1. Running.kind = "recover" /\ At /\ pc \in Places
    BY <1>1, FocusParts, TypeParts DEF Applying, Running, Surroundings
  <2>2. pc = "load"
    BY <1>1, <2>1 DEF At, Places, Starts
  <2>3. loader # "none"
    BY <2>2 DEF Guarded, Outlived
  <2>4. QED
    BY <2>3, LoadingAsksNothing
<1>2. QED
  BY <1>1

LEMMA SettledAsksNothing ==
  ASSUME FocusInv, Guarded, HasSource(bridge, target), ~Applying(bridge), Settled
  PROVE  Asks(bridge) = {}
BY NothingAwaited, SettledHears DEF Between

(* The bridge hears of the decoder, perhaps after a timer of its own.      *)
LEMMA FocusHears ==
  ASSUME FocusInv, Guarded, bridge' \in Bridges, NEW o \in Bridges,
         Stays(bridge, o), SameSource(bridge, o), o.queue = bridge.queue,
         Playable(bridge, FALSE) => Playable(o, FALSE),
         NEW near \in BOOLEAN, bridge' = OnPlayer(o, target, near),
         Settled \/ (o = bridge /\ event), target' = target,
         HasSource(bridge, target) => ~Unheard',
         ghost'.focusLost = ghost.focusLost
  PROVE  FocusHolds'
<1> bridge \in Bridges /\ target \in Snapshots /\ Unheard \in BOOLEAN
  BY FocusParts
<1> DEFINE u == Unheard
           w == Unheard'
<1>1. \/ Renews(o, bridge')
      \/ Stays(o, bridge') /\ SameShow(o, bridge')
      \/ /\ ~Applying(o) /\ HasSource(o, target)
         /\ Stays(o, bridge') /\ SameSource(o, bridge')
         /\ Playable(o, TRUE) => Playable(bridge', FALSE)
  BY OnPlayerRenews
<1>2. HasSource(o, target) = HasSource(bridge, target)
  BY SameSourceHas
<1>3. Playable(bridge, u) => Playable(o, FALSE)
  <2>1. Playable(bridge, u) => Playable(bridge, FALSE)
    BY DEF Playable, HeldByRecovery
  <2>2. QED
    BY <2>1
<1>4. CASE Renews(o, bridge')
  <2>1. Renews(bridge, bridge')
    BY <1>4, RenewsChain DEF Stays
  <2>2. QED
    BY <2>1, FocusRenews
<1>5. CASE Stays(o, bridge') /\ SameShow(o, bridge')
  <2>1. Stays(bridge, bridge') /\ SameSource(bridge, bridge')
    BY <1>5, StaysChain DEF SameSource, SameShow
  <2>2. HasSource(bridge', target') = HasSource(bridge, target)
    BY <2>1, SameSourceHas
  <2>3. Playable(bridge, u) => Playable(bridge', FALSE)
    BY <1>3, <1>5, SameShowPlayable
  <2>4. HasSource(bridge, target) => (Playable(bridge', FALSE) => Playable(bridge', w))
    BY DEF Playable
  <2> HIDE DEF u, w
  <2>5. HasSource(bridge', target') =>
          HasSource(bridge, target) /\ (Playable(bridge, u) => Playable(bridge', w))
    BY <2>2, <2>3, <2>4
  <2>6. QED
    BY <2>1, <2>5, FocusStays DEF u, w
<1>6. CASE /\ ~Applying(o) /\ HasSource(o, target)
           /\ Stays(o, bridge') /\ SameSource(o, bridge')
           /\ Playable(o, TRUE) => Playable(bridge', FALSE)
  <2>1. Stays(bridge, bridge')
    BY <1>6, StaysChain
  <2>2. ~Applying(bridge) /\ HasSource(bridge, target)
    BY <1>2, <1>6 DEF Applying
  <2>3. CASE Settled
    BY <2>1, <2>2, <2>3, SettledAsksNothing, FocusStays
  <2>4. CASE o = bridge /\ event
    <3>1. Unheard /\ ~Unheard'
      BY <2>2, <2>4, NothingAwaited DEF Unheard, Between
    <3>2. Playable(bridge, Unheard) => Playable(bridge', Unheard')
      BY <1>6, <2>4, <3>1 DEF Playable, HeldByRecovery
    <3>3. QED
      BY <2>1, <2>2, <3>2, FocusStays
  <2>5. QED
    BY <2>3, <2>4
<1>7. QED
  BY <1>1, <1>4, <1>5, <1>6

(* Focus is lost: whatever would have played is replaced or was nothing    *)
(* that plays.                                                             *)
LEMMA FocusIsLost ==
  ASSUME FocusInv, FocusInterruption, bridge' \in Bridges
  PROVE  FocusHolds'
<1> /\ bridge \in Bridges /\ target \in Snapshots /\ ghost \in Histories
    /\ Unheard \in BOOLEAN
  BY FocusParts
<1> DEFINE changed == bridge.published = "playing" /\ bridge.connected
           n == [NextIntent(bridge) EXCEPT !.expected = "none", !.localPlay = 0]
           told == Publish(n, target, "paused", changed)
           r == ReassertPause(told, TRUE)
           ends == bridge.published = "playing" \/ bridge.localPlay = bridge.intent
<1>1. /\ Settled /\ HasSource(bridge, target) /\ pc' = pc
      /\ target'.conn = target.conn /\ target'.media = target.media
      /\ ghost'.focusLost = ghost.focusLost \cup {bridge.intent}
      /\ bridge' = IF ends THEN r ELSE bridge
  BY DEF FocusInterruption, Histories, Snapshots
<1>2. CASE ends
  <2>1. /\ n \in Bridges /\ n.intent > bridge.intent /\ n.queue = bridge.queue
    <3> DEFINE i == NextIntent(bridge)
    <3>1. i \in Bridges /\ i.intent > bridge.intent /\ i.queue = bridge.queue
      BY NextIntentFields
    <3> HIDE DEF i
    <3>2. LET m == [i EXCEPT !.expected = "none", !.localPlay = 0]
          IN m \in Bridges /\ m.intent > bridge.intent /\ m.queue = bridge.queue
      BY <3>1, ModeTypes DEF Bridges
    <3>3. QED
      BY <3>2 DEF i
  <2> HIDE DEF n
  <2>2. changed \in BOOLEAN
    BY DEF Bridges
  <2> HIDE DEF changed
  <2>3. told \in Bridges /\ Stays(n, told) /\ told.queue = n.queue
    BY <2>1, <2>2, PublishType, PublishStays, ModeTypes
  <2> HIDE DEF told
  <2>4. Stays(told, r)
    BY <2>3, ReassertPauseStays
  <2> HIDE DEF r
  <2>5. Stays(n, r)
    BY <2>3, <2>4, StaysChain
  <2>6. Renews(bridge, r)
    BY <2>1, <2>5, RenewsStays
  <2>7. bridge' = r
    BY <1>1, <1>2
  <2>8. QED
    BY <1>1, <2>6, <2>7, FocusRenews
<1>3. CASE ~ends
  <2>1. bridge' = bridge
    BY <1>1, <1>3
  <2>2. Ruled(bridge) /\ Heard(bridge, target, Unheard) /\ Over(bridge, ghost.focusLost)
    BY DEF FocusInv, FocusHolds, Focused
  <2>3. \A m \in Asks(bridge) : ~Starts(bridge.queue[m])
    <3> SUFFICES ASSUME NEW m \in Asks(bridge), Starts(bridge.queue[m]) PROVE FALSE
      OBVIOUS
    <3>1. CASE bridge.queue[m].kind = "play"
      BY <1>3, <2>2, <3>1 DEF Ruled
    <3>2. CASE RoomPlay(bridge.queue[m])
      BY <1>1, <1>3, <2>2, <3>2 DEF Heard, Playable
    <3>3. QED
      BY <3>1, <3>2 DEF Starts, RoomPlay
  <2>4. Heard(bridge, target', Unheard')
    BY <2>3 DEF Heard, RoomPlay, Starts
  <2>5. Over(bridge, ghost'.focusLost)
    <3>1. \A i \in ghost'.focusLost : i \in ghost.focusLost \/ i = bridge.intent
      BY <1>1
    <3>2. bridge.intent <= bridge.intent
      BY QueueType
    <3>3. QED
      BY <2>2, <2>3, <3>1, <3>2 DEF Over
  <2>6. QED
    BY <2>1, <2>2, <2>4, <2>5 DEF FocusHolds, Focused
<1>4. QED
  BY <1>2, <1>3

LEMMA FocusDecoder ==
  ASSUME FocusInv, Next, Decoder, Guarded, ~Transient, bridge' \in Bridges
  PROVE  FocusHolds'
<1> /\ bridge \in Bridges /\ target \in Snapshots /\ ghost \in Histories
    /\ Unheard \in BOOLEAN /\ bridge.queue \in Seq(Operations)
  BY FocusParts, QueueType
<1>1. CASE NativeEffect \/ NativePlayingChanges \/ NativeFails
  <2>1. /\ Settled /\ bridge' = bridge /\ pc' = pc
        /\ ghost'.focusLost = ghost.focusLost
    BY <1>1 DEF NativeEffect, NativePlayingChanges, NativeFails, NativeChange, Histories
  <2>2. /\ target'.media = target.media
        /\ target'.conn = "ready" => target.conn = "ready"
    BY <1>1 DEF NativeEffect, NativePlayingChanges, NativeFails, NativeChange, Snapshots
  <2>3. Stays(bridge, bridge') /\ Between' = Between
    BY <2>1 DEF Stays, Between, Running
  <2>4. HasSource(bridge', target') => HasSource(bridge, target)
    BY <2>1, <2>2 DEF HasSource
  <2>5. Asks(bridge) = {} \/ ~Unheard'
    BY <2>1, <2>3, SettledHears DEF Unheard
  <2>6. ~Unheard' => (Playable(bridge, Unheard) => Playable(bridge', Unheard'))
    BY <2>1 DEF Playable, HeldByRecovery
  <2>7. QED
    BY <2>1, <2>3, <2>4, <2>5, <2>6, FocusStays
<1>2. ~TransientLoss /\ ~TransientReturn
  BY DEF TransientLoss, TransientReturn
<1>3. CASE PlayerEvent
  <2>1. PICK near \in BOOLEAN : bridge' = OnPlayer(bridge, target, near)
    BY <1>3 DEF PlayerEvent
  <2>2. /\ target' = target /\ ghost'.focusLost = ghost.focusLost /\ ~Unheard'
        /\ Settled \/ event
    BY <1>3 DEF PlayerEvent, Histories, Unheard
  <2>3. Stays(bridge, bridge) /\ SameSource(bridge, bridge)
    BY DEF Stays, SameSource
  <2>4. QED
    BY <2>1, <2>2, <2>3, FocusHears
<1>4. CASE FocusInterruption
  BY <1>4, FocusIsLost
<1>5. ASSUME EchoWindowEnds \/ DeferredPauseFires \/ BufferTimerFires
      PROVE  /\ Settled /\ target' = target /\ ghost'.focusLost = ghost.focusLost
             /\ HasSource(bridge, target) => ~Unheard'
  <2>1. /\ Settled /\ target' = target /\ event' = event
        /\ ghost'.focusLost = ghost.focusLost
    BY <1>5 DEF EchoWindowEnds, DeferredPauseFires, BufferTimerFires, Histories
  <2>2. QED
    BY <2>1, SettledUnheard
<1>6. CASE EchoWindowEnds
  <2>1. bridge' = [bridge EXCEPT !.fresh = FALSE]
    BY <1>6 DEF EchoWindowEnds
  <2>2. /\ Stays(bridge, bridge') /\ SameSource(bridge, bridge')
        /\ bridge'.published = bridge.published /\ bridge'.recovery = bridge.recovery
        /\ bridge'.connected = bridge.connected
    BY <2>1 DEF Bridges, Stays, SameSource
  <2>3. HasSource(bridge', target') = HasSource(bridge, target)
    BY <1>5, <1>6, <2>2, SameSourceHas
  <2>4. HasSource(bridge, target) =>
          (Playable(bridge, Unheard) => Playable(bridge', Unheard'))
    BY <1>5, <1>6, <2>2 DEF Playable, HeldByRecovery
  <2>5. QED
    BY <1>5, <1>6, <2>2, <2>3, <2>4, FocusStays
<1>7. CASE DeferredPauseFires
  <2> DEFINE s == [bridge EXCEPT !.deferred = NoKey]
             o == [s EXCEPT !.expected = "none"]
             Fits(q) == /\ q \in Bridges /\ Stays(bridge, q) /\ SameSource(bridge, q)
                        /\ q.queue = bridge.queue
                        /\ Playable(bridge, FALSE) => Playable(q, FALSE)
  <2>1. Fits(s)
    BY NoRecoveryType DEF Bridges, Stays, SameSource, Playable, HeldByRecovery
  <2>2. Fits(o)
    <3> HIDE DEF s
    <3>1. /\ o \in Bridges /\ Stays(s, o) /\ SameSource(s, o) /\ o.queue = s.queue
          /\ Playable(s, FALSE) => Playable(o, FALSE)
      BY <2>1, ExpectingStays
    <3> HIDE DEF o
    <3>2. QED
      BY <2>1, <3>1, StaysChain DEF SameSource
  <2>3. bridge' = OnPlayer(o, target, FALSE) \/ bridge' = s
    BY <1>7 DEF DeferredPauseFires
  <2> HIDE DEF s, o
  <2>4. CASE bridge' = OnPlayer(o, target, FALSE)
    BY <1>5, <1>7, <2>2, <2>4, FocusHears
  <2>5. CASE bridge' = s
    <3>1. HasSource(bridge', target') = HasSource(bridge, target)
      BY <1>5, <1>7, <2>1, <2>5, SameSourceHas
    <3>2. HasSource(bridge, target) =>
            (Playable(bridge, Unheard) => Playable(bridge', Unheard'))
      <4>1. Playable(bridge, Unheard) => Playable(bridge, FALSE)
        BY DEF Playable, HeldByRecovery
      <4>2. Playable(bridge, Unheard) => Playable(bridge', FALSE)
        BY <2>1, <2>5, <4>1
      <4>3. HasSource(bridge, target) =>
              (Playable(bridge', FALSE) => Playable(bridge', Unheard'))
        BY <1>5, <1>7 DEF Playable
      <4>4. QED
        BY <4>2, <4>3
    <3>3. QED
      BY <1>5, <1>7, <2>1, <2>5, <3>1, <3>2, FocusStays
  <2>6. QED
    BY <2>3, <2>4, <2>5
<1>8. CASE BufferTimerFires
  <2> DEFINE o == [bridge EXCEPT !.buffering = FALSE, !.bufferTimer = FALSE]
  <2>1. PICK near \in BOOLEAN : bridge' = OnPlayer(o, target, near)
    BY <1>8 DEF BufferTimerFires
  <2>2. /\ o \in Bridges /\ Stays(bridge, o) /\ SameSource(bridge, o)
        /\ o.queue = bridge.queue
        /\ Playable(bridge, FALSE) => Playable(o, FALSE)
    BY DEF Bridges, Stays, SameSource, Playable, HeldByRecovery
  <2> HIDE DEF o
  <2>3. QED
    BY <1>5, <1>8, <2>1, <2>2, FocusHears
<1>9. QED
  BY <1>1, <1>2, <1>3, <1>4, <1>6, <1>7, <1>8 DEF Decoder

LEMMA FocusStep ==
  ASSUME FocusInv, Next, Guarded, ~Transient
  PROVE  FocusHolds'
<1>1. bridge' \in Bridges
  BY FocusParts, TypeStep, TypeParts DEF TypeOK, Bridges, Recoveries
<1>2. QED
  BY <1>1, FocusQueue, FocusLoaded, FocusReloadFails, FocusAnswered, FocusUser,
     FocusRoom, FocusDecoder DEF Next, Faults

(* What calls play() is the newest command, and play() is what it asks.    *)
LEMMA PlayIsAsked ==
  ASSUME FocusInv, Next, IssuesPlay
  PROVE  Running.intent \notin ghost.focusLost
<1> TypeOK /\ bridge \in Bridges /\ At /\ Occupied
  BY FocusParts
<1>1. RunningIsCurrent /\ bridge.queue # <<>> /\ Starts(Running)
  <2>1. CASE AuthorizeGranted /\ RunningIsCurrent
    BY <2>1 DEF AuthorizeGranted, At, Occupied
  <2>2. CASE PeerSought /\ RunningIsCurrent /\ Running.mode = "playing"
    BY <2>2 DEF PeerSought, Awaiting, At, Starts, Occupied
  <2>3. QED
    BY <2>1, <2>2, PlayComesFrom
<1>2. 1 \in DOMAIN bridge.queue /\ Running = bridge.queue[1]
  BY <1>1, QueueType DEF Running
<1>3. 1 \in Asks(bridge) /\ Running.intent = bridge.intent
  BY <1>1, <1>2 DEF Asks, Newest, Latest, Asking, Starts, RunningIsCurrent, Current
<1>4. Over(bridge, ghost.focusLost)
  BY DEF FocusInv, FocusHolds, Focused
<1>5. QED
  BY <1>1, <1>2, <1>3, <1>4 DEF Over

LEMMA FocusInit == Init => FocusHolds
<1> SUFFICES ASSUME Init PROVE FocusHolds
  OBVIOUS
<1>1. bridge.queue = <<>> /\ ghost.focusLost = {}
  BY DEF Init
<1>2. Asks(bridge) = {}
  BY <1>1 DEF Asks
<1>3. QED
  BY <1>1, <1>2 DEF FocusHolds, Focused, Ruled, Heard, Over

(* An operation that was the newest one when audio focus was lost never    *)
(* plays: while none of the two unguarded answers is awaited under a newer *)
(* intent, and no reload outlives the load that took its place.            *)
THEOREM FocusLossEnds ==
  ASSUME ~Transient
  PROVE  Spec /\ []Guarded => FocusLossEndsPlay
<1>1. Init => At /\ Silence /\ FocusHolds
  BY SilenceInit, FocusInit
<1>2. GrantInv /\ AccountInv /\ At /\ Silence /\ FocusHolds /\ Guarded
        /\ [Next]_vars => (At /\ Silence /\ FocusHolds)'
  <2>1. ASSUME GrantInv, AccountInv, At, Silence, FocusHolds, Guarded, Next
        PROVE  At' /\ Silence' /\ FocusHolds'
    BY <2>1, AtStep, SilenceStep, FocusStep DEF GrantInv, FocusInv, SilenceInv
  <2>2. ASSUME At, Silence, FocusHolds, UNCHANGED vars
        PROVE  At' /\ Silence' /\ FocusHolds'
    <3>1. At' /\ Silence'
      BY <2>2 DEF At, Silence, Loading, Silent, Confirmed, Unopened, Reloading,
         Waiting, Due, Fresh, Holding, Mute, Running, vars
    <3>2. FocusHolds'
      BY <2>2 DEF FocusHolds, Focused, Ruled, Heard, Over, Asks, Newest, Latest,
         HasSource, Playable, HeldByRecovery, Unheard, Between, Running, vars
    <3>3. QED
      BY <3>1, <3>2
  <2>3. QED
    BY <2>1, <2>2
<1>3. GrantInv /\ AccountInv /\ At /\ Silence /\ FocusHolds /\ [Next]_vars =>
        [IssuesPlay => Running.intent \notin ghost.focusLost]_vars
  BY PlayIsAsked DEF FocusInv, SilenceInv
<1>4. QED
  BY <1>1, <1>2, <1>3, GrantStands, AccountStands, PTL
     DEF Spec, FocusLossEndsPlay

=============================================================================
