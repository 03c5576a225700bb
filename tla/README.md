# MeowWatch Mobile in TLA+

MeowWatch Mobile keeps a video in step between friends (a Syncplay room), plays
it on the phone, on a Cast receiver, or on a paired desktop on the same network,
and allows each host one free hosted session per day. Python programs beside it drive
the app on real emulators and phones, record what they see and report a verdict
that a release rests on. This directory holds TLA+ models of the parts of the
Dart code that decide *who may do what, and when*, and of the Python tools whose
verdict, clean-up or data could go wrong between two calls; their TLC
configurations; and TLAPS proofs about all of these parts. Paths below are
relative to `src/`.

## 1. The system

| Part | Code | State it keeps | Operations | Talks to |
|---|---|---|---|---|
| Playback bridge | `lib/core/session/playback_sync_bridge.dart` | the serial queue `_tail`, intent and source counters, published mode, recovery, deferred pause, echo window | play / pause / seek / load, peer state, connection and player events, focus loss, dispose | SyncCore (streams, calls), PlaybackTarget (commands, snapshots), AppController (authorizePlay, load) |
| Syncplay client | `lib/core/sync/syncplay_client.dart`, `connection_watchdog.dart` | socket, generation, reconnect timer, watchdog, TLS gate, ignore counters | connect, reconnect, disconnect, handle message, send | server; bridge and controller through SyncCore |
| Follow decision | `lib/core/sync/sync_follow.dart`, `peer_stall_tracker.dart` | drift and stall history | decideFollow | client |
| Endpoint discovery | `lib/core/sync/endpoint_discovery.dart` | remembered endpoint | walk, joinPinned, joinFirstWorkingEndpoint | client |
| Hosting allowance | `lib/core/billing/hosting_access_policy.dart`, `file_hosting_quota_store.dart` | a ledger file, the serial queue `_pending` | canHostNow, remainingFreeHostsToday, recordSessionStarted | AppController, billing (isPlus), the clock |
| Nearby authority | `packages/nearby_bridge/lib/src/authority.dart` | connections, invitation, lease, reservation, revoked tokens | pair, approve, authenticate, revoke, expire, stop | NearbyServer; the protected store |
| Protected store | `packages/nearby_platform/lib/src/protected_store.dart` | one document: credentials and tombstones | read, write, revoke, serialised per key | authority, client |
| Nearby server / client | `packages/nearby_bridge/lib/src/server.dart`, `client.dart` | phase, command queue and result cache; pending commands | receive, execute, publish; connect, command | authority; the desktop target |
| Targets | `lib/core/playback/local_mobile_target.dart`, `lib/core/cast/cast_playback_target.dart`, `lib/core/nearby/nearby_desktop_target.dart` | a player or a remote lease, a snapshot | load, play, pause, seek, dispose | bridge, platform |
| App controller | `lib/app/app_controller.dart` | session, target, room, busy flags | connect, leave, cast, return, background, authorise | everything above |
| Repository, chat, room codes, UI | `lib/data`, `lib/core/chat`, `lib/core/connect`, `lib/ui` | lists and text | save, parse, show | controller |
| Device runners | `tools/android_*_runtime/run.py`, `tools/android_install/runner.py`, `tools/billing_runtime/run_relaunch_journey.py` | what the run has brought into being, process identities, samples, errors | the journey of each, its clean-up, its report | adb, the app, the emulator, a screen recorder |
| Native UI observer | `tools/android_native_ui/observer.py` | a helper package, a reader thread and its queue, a time budget | capture, cleanup | every runner |
| Showcase server and page | `tools/showcase/server.py`, `app.js` | recording files and manifests; the page's queue of chunks | start, append, heartbeat, end, interrupt, monitor, recover | browsers |
| Coordination server | `tools/production_together/coordination_server.py` | one invite with its lifetime, checkpoints | put and get of both | the two devices of an acceptance run |

Dart runs each isolate single-threaded: a handler is atomic up to its next
`await`, and everything else may run at an await. That is the granularity of
every Dart model here: one action per handler or per segment between two awaits.
The Python runners are sequential programs with a few threads, and the device is
what runs beside them: there an action is one operation of the runner, and the
app, the device and the threads act between any two.

What is hard in this code:

* **Playback bridge.** A command is decided, then waits in a queue, then awaits
  an authorisation and up to three native commands; the room, the link, the
  user, the player, audio focus and a new video interleave at every one. Native
  commands may fail, or time out in Dart and take effect later.
* **Hosting allowance.** Two calls race for one free session; the process may
  die between deciding and committing; the clock is the user's own.
* **Nearby authority.** Both interesting handlers (approve, authenticate)
  suspend on the store, and what they were about can be cancelled, revoked,
  replaced or disconnected meanwhile; storage failures stop the authority and
  the desktop may restart at any moment.
* **Syncplay client.** Late dials, late TLS upgrades and timers of an abandoned
  connection; echo counters that survive a reconnect.
* **Nearby server and client.** Duplicate commands, timeouts that leave a
  command's fate unknown, a bounded queue and cache.
* **Device runners.** Every call may raise, also after it took effect; the app
  may restart, a dialog may cover it and the screen may turn between two calls;
  a look that timed out is repeated; clean-up runs after any prefix of the run
  and may itself fail half way.
* **Showcase.** Two durable writes per chunk; uploads are lost, repeated and
  late; the page may die without a word and the server may restart.
* **Coordination server.** Two devices race for one lifetime, at its very end too.

What makes each part correct:

* bridge: nothing plays without a current authorisation, by itself after an
  outage, after a focus loss or for a video that was replaced; a pause wins;
* client: one live connection, nothing sent before TLS and login, no traffic or
  reconnect after a deliberate leave;
* allowance: one free session per date, durable before it is granted, every
  call answered;
* authority: one controller, with a credential nobody revoked; one credential
  per invitation; a pairing taken back leaves none behind; revocation survives
  everything;
* server and client: a command runs at most once and its answer is its own;
* runners: a pass is earned by what really happened on the device, the device is
  left as it was found or the failed clean-up is reported, and every run ends;
* showcase: the manifest never promises what the file does not hold, an end
  means the whole, and what is finished stays;
* coordination: both devices are told the same, within one lifetime;
* controller: the player that is attached to the room is the one the user sees.

## 2. What is modelled

### PlaybackBridge

`PlaybackBridge.tla` models `PlaybackSyncBridge` with the player on one side and
the room on the other. `bridge` is the record of the object's fields (and of the
two SyncCore fields it drives: `told`, what the room was last told, and
`pending`, a change not yet sent); `target` is the player's snapshot; `native`
the commands handed to the player that have not taken effect; `event` a snapshot
change not yet delivered; `pc` the await at which the operation at the head of
the queue is suspended; `room` and `link` the Syncplay side.

* Handlers are operators from an old `bridge` to a new one (`LocalCommand`,
  `OnPeer`, `OnPlayer`, `MarkSourceOpen`, `RecoverNetworkSource`, …), so that an
  event that reaches several handlers synchronously is one action.
* Actions: the queue's segments (`StartPeer`, `AuthorizeGranted`, `PeerPaused`,
  `PeerSought`, `Played`, `LocalCommandDone`, `ReassertDone`, `RecoveryLoaded`,
  …, with `CommandFails` for errors and timeouts), the user (`UserPlay`,
  `UserPause`, `UserSeek`, `UserLoads`, `Dispose`), the room (`RoomState`,
  `ConnectionLost`, `LoggedIn`, `ConnectionRestored`) and the player
  (`NativeEffect`, `NativePlayingChanges`, `NativeFails`, `TransientLoss`,
  `PlayerEvent`, `FocusInterruption`, and the three timers).
* `Settled` says that no continuation is ready and no listener is waiting:
  Dart drains its microtasks before the next event, so external events wait for
  it. The room's state and the connection's state travel on streams of different
  kinds (synchronous and not), and `LoggedIn`/`ConnectionRestored` keep the gap.
* `ghost` is history read only by the properties (what the user wants last,
  which intent was granted, which intents had lost focus, outages and reloads).
  `ghost.want` is the pause the user, an outage or a focus loss asked for. A
  failure of an older command leaves it alone; it ends with a newer intent, with a
  decoder that starts again by itself, and after the two failures that
  `LastPauseFails` names.
* `start()` first queues `requireExplicitResume`; with no player created yet that
  is a completed Future (`local_mobile_target.dart:112-127`), so the queue is
  empty again before any event, and `Init` starts there.
* Left out: positions, rate correction, the catch-up of a first play, and
  `adoptOpenSource`. Positions do not decide who may play; rate correction is a
  component of its own and is planned.

### HostingAllowance and HostingAccess

`HostingAllowance.tla` is the promise: started sessions are recorded one at a
time and for good, and a free one only on a date that has none. `HostingAccess.tla`
is the code: callers join the serial queue (`Ask`), the head runs `Begin`,
`Read`, then `Inquire`, `Refuse` or `Record`, `Rename` (the pending file replaces
the ledger) and `Grant`; reads and writes fail (`ReadFails`, `WriteFails`), the
process dies (`Crash`), the date moves both ways and the entitlement changes.
The ledger file refines the allowance (`ImplementsAllowance`). The write of the
pending file is part of `Rename`: until the rename nothing of it can be read.

### NearbyAuthority

`NearbyAuthority.tla` models the authority and the protected store under it.
`stage[c]` says how far connection `c` came, `held[c]` the token and `via[c]`
the invitation it deals with; `task[c]` and `reply[c]` are the store operation
its handler awaits and the answer once there; `tail` is the queue of store
operations; `creds` and `tombs` the document on disk. Every handler is an
action up to its await (`ApprovePairing`, `Authenticate`,
`RevokeForAcknowledgement`, …) and one after it (`StoredPairing`,
`ReadCredential` and `GrantLease`, `Acknowledge`).

* `StoreRuns` applies the oldest operation; `StoreFails` fails it, also when a
  write meets a tombstone or after it took effect, and stops the authority as
  `_storage` does.
* `SendAcceptance` is the server's half of an approval: the acceptance the
  authority returned goes out, or the connection is closed by then or the send
  fails, and it is dropped with the credential on disk (`server.dart:452-472`).
* `settled` is history: the tokens whose acceptance the server has dealt with, and
  those no one could deal with, because the process died or the store threw after
  the write. `OrphanIsRevoked` is about all others.
* `Restart` is a crash and a new authority over the same disk, at any moment.
* A deadline is a set of connections whose deadline has passed (`overdue`) and
  a flag for the invitation (`lapsed`). The pairing generation and the session
  epoch are only compared with captured values: `outdated` is the set of awaiting
  connections whose captured value is no longer current.
* Arrival limits (16 connections, 10 per minute, 5 per address) only prevent
  `OpenConnection`, which the model lets happen or not. Whether a proof is good,
  and whether a credential was used within 30 days, is a Boolean input.
* A connection identifier is reused only when the handler of its previous life
  has finished; in the code identifiers are random and never come back.
* The server's time limit on `revokeForAcknowledgement` is left out: it turns a
  receipt into an error and never the reverse.

### SyncplayConnection

`SyncplayConnection.tla` is the connection of `SyncplayClient`: dialling, the TLS
gate, the login, `ConnectionWatchdog`, the backed-off reconnect, `connectUntilJoin`,
`disconnect` and `dispose`. A TCP connection is named by the generation of the
attempt that dialled it, so that a late answer is told from one in time:
`stage[g]` says how far the asynchronous work of attempt `g` is, `raw` and
`socket` are `_rawOwner` and `_socket`, `open` the connections this side has not
closed, `failed` those that failed by themselves; `watchdog`, `timer`, `leaving`
and `join` are the rest of the object's state, and `refused` is history.

* One action per callback: `DialSucceeds`, `NegotiationAgreed`,
  `HandshakeCompletes`, `Hello`, `Refusal`, `Traffic`, `SocketEnds`,
  `WatchdogTimeout`, `ReconnectTimerFires`, …, and the two halves of a leave
  around the 120 ms goodbye (`Leave`, `LeaveContinues`).
* The controller makes one client per endpoint, connects it once and disposes it
  at any moment (`app_controller.dart:921-942`).
* `Traffic` is any bytes at all, from the moment the stream is listened to: they
  restart the watchdog before anything reads them.
* Of the server it is assumed that no Hello comes before it is asked for, and
  nothing after an Error, as the comments say; what the traffic of a joined room
  does, the length of the backoff and `disconnectForAppClose` are left out.

### The device runners: ToolRun and nine modules

`ToolRun.tla` is what the runners share: `todo`, the operations still to be
called, `mode` (try, finally, done), `errors` and `failed`, the operations that
were called and failed. `device` is the emulator and the host's processes as they
really are, `mem` what the runner remembers of them, `seen` history for the
properties. A call may `Raise` before or after its effect, or fail without anybody
looking at it (`ReturnUnheeded`: the removals, force-stops and uninstalls that run
with `check=False`); each costs one of `MaxFaults`.

| Module | Program | Beside it |
|---|---|---|
| `NetworkRun` | an outage of the radios around a playing app, checkpoint by checkpoint, with the capped fixture of the decoder variant | the app, the driver, the media server |
| `NativeRecording` | one screen recording in the three ways its callers use it | the recorder, its clock, the picture |
| `InstallRun` | clean install, first launch, first screen, one dialog closed | setup dialog, app, recorder |
| `ObserverCapture` | one capture of the screen under one budget, and the caller's retries | reader thread with its bounded queue, helper, app |
| `LifecycleRun` | play, home, return, force stop, restore | app, ANR dialogs, looks that time out |
| `FullscreenRun` | enter, rotate, idle, back, with pictures and recordings | rotation, tip, app |
| `TogetherFocusRun` | six focus stages asked for by the app's own journey | a handler thread, the journey, its deadline |
| `InterruptionRun` | permanent and transient loss of audio focus | the focus helper, the app |
| `BillingRelaunchRun` | purchase, relaunch and expiry with the store's dialogs | drives, store, ANR dialogs, the marker thread |

Each module's `Earned` says what a passing report vouches for, in terms of the
device and of history, not of what the runner remembers; `Cleaner` names, for
each thing the run may leave behind, the operations answerable for it: the one that
removes it and those whose failure leaves the finally block before it. `Restored`
says that nothing is left unless one of them was called and failed. Four
cases are easily missed:

* a failure the code does not look at leaves things behind under a passing report:
  `rm`, `rmdir` and `am force-stop` with `check=False`, and an uninstall that failed
  when `pm path` failed too and printed nothing;
* a `mkdir` that took effect and timed out is a directory the tool never knows of
  (`directory`); the operation that failed is then the one that prepares storage,
  which may go on and succeed at something else;
* in `NetworkRun` alone, a signal between two operations of the clean-up leaves the
  finally block with the rest never called (`Missed`);
* a driver that survives both `terminate` and `kill` makes the focus tool leave its
  finally block (`StopDrive`), and the observer and helper stay.

Parsing of dumps, logs and frames is reduced to what it decides; writing files on
the host is taken to succeed, and the evidence on the host is left out except where
a verdict depends on it.

### ShowcaseRecordings

`ShowcaseRecordings.tla` models the recording half of the showcase: `page` is
what `app.js` keeps of its recorder, `net` the requests on their way, `mem` the
server's sessions, `disk` the manifests and `file` the recordings. Appending a
chunk and replacing the manifest are two durable writes (`HandleChunk`,
`CommitChunk`) under one lock (`job`), and a crash or a disk error may come after
either. A recorder that failed (`Fail`) begins no other upload and sends no
heartbeat, but finishes and repeats the upload it has begun. Requests are lost, repeated by the page and handled after it gave up;
the gap monitor is a thread that an `OSError` ends; `Restart` recovers the
manifests before anything is served. Times are one bit per session: whether the
server has heard of the page within `GAP_AFTER_SECONDS`. The streaming of the
screen to the page and the device panels are not modelled.

### Rendezvous

`Rendezvous.tla` is the coordination server: every request is one action under
the server's lock, which first applies `_expire_locked`. The first invite starts
a lifetime of `ttl_seconds`; checkpoints never change; a request that is
malformed or names another run changes nothing. `told` is history: which values
a success has named for each key.

The `MC*.tla` modules hold the finite sets and symmetries of the runs, and
`MCDeviceTools` (over `ScreenTools`, six of the runners) and `MCLinks` let each behaviour be one program of several, so
that properties of the same kind are stated once.

### Not modelled

Listed with reasons in `PROJECT.json`. Planned (section 6): the Syncplay state
handshake and `decideFollow`, endpoint discovery, the Nearby command queue with
its client, the targets' lifecycles, the controller and the repository. Room
codes, cryptography, framing, chat lists and the user interface are parsing,
hashing or display. Of the
other tools, the journeys under `local_file_runtime`, `production_purchase_runtime`,
`normal_apk_rehearsal`, `external_room_rehearsal` and `nearby_runtime` have the
shape of the runners above and would be further modules over `ToolRun`;
`device_readiness.py` and `prepare_sdk_setup.py` poll a booting device before any
of them; `anr_guard.py` and the motion probe classify what a device printed; and
`compose_side_by_side.py` joins two videos and keeps no state between calls.

## 3. What the runs check

| Run | Instance | Properties | Distinct states |
|---|---|---|---|
| `Bridge` | a phone, one network video, 5 stimuli | `TypeOK`, `OneReloadPerOutage`, `PlayIsAuthorized`, `ReconnectNeverResumes`, `OwnStartIsGranted` | 491 840 |
| `BridgeSwitch` | two videos, seeks, focus loss, disposal; 5 stimuli | `FocusLossEndsPlay`, `SourceChangeInvalidates` | 401 715 |
| `BridgePause` | fair; all failures and focus loss; 5 stimuli | `PauseWins`, `PausedRoomSilencesPhone` | 678 340 |
| `BridgeTv` | a receiver that plays by itself and loses readiness; 5 stimuli | `PlayIsAuthorized`, `OwnStartIsGranted` | 607 255 |
| `Hosting` | 2 callers, 2 sessions, 2 dates | `TypeOK`, `OneFreeSessionPerDay`, `GrantedIsCommitted`, `AvailableIsTrue`, `EveryCallIsAnswered`, `ImplementsAllowance` | 213 324 |
| `DeviceTools` | all nine runners, 2 faults each | `PassIsEarned`, `DeviceIsRestored`, `TapsAreBounded`, `ExpiredCaptureEndsRun`, `EveryRunEnds` | 1 523 003 |
| `Links` | the client's connection, 8 generations; the coordination server, lifetime 2 of 4 moments; one recording page, 2 chunks, 2 requests on their way, 2 faults | `OneThingUnderWay`, `OnlyOwnFailureEndsLink`, `JoinIsAnswered`; `OneStory`, `OneLifetime`; `FileHoldsManifest`, `EndedIsWhole`, `FinishedIsFinal`, `SilenceBecomesGap` | 214 625 |
| `Authority` | 2 connections, 2 tokens, 2 invitations, 2 bad proofs | `TypeOK`, `LeaseIsCurrent`, `ReservationIsInFlight`, `OneCredentialPerInvitation`, `AcknowledgedIsDurable`, `OrphanIsRevoked`, `NoWriteAfterRevoke`, `LeaseIsNotStolen`, `WithdrawnIsWorthless` | 3 954 259 |

**Bounds.** `MaxStimuli` bounds the events the environment causes in one
behaviour of the bridge (a command, a room state, a lost link, a native change,
a failure); the bridge's own steps are not bounded. Every hazard listed needs
three or four such events, and each run adds one. The kinds of event of a run
(`Stimuli`) are those its question is about: without them the same bound would
spend itself on unrelated events. `Hosting` and `Authority` bound nothing but
their sets; two callers race, and with two sessions and dates each rule can be
broken; two phones compete, and two tokens and two invitations allow every
reuse. Phones, tokens and invitations are interchangeable (`SYMMETRY`); no
liveness is checked there. Deadlock is checked in `Hosting` and `Authority`;
a bridge that has used its stimuli and settled may stop, and so may a runner that
has reported, a client that has left and a clock at its bound.

`DeviceTools` allows two faults (`MaxFaults`), since every hazard of the runners
is a failure met by a clean-up or a retry that fails or misleads as well; the
timeouts (`LIMIT`, `READY`, `STARTUP`, `CAPTURE`, `RESULT`, `Tolerance`) are the
smallest that keep their order, and `MaxTime`, `MaxPosition` and `MaxCaptures`
leave room to pass every one of them. The queue of the observer holds one line
(`Capacity`), so that it is full. The limits on dialogs are those of the code,
two; that on looks which time out is 2 instead of 3, so that the faults reach
it. In `Links`, `MaxGeneration = 8` lets an attempt, its reconnects and late
answers of each overlap; `MayBegin` leaves two generations for losing an attempt
and for leaving. The rendezvous lives 2 of 4 moments (before, within, at and
after the deadline), with one checkpoint fewer than there are keys
(`MAX_CHECKPOINTS`). Two chunks and two requests are the least in which an
upload overlaps the next, a retry or the end of the session.

`BridgePause` has five so that a video, a room Play, its failure with a late effect
and the user's pause behind it leave one for a second failure.

**Fairness.** `FairSpec` has weak fairness on the bridge's queue, its timers, the
player's events and the execution of native commands: the isolate's event loop
runs ready continuations and due timers, and the player executes or drops what
it was given (a command that is never answered is cut off by `commandTimeout`,
`CommandFails`). Nothing is assumed of the user, of the room, of the link, or of
authorisation ever answering (`authorizePlayback` reads a file and has no
timeout), which is why `PauseWins` is worth checking. `AnsweredSpec` adds that
authorisation answers. `HostingAccess` has weak fairness on each caller's next
step. `NearbyAuthority` has no liveness property and no fairness.
`DeviceTools` has weak fairness on the interpreter that runs the program, on time
and on the reader thread, and strong fairness on the billing tool's wait for a
dialog running out (a deadline on the clock passes however often an ANR is
closed in between); nothing is assumed of the app, the device or the store.
`Links` takes each program's fairness in its own behaviours only: a dial has a
10 s timeout, the watchdog's timer fires, the awaits of a leave are bounded, the
join's continuation runs, the monitor loops and an append that holds the lock
finishes. Of the server and the network one thing is assumed, by `JoinIsAnswered`
itself: that no server sends bytes for ever and never its Hello
(`HelloIsNotWithheld`). Any byte puts the watchdog off (`syncplay_client.dart:728`),
so against such a server the join does wait for ever: nothing else bounds it. The
coordination server only answers.

**Disagreements with the comments.** Four runs find a behaviour that a comment
or a document rules out:

* `BridgeStaleDenial`: a denial publishes "paused" after its await without
  checking that it is still current; a newer Play of the room had been published
  meanwhile. Audio focus is lost, `_onFocusInterruption` sees a paused room and
  returns, and the Play goes on. `BridgeSwitch` checks the same property where no
  denial happens, and it holds.
* `BridgePauseThenSeek`: Pause, then Seek before the queue has run the pause:
  the pause is dropped as superseded and the seek keeps "playing".
* `BridgeEarlyStop`: a native stop while the room's Play is being applied is
  dropped with every other event, and the Play is acknowledged as playing.
* `RoomStranded`: an error of the TLS handshake's future, also a connection that
  drops in the middle of it, is treated as a refusal
  (`syncplay_client.dart:637`), so a network fault during a reconnect ends an
  established session, where `docs/ACCEPTANCE_HISTORY.md:1297-1299` says that
  STARTTLS transport failures still reconnect.

Known and noted, without a run of their own (see the hazards in `PROJECT.json`):
a pause that the decoder refuses is not repeated, and a focus loss can be published
away: a room Play times out and its catch block awaits a pause; focus is lost, which
publishes "paused" and queues a pause; the late Play reaches the decoder and the
awaited pause fails; the catch block publishes what the player shows, "playing"
(`playback_sync_bridge.dart:918`), the queued pause drops itself because the room is
not paused (line 802), and the phone plays on without focus. `PauseWins` excuses
these two failures and no other;
an error report of a replaced video reaches the room under the new one; a Cast
receiver suspended at the moment the link drops makes `peerLeft` do nothing; an
expired capture whose clean-up raises another error is retried by the caller's
wait, which is why `ExpiredCaptureEndsRun` leaves masked ones out; a tap in the
billing tool that raises after it took effect is not counted, hence the bound of
`TapsAreBounded` there; its verdict is set before the last report is written, so
that success is what `main` returns (`Succeeds`); the gap monitor does not
survive an `OSError`, which `SilenceBecomesGap` excuses; and a credential stays on
disk though no phone was sent it when the process dies between the write and the
answer, when the store throws after it wrote, and when the server cannot send the
acceptance: `OrphanIsRevoked` names these three, and shows that there is no fourth.

**Mutants.** For every property of a passing run the module holds a faulty
variant of one definition, marked `(mutant: …)`, that the property catches.

## 4. What is proved

`PlaybackBridge_proofs.tla` (any sources, any kind of target, any environment and
number of its events). The inductive invariant `GrantInv` is

* `TypeOK`, which includes that an await always has an operation to return to;
* `Sorted`: no queued operation is newer than the current intent;
* `GrantHolds`: an operation on its way to `play()` that is still the newest one
  is the operation whose intent `authorizePlayback` granted.

`PlayIsAuthorized` is about the step that issues the command, and a room Play
issues it two awaits after its grant, so the grant has to be carried along
(`GrantHolds`); that a handler running in between cannot make an old operation
the newest one again needs `Sorted`. The argument is in two halves: what each
helper does to the queue (`Grows`: one operation added, or none, and no intent
goes back), which yields that every step *keeps* the operation at the head or
*ends* it (`StepEffect`); then the grant, step by step (`GrantInvStep`), and
where `play()` comes from (`PlayComesFrom`). Proved: `TypeCorrect` and
`PlayNeedsGrant`.

The other safety properties of the bridge look at its fields, and the handlers
are nested several deep; so the proofs see a handler only as `Moves` (it takes the
bridge from one record to another, adding at most one operation, whose kind says
what it used up) and a step only as `Answers`, `UserOpens`, `Reopens` or `Drops`
(`StepAnswers`). Over that abstraction:

* `AccountInv` adds `Notes` (what the room was told is what was published,
  `Spoken`, and an open source is the target's, `Sourced`) and `Account`: reloads
  made, plus one that waits in the queue, plus one a recovery may still queue, are
  at most the outages. `OneReloadPerOutage` is not inductive without the two debts.
  Proved: `AccountStands` and `ReloadsAreBounded`; and, with `Spoken` and
  `GrantHolds`, `OwnStartNeedsGrant`.
* `SilenceInv` adds `At` (which kinds of operation wait at which await) and
  `Silence`: while nobody allowed playing since the outage, no operation of the
  open source ends in `play()`, and none that could is left for when the reload
  opens it. Proved: `ReconnectIsQuiet`, for targets that open nothing without a
  load (`~Transient`). That hypothesis is needed by the argument: a Cast receiver
  that is suspended when the link drops has no source then, `peerLeft` does
  nothing, and an operation queued before returns with the receiver.
* `EarlierSourceIsSilent`: an operation of a replaced source ends without changing
  what the room was told, is about to be told, or the bridge remembers, unless it
  was awaiting the pause of a denied or of a failed Play. These two awaits are the
  only ones the code does not follow by a look at the source, and
  `SourceChangesInvalidate` is the property of the run wherever nothing waits
  there.
* `FocusInv` adds `FocusHolds`. The bridge does not compare a loss of focus with
  the operation that would play: it gives a room Play up because it has published
  "playing", and the user's own because it is the pending local Play. So a command
  that is still the newest has to show in one of the two (`Ruled`, `Heard`, with at
  most one such command in the queue), whatever timers, decoder reports, recoveries
  and awaits did in between; and a command that was there when focus was lost is no
  Play (`Over`). `Heard` says more while a report of the decoder is on its way to a
  queue that is about to go on (`Unheard`): the expectation that keeps such a report
  from being published is still in force. A step is seen as `Renews` (a new intent,
  perhaps with a command that shows) or `Stays`, and ends an operation or not.
  Proved: `FocusLossEnds`, for `~Transient` targets and while `Guarded`, which leaves
  out two situations. `Overtaken` is the one of `BridgeStaleDenial`: a newer intent
  comes while the pause of a denied or failed Play is awaited. `Outlived` is a
  recovery's reload that returns only after the load that replaced it: meanwhile
  the bridge takes itself for idle (`_applying` does not count that reload) and may
  publish a stop of the decoder without a new intent, although a room Play waits
  behind the reload; a focus loss then finds nothing to give up.

`HostingAccess_proofs.tla` (any callers, sessions and dates). The inductive
invariant is `TypeOK`, the two safety invariants and `Books`: a call that is
deciding holds the ledger as it is on disk, one that is writing holds the ledger
with exactly its own session added, and one that has committed finds it there.
`OneFreeSessionPerDay` is not inductive without it, for a write replaces the whole
file. `TypeOK` carries that only the queue's head runs, which makes `Books`
survive the steps of others. Proved: `TypeCorrect`, `OneFreePerDay`,
`GrantsAreDurable`, `NoStaleAnswer` and `Refinement`, the whole safety part of
the allowance.

`NearbyAuthority_proofs.tla` (any connections, tokens, invitations and bounds).
The inductive invariant is the conjunction of

* `TypeOK`;
* `Stationed`: the stage of a connection fits the store operation it awaits;
* `Matched`: an operation in the queue that somebody awaits is the one awaited,
  once, with the token held;
* `Tombstones`: a queued revocation is already in memory (`RevokesKnown`), nothing
  is both stored and revoked, whoever leads or is about to lead holds a token
  that is not revoked on disk behind memory's back, and what was receipted is
  revoked on disk (`Buried`);
* `Controller`: the lease is current, there is no reservation beside it, and a
  reservation belongs to the one open connection whose write is awaited;
* `Spending`: an invitation that was spent is not the current one, and no two
  pairings store a credential under the same one.

`LeaseIsCurrent` needs `Tombstones`, because a token may be revoked on disk only
by an operation that was queued long before; `LeaseIsNotStolen` needs
`Controller`, because two phones may have read their credentials before either
reserved the controller. Each component is preserved by every action by a lemma of
its own (`TypeStep`, `StationedStep`, `MatchedStep`, `TombstonesStep`,
`ControllerStep`, `SpendingStep`), on top of lemmas about closing connections and
about the queue (`Closing`, `Queueing`, `MatchedAdd`, `MatchedDrop`, …). Proved:
`TypeCorrect`, `LeaseStaysCurrent`, `ReservationEnds`, `InvitationSpentOnce`,
`RevocationIsDurable` and `NoSteal`.

Where a credential comes from and where it goes is a second layer, `CInv`, over
the first: `Withdrawing` (a pairing that still stores its credential under a
withdrawn invitation is marked as outdated) and `Provenance`: tokens are drawn
once and for one pairing (`Drawn`); what is queued for writing is on disk, was
revoked since, or is the pairing's that awaits the write (`Founded`), and who uses
a token found it stored (`Backed`); no write stands behind a revocation of the
same token (`InOrder`). `OrphanIsRevoked` and `NoWriteAfterRevoke` are each
inductive only together with the other and these. What `NoOrphan` excepts is
recorded in `settled` by the actions that are the exceptions, so the proof shows
that no other step, and no order of steps, leaves such a credential. Proved: `NoOrphan`,
`WritesComeFirst` and `NothingFromWithdrawn`.

`Links_proofs.tla`, on the connection (any number of attempts, no assumption). The
inductive invariant is `TypeOK`, `OneThingUnderWay` and

* `Fresh`: nothing is under way for an attempt that has not begun, nor for the
  generation in which the client was told to stop or waits for its timer;
* `Held`: the open connections are exactly the one `_rawOwner` names, and a client
  that is not leaving holds none but the current generation's;
* `Guarded`: the watchdog runs for that connection alone, and what is bound is
  secure and what the client writes to;
* `Parting`: a leave that awaits its goodbye still holds the socket it says it on.

`OneThingUnderWay` is not inductive by itself: that a late dial cannot add a
connection needs `Fresh` and `Held`, since the generation it belongs to may be
several reconnects old. Proved: `TypeCorrect`, `NothingLost` and `OwnFailureOnly`.

`Links_proofs.tla`, on the meeting point (any devices, keys, values and lifetime). The inductive
invariant is `Typed`; `Lifetime` (an invite on record expires `ttl_seconds` after
the first was accepted, and one that is gone has expired); `Story` (of every key
nothing has been told but what is on record, and never two things); and
`OneLifetime`. `OneStory` needs `Lifetime`: after expiry the record is empty, and
only because nothing succeeds any more is the old story not contradicted. Proved:
`SuccessHasOneLifetime` and `EveryoneHearsOneStory`.

`ShowcaseRecordings_proofs.tla` (any pages, chunks, requests under way and
faults). The inductive invariant is the types and

* `Tidy`: what a session, in memory or on disk, may say of itself (its chunks
  counted from one, its gaps, its end);
* `Unknown`: a page that has not begun is unknown to the server, its files and the
  network;
* `Counted` and `Sent`: the page's own counters, and that a request names a chunk
  there is and an end is only asked for when all were confirmed;
* `Appending`: the append that holds the lock has put just the next chunk in the
  file;
* `Ahead` and `Listed`: the file holds what the session in memory lists and what
  the manifest lists, and more only while a chunk is still to come.

`FileHoldsManifest` is a part of `Listed`; what it needs is that a chunk torn by a
failed write or a crash lies beyond everything listed (`Ahead`), so that a retry
overwrites it. `EndedIsWhole` needs the page too: an end is only sent when
everything was confirmed, and what was confirmed is listed. Proved: `TypeCorrect`,
`ManifestIsHeld`, `EndIsWhole` and `FinalStays`.

`ToolRun_proofs.tla`, `ScreenTools_proofs.tla` and `MCDeviceTools_proofs.tla` (any of
the nine tools, any timeouts, capacities and number of faults; of the constants only these are assumed: the two tap limits and
the tolerance are natural numbers, the fixture's limit is a positive one, and the
kinds of file are among the code's three). `DeviceIsRestored` speaks of the end of a run,
and a run may be interrupted at any operation of its try block, before or after
the operation took effect; so the invariant has to say at every point what a run
may have left behind and what is still to come. `ToolInvariant` gives each tool
its own part:

* `NetworkUndone`, `RecordingUndone`, `InstallationUndone`, `ObserverUndone`,
  `LifecycleUndone`, `FullscreenUndone`, `TogetherUndone`, `InterruptionUndone`,
  `BillingUndone`: in the try block, only operations of the try block are to come;
  in the finally block, what is to come is an end of the clean-up program
  (`Undoing`, over `Rest`), and each thing that is not undone has its undoing
  operation still to come or one that is answerable for it among those that failed.
  Where the tool remembers what it owns, the part also ties memory to the device: the observer remembers
  its package before it is installed (`ObserverKnows`), and a screen recording
  that was started is followed by its end, also inside the dialogs of the billing
  tool, whose loops push and pop their operations (`BillingStart`, `BillingRecover`).
* `InstallationTaps`, `LifecycleTaps`, `FullscreenTaps`, `BillingTaps`: a tap that
  is still to come has already been counted, or room for it was found, and the
  taps made are those counted (for the billing tool, and those that raised). The
  limits are only tested several operations before the tap.
* `InstallationAuthorized`: the install tool starts the app only when it has found
  the emulator to be the one it may change, so its clean-up does stop the app.
* `ObserverEnds`: once a capture has expired and no later error hid it, what comes
  next in the try block is one of the observer's own last steps.

Each tool's part is preserved by a lemma per operation of that tool, over lemmas
about what a sequence of operations has left (`RestParts`, `PushTwo`, `UndoingParts`,
…) in `ToolRun_proofs.tla`; `ScreenTools_proofs.tla` has six of the tools,
`MCDeviceTools_proofs.tla` the other three and the theorems about all. Proved:
`DevicesAreRestored`, `TapsStayBounded` and `ExpiredCapturesEnd`.

`PassIsEarned`, the verdict itself, is a second layer, proved together with
`ToolInvariant` (`ToolInvariantHolds`), for what a tool has done so far also says
what it can have left behind: `ToolPassing` says of each tool what is known, as long as nothing raised, when the
first `d` operations of its program are done and those that are still to come are
the others (`After`), and that a run outside its try block without an error has
earned the verdict. An operation that raised leaves an error behind, and no later
operation takes it away. What makes the parts differ is who else moves the device
meanwhile:

* `InstallationPassing`, `InterruptionPassing`, `FullscreenPassing`: the checks
  that were made still speak of the device at the end. A process that was replaced
  in between is noticed by a later operation, which raises, so nothing that was seen
  of the other process reaches a verdict.
* `LifecyclePassing`: a process that was replaced, or a player that stood still in
  the background, shows in a process number or in a pair of positions that a later
  operation compares.
* `TogetherPassing`: the main thread, the thread that waits for the handler and the
  journey agree on how far the run is (`TogetherStages`), whatever the order in
  which they got there.
* `RecordingPassing`, `ObserverPassing`: what the recorder or the observer left on
  the device is still what was checked when the report is written.
* `NetworkPassing`: the app's process may be replaced behind the tool's back
  (`Astray`), and nothing in the try block need notice; such a run fails only in
  the clean-up, when the app is stopped, which is why the invariant may not say
  that the verdict is earned before that.
* `BillingPassing`: the verdict is a flag in memory (`mem.passed`), set in one
  branch of a loop that pushes its own operations; the buttons counted are those
  really hit (`BillingHits`), and the flag is only set with those of the journey
  behind it.

Proved: `PassesAreEarned`.

The assumptions are those on the constants, named in each module
(`BridgeAssumption`, `HostingAssumption`, `AuthorityAssumption`,
`RecordingsAssumption`, `RendezvousAssumption`, `PreparationAssumption`,
`SystemAssumption`, `TimesAssumption`, `KindsAssumption`): the sentinel values differ from the identifiers, the bounds are
natural or positive numbers, the kinds of file are known ones.

**Only model-checked:** every liveness property, since liveness under fairness is
beyond the prover. Neither checked nor proved on a target that may be suspended
(`Transient`, a receiver): `ReconnectNeverResumes`, which the case above refutes
there, and `FocusLossEndsPlay`, since such a target has no audio focus to lose.

## 5. Running

    tlc -config Bridge.cfg MCPlaybackBridge
    tlapm PlaybackBridge_proofs.tla

Each configuration is named after its run; the longest takes about three minutes.
The proofs take a few minutes each from nothing, those of the device runners ten to
twenty, for every obligation is proved beside the definitions of all the runners.

## 6. Plan

1. Done: `PlaybackBridge`, the core; `HostingAllowance` ← `HostingAccess`;
   `NearbyAuthority` over the store; `SyncplayConnection`; the device runners over
   `ToolRun`; `ShowcaseRecordings`; `Rendezvous`; the proofs above.
2. `SyncplayHandshake`: the ignore counters, state replies and `decideFollow`
   against a reference server, with an abstract room as its specification; a link
   that is lost and restored, as `PlaybackBridge` assumes it, as an abstraction of
   `SyncplayConnection`.
3. `NearbyCommands`: the server's queue, cache and timeouts with the client's
   pending commands over a connection that may drop; refines *at most once*.
   Composed with `NearbyAuthority`'s `Leased`.
4. `AppSession`: connect, leave, cast and return of the controller;
   `EndpointWalk`; the targets' leases; `AppRepository`; the activity throttle.
5. Rate correction and the catch-up of a first play, with positions, beside
   `PlaybackBridge`.
6. Proofs: at most once for `NearbyCommands` by refinement.
